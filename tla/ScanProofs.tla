----------------------------- MODULE ScanProofs -----------------------------
(* The scans, for samples of every length: what module Scans promises of    *)
(* names, ratings, pairs, the cache of requests, UTF-8, box drawing, ends   *)
(* of lines, quoted-printable, lines and doubled UTF-8, and of the try of   *)
(* four byte orders in looks_like_ucs4().                                   *)
EXTENDS Scans, FoldLemmas, SequenceTheorems

-----------------------------------------------------------------------------
(* The try of four byte orders. *)
Quadruple == Byte \X Byte \X Byte \X Byte

(* A buffer is determined by its quadruples' bytes. *)
LEMMA Shuffled ==
  ASSUME NEW q \in Seq(Quadruple), NEW permutation
  PROVE  /\ ShuffleByteOrder(q, permutation) \in Seq(Quadruple)
         /\ DOMAIN ShuffleByteOrder(q, permutation) = DOMAIN q
         /\ \A k \in DOMAIN q :
              ShuffleByteOrder(q, permutation)[k] = Permuted(q[k], permutation)
<1> DEFINE t == ShuffleByteOrder(q, permutation)
<1>1. DOMAIN t = 1 .. Len(q) /\ DOMAIN q = 1 .. Len(q) /\ Len(q) \in Nat
  BY DEF ShuffleByteOrder
<1>2. \A k \in DOMAIN q : t[k] = Permuted(q[k], permutation)
  BY DEF ShuffleByteOrder
<1>3. \A k \in 1 .. Len(q) : Permuted(q[k], permutation) \in Quadruple
  <2> TAKE k \in 1 .. Len(q)
  <2>1. q[k] \in Quadruple
    OBVIOUS
  <2> QED BY <2>1 DEF Permuted, Quadruple
<1>4. t \in [1 .. Len(q) -> Quadruple]
  BY <1>1, <1>3 DEF ShuffleByteOrder
<1>5. t \in Seq(Quadruple)
  BY <1>1, <1>4
<1> QED BY <1>1, <1>2, <1>5

(***************************************************************************)
(* "At the end the buffer has the same byteorder as it had": the four      *)
(* shuffles give the caller's buffer back (lib/multibyte.c:557, 570).      *)
(***************************************************************************)
THEOREM BufferIsRestored ==
  ASSUME NEW q \in Seq(Quadruple)
  PROVE  Orders(q)[5] = q
<1> DEFINE first == ShuffleByteOrder(q, "4321")
           second == ShuffleByteOrder(first, "21")
           third == ShuffleByteOrder(second, "4321")
           last == ShuffleByteOrder(third, "21")
<1>1. /\ first \in Seq(Quadruple) /\ DOMAIN first = DOMAIN q
      /\ \A k \in DOMAIN q : first[k] = Permuted(q[k], "4321")
  BY Shuffled
<1> HIDE DEF first
<1>2. /\ second \in Seq(Quadruple) /\ DOMAIN second = DOMAIN q
      /\ \A k \in DOMAIN q : second[k] = Permuted(first[k], "21")
  BY <1>1, Shuffled
<1> HIDE DEF second
<1>3. /\ third \in Seq(Quadruple) /\ DOMAIN third = DOMAIN q
      /\ \A k \in DOMAIN q : third[k] = Permuted(second[k], "4321")
  BY <1>2, Shuffled
<1> HIDE DEF third
<1>4. /\ last \in Seq(Quadruple) /\ DOMAIN last = DOMAIN q
      /\ \A k \in DOMAIN q : last[k] = Permuted(third[k], "21")
  BY <1>3, Shuffled
<1> HIDE DEF last
<1>5. \A k \in DOMAIN q : last[k] = q[k]
  <2> TAKE k \in DOMAIN q
  <2>1. q[k] \in Quadruple
    OBVIOUS
  <2>2. q[k] = <<q[k][1], q[k][2], q[k][3], q[k][4]>>
    BY <2>1 DEF Quadruple
  <2>3. first[k] = <<q[k][4], q[k][3], q[k][2], q[k][1]>>
    BY <1>1 DEF Permuted
  <2>4. second[k] = <<q[k][3], q[k][4], q[k][1], q[k][2]>>
    BY <1>2, <2>3 DEF Permuted
  <2>5. third[k] = <<q[k][2], q[k][1], q[k][4], q[k][3]>>
    BY <1>3, <2>4 DEF Permuted
  <2>6. last[k] = <<q[k][1], q[k][2], q[k][3], q[k][4]>>
    BY <1>4, <2>5 DEF Permuted
  <2> QED BY <2>2, <2>6
<1>6. last = q
  <2>1. Len(last) = Len(q)
    BY <1>4
  <2> QED BY <1>4, <1>5, <2>1
<1> QED BY <1>6 DEF Orders, first, second, third, last
-----------------------------------------------------------------------------
LEMMA CountType ==
  ASSUME NEW q \in Seq(Quadruple), NEW min_chars \in Nat
  PROVE  LET try == WhatIfItWasUcs4(q, min_chars)
         IN /\ try.count \in Nat
            /\ try.eol = "unset" => try.count \div 4 < min_chars
<1> DEFINE bom == q # <<>> /\ q[1] = <<0, 0, 254, 255>>
           r == IF bom THEN Tail(q) ELSE q
           nice == {k \in DOMAIN r : IsNice(r[k])}
           bonus == BomBonus(4 * Len(q), 20)
<1>1. r \in Seq(Quadruple)
  OBVIOUS
<1>2. Cardinality(nice) \in Nat
  <2> HIDE DEF r
  <2>1. DOMAIN r = 1 .. Len(r) /\ Len(r) \in Nat
    BY <1>1
  <2>2. IsFiniteSet(1 .. Len(r))
    BY <2>1, FS_Interval
  <2>3. nice \subseteq 1 .. Len(r)
    BY <2>1
  <2> QED BY <2>2, <2>3, FS_Subset, FS_CardinalityType
<1>3. bonus \in Nat
  <2> DEFINE small(k) ==
        \/ 20 * k <= 4 * Len(q)
        \/ (20 * k - 4 * Len(q)) * (20 * k - 4 * Len(q))
             <= 20 * 20 * (4 * Len(q))
  <2>1. IsFiniteSet(1 .. 2 * (4 * Len(q)))
    BY FS_Interval
  <2> HIDE DEF small
  <2>2. IsFiniteSet({k \in 1 .. 2 * (4 * Len(q)) : small(k)})
    BY <2>1, FS_Subset
  <2>3. Cardinality({k \in 1 .. 2 * (4 * Len(q)) : small(k)}) \in Nat
    BY <2>2, FS_CardinalityType
  <2> QED BY <2>3 DEF BomBonus, small
<1> HIDE DEF nice, bonus
<1> DEFINE count == 4 * Cardinality(nice) + IF bom THEN bonus ELSE 0
<1>4. count \in Nat
  BY <1>2, <1>3
<1>5. WhatIfItWasUcs4(q, min_chars).count = count
  BY DEF WhatIfItWasUcs4, nice, bonus
<1>6. ~(count \div 4 < min_chars) => WhatIfItWasUcs4(q, min_chars).eol # "unset"
  BY DEF WhatIfItWasUcs4, EolOf, nice, bonus
<1> QED BY <1>4, <1>5, <1>6

(***************************************************************************)
(* What eol[] holds before the tries never gets into the result: the order *)
(* that is reported has enough good characters for its end of line type to *)
(* have been looked for (lib/multibyte.c:526, 584-591).                    *)
(***************************************************************************)
THEOREM EolIsSet ==
  ASSUME NEW s \in Seq(Byte), NEW options \in OptionSets,
         LooksLikeUcs4(s, options).accepted
  PROVE  "unset" \notin LooksLikeUcs4(s, options).surface
<1> DEFINE q == Quads(s)
           n == options.min_chars
           try == Tries(q, n)
           b == Best(try)
<1>1. n \in Nat
  BY DEF OptionSets
<1>2. Len(s) % 4 = 0 /\ ~(Ucs4Count(try) \div 4 < n)
  BY DEF LooksLikeUcs4, Refused, Accepted
<1>3. q \in Seq(Quadruple)
  <2>1. Len(s) \in Nat /\ Len(s) \div 4 \in Nat
    OBVIOUS
  <2>2. \A k \in 1 .. Len(s) \div 4 :
          <<s[4 * k - 3], s[4 * k - 2], s[4 * k - 1], s[4 * k]>> \in Quadruple
    <3> TAKE k \in 1 .. Len(s) \div 4
    <3>1. {4 * k - 3, 4 * k - 2, 4 * k - 1, 4 * k} \subseteq 1 .. Len(s)
      BY <2>1
    <3>2. \A i \in 1 .. Len(s) : s[i] \in Byte
      OBVIOUS
    <3> QED BY <3>1, <3>2 DEF Quadruple
  <2> QED BY <2>1, <2>2 DEF Quads
<1>4. \A m \in 1 .. 4 : /\ try[m].count \in Nat
                        /\ try[m].eol = "unset" => try[m].count \div 4 < n
  <2> HIDE DEF q, n
  <2> DEFINE first == ShuffleByteOrder(q, "4321")
             second == ShuffleByteOrder(first, "21")
             third == ShuffleByteOrder(second, "4321")
  <2>1. first \in Seq(Quadruple)
    BY <1>3, Shuffled
  <2> HIDE DEF first
  <2>2. second \in Seq(Quadruple)
    BY <2>1, Shuffled
  <2> HIDE DEF second
  <2>3. third \in Seq(Quadruple)
    BY <2>2, Shuffled
  <2> HIDE DEF third
  <2>4. try = <<WhatIfItWasUcs4(q, n), WhatIfItWasUcs4(first, n),
                WhatIfItWasUcs4(second, n), WhatIfItWasUcs4(third, n)>>
    BY DEF Tries, Orders, first, second, third
  <2> HIDE DEF try
  <2> DEFINE Typed(t) == /\ t.count \in Nat
                         /\ t.eol = "unset" => t.count \div 4 < n
  <2>5. /\ Typed(WhatIfItWasUcs4(q, n)) /\ Typed(WhatIfItWasUcs4(first, n))
        /\ Typed(WhatIfItWasUcs4(second, n))
        /\ Typed(WhatIfItWasUcs4(third, n))
    BY <1>1, <1>3, <2>1, <2>2, <2>3, CountType
  <2> HIDE DEF Typed
  <2>6. \A m \in 1 .. 4 : Typed(try[m])
    BY <2>4, <2>5
  <2> QED BY <2>6 DEF Typed
<1> HIDE DEF try
<1>5. b \in 1 .. 4
  <2>1. /\ try[1].count \in Nat /\ try[2].count \in Nat
        /\ try[3].count \in Nat /\ try[4].count \in Nat
    BY <1>4
  <2>2. \E k \in 1 .. 4 : \A m \in 1 .. 4 :
          /\ try[m].count <= try[k].count
          /\ m < k => try[m].count < try[k].count
    <3> DEFINE First(k) == \A m \in 1 .. 4 :
                 /\ try[m].count <= try[k].count
                 /\ m < k => try[m].count < try[k].count
    <3>1. First(1) \/ First(2) \/ First(3) \/ First(4)
      BY <2>1, SMTT(30)
    <3> QED BY <3>1
  <2> QED BY <2>2 DEF Best
<1>6. Ucs4Count(try) \in Int /\ Ucs4Count(try) <= try[b].count
  <2> DEFINE w == try[1].count
             x == try[2].count
             y == try[3].count
             z == try[4].count
             c == try[b].count
  <2>1. Ucs4Count(try) = 2 * c - (w + x + y + z)
    BY DEF Ucs4Count
  <2>2. w \in Nat /\ x \in Nat /\ y \in Nat /\ z \in Nat
    BY <1>4
  <2>3. c = w \/ c = x \/ c = y \/ c = z
    <3> HIDE DEF b
    <3> QED BY <1>5
  <2> HIDE DEF w, x, y, z, c
  <2>4. 2 * c - (w + x + y + z) \in Int /\ 2 * c - (w + x + y + z) <= c
    BY <2>2, <2>3
  <2> QED BY <2>1, <2>4 DEF c
<1>7. try[b].eol # "unset"
  <2> HIDE DEF b, n
  <2> DEFINE u == Ucs4Count(try)
             c == try[b].count
  <2>1. u \in Int /\ c \in Nat /\ u <= c /\ ~(u \div 4 < n)
    BY <1>2, <1>4, <1>5, <1>6
  <2> HIDE DEF u, c
  <2>2. ~(c \div 4 < n)
    BY <1>1, <2>1
  <2> QED BY <1>4, <1>5, <2>2 DEF c
<1>8. LooksLikeUcs4(s, options) = Accepted(OrderSurface(b) \cup {try[b].eol})
  BY DEF LooksLikeUcs4, Refused, Accepted, try
<1>9. "unset" \notin OrderSurface(b)
  BY <1>5 DEF OrderSurface
<1> QED BY <1>7, <1>8, <1>9 DEF Accepted

-----------------------------------------------------------------------------
(* The cache of requests. *)
Entries(A) == [string : A, request : A, count : Nat]

\* One round of the search, and its state in a cache of n entries.
SearchStep(n, e, i, x) ==
  IF x.found > 0 THEN x
  ELSE IF x.cache[i].string = e THEN [x EXCEPT !.found = i]
  ELSE IF i < n /\ x.cache[i].count < x.cache[i + 1].count
  THEN [x EXCEPT !.cache[i] = x.cache[i + 1], !.cache[i + 1] = x.cache[i]]
  ELSE x
SearchStates(A, n) == [cache : [1 .. n -> Entries(A)], found : 0 .. n]

\* How often e was asked for, by what the cache says.
UsesAt(cache, e) ==
  [i \in DOMAIN cache |-> IF cache[i].string = e THEN cache[i].count ELSE 0]
Uses(cache, e) == Total(UsesAt(cache, e))

LEMMA SearchStepType ==
  ASSUME NEW A, NEW n \in Nat, NEW e, NEW i \in 1 .. n, NEW x \in SearchStates(A, n)
  PROVE  SearchStep(n, e, i, x) \in SearchStates(A, n)
<1>1. CASE x.found > 0 \/ x.cache[i].string = e
  BY <1>1 DEF SearchStep, SearchStates
<1>2. CASE i < n /\ ~(x.found > 0 \/ x.cache[i].string = e)
  <2>1. i + 1 \in 1 .. n
    BY <1>2
  <2>2. x.cache[i] \in Entries(A) /\ x.cache[i + 1] \in Entries(A)
    BY <2>1 DEF SearchStates
  <2>3. [x.cache EXCEPT ![i] = x.cache[i + 1], ![i + 1] = x.cache[i]] \in [1 .. n -> Entries(A)]
    BY <2>1, <2>2 DEF SearchStates
  <2> QED BY <1>2, <2>3 DEF SearchStep, SearchStates
<1>3. CASE ~(i < n) /\ ~(x.found > 0 \/ x.cache[i].string = e)
  BY <1>3 DEF SearchStep
<1> QED BY <1>1, <1>2, <1>3

\* The search is its rounds, one after the other.
SearchRun(n, cache, e, x) ==
  /\ x[0] = [cache |-> cache, found |-> 0] /\ Search(cache, e) = x[n]
  /\ \A k \in 1 .. n : x[k] = SearchStep(n, e, k, x[k - 1])

LEMMA SearchSteps ==
  ASSUME NEW A, NEW n \in Nat, NEW cache \in [1 .. n -> Entries(A)], NEW e
  PROVE  \E x \in [0 .. n -> SearchStates(A, n)] : SearchRun(n, cache, e, x)
<1> DEFINE X == SearchStates(A, n)
           base == [cache |-> cache, found |-> 0]
           q == [i \in DOMAIN cache |-> i]
           Is(iter) ==
             iter = [s \in SUBSET DOMAIN q |->
                       IF s = {} THEN base
                       ELSE SearchStep(Len(cache), e, q[Max(s)], iter[s \ {Max(s)}])]
           It == CHOOSE iter : Is(iter)
           H == [p \in (1 .. n) \X X |-> SearchStep(n, e, p[1], p[2])]
<1>1. Search(cache, e) = It[DOMAIN q]
  BY DEF Search, FoldLeft, MapThenFoldSet, SearchStep, Exchanged
<1>2. /\ cache \in Seq(Entries(A)) /\ Len(cache) = n
      /\ DOMAIN q = 1 .. n /\ \A i \in 1 .. n : q[i] \in 1 .. n
  OBVIOUS
<1>3. base \in X
  BY DEF SearchStates
<1>4. H \in [(1 .. n) \X X -> X]
  BY SearchStepType
<1>5. \A i \in 1 .. n, x \in X : H[<<i, x>>] = SearchStep(Len(cache), e, i, x)
  BY <1>2
<1> HIDE DEF H, X, base, q
<1>6. PICK g \in [SUBSET DOMAIN q -> X] : FoldingOver(q, base, H, g)
  BY <1>2, <1>3, <1>4, FoldOverExists
<1>7. Is(g)
  <2>1. ASSUME NEW s \in SUBSET DOMAIN q
        PROVE  g[s] = IF s = {} THEN base
                      ELSE SearchStep(Len(cache), e, q[Max(s)], g[s \ {Max(s)}])
    <3>1. g[s] = IF s = {} THEN base ELSE H[<<q[Max(s)], g[s \ {Max(s)}]>>]
      BY <1>6 DEF FoldingOver
    <3>2. s # {} => Max(s) \in DOMAIN q /\ s \ {Max(s)} \in SUBSET DOMAIN q
      BY <1>2, PlacesOf
    <3> QED BY <1>2, <1>5, <3>1, <3>2
  <2> QED BY <2>1
<1>8. Is(It)
  BY <1>7
<1> DEFINE x == [k \in 0 .. n |-> It[1 .. k]]
<1>9. x[0] = base /\ \A k \in 1 .. n : x[k] = SearchStep(n, e, k, x[k - 1])
  <2> HIDE DEF It
  <2>1. It[{}] = base /\ 1 .. 0 = {}
    BY <1>2, <1>8, PlacesOf
  <2>2. ASSUME NEW k \in 1 .. n PROVE It[1 .. k] = SearchStep(n, e, k, It[1 .. k - 1])
    <3>1. /\ 1 .. k \in SUBSET DOMAIN q /\ 1 .. k # {}
          /\ Max(1 .. k) = k /\ (1 .. k) \ {k} = 1 .. k - 1
      BY <1>2, PlacesOf
    <3>2. q[k] = k
      BY <1>2 DEF q
    <3> QED BY <1>2, <1>8, <3>1, <3>2
  <2> QED BY <2>1, <2>2
<1>10. x[n] = It[DOMAIN q]
  BY <1>2
<1> HIDE DEF x, Is, It
<1>11. \A k \in 0 .. n : x[k] \in X
  <2> DEFINE T == {k \in Nat : x[k] \in X}
  <2>1. 0 \in T /\ \A k \in 0 .. n - 1 : k \in T => k + 1 \in T
    <3> SUFFICES ASSUME NEW k \in 0 .. n - 1, x[k] \in X PROVE x[k + 1] \in X
      BY <1>3, <1>9
    <3>1. k + 1 \in 1 .. n /\ (k + 1) - 1 = k
      OBVIOUS
    <3> QED BY <1>9, <3>1, SearchStepType DEF X
  <2> HIDE DEF T
  <2>2. \A k \in 0 .. n : k \in T
    BY <2>1, UpTo
  <2> QED BY <2>2 DEF T
<1>12. x \in [0 .. n -> X]
  BY <1>11 DEF x
<1> QED BY <1>1, <1>9, <1>10, <1>12 DEF X, base, SearchRun

Truthful(cache) == \A i \in DOMAIN cache : cache[i].request = cache[i].string

\* What holds of a state of the search that began with the cache.
Kept(cache, e, y) ==
  /\ Truthful(y.cache)
  /\ y.found > 0 => y.cache[y.found].string = e
  /\ \A t : Uses(y.cache, t) = Uses(cache, t)

LEMMA UsesType ==
  ASSUME NEW A, NEW n \in Nat, NEW cache \in [1 .. n -> Entries(A)], NEW t
  PROVE  /\ UsesAt(cache, t) \in [1 .. n -> Int]
         /\ IsFiniteSet(1 .. n) /\ DOMAIN cache = 1 .. n
BY FS_Interval DEF Entries, UsesAt

\* What a round of the search never does.
LEMMA SearchStepKeeps ==
  ASSUME NEW A, NEW n \in Nat, NEW e, NEW k \in 1 .. n, NEW x \in SearchStates(A, n),
         NEW cache, Kept(cache, e, x)
  PROVE  Kept(cache, e, SearchStep(n, e, k, x))
<1> DEFINE y == SearchStep(n, e, k, x)
<1>1. CASE x.found > 0
  BY <1>1 DEF SearchStep
<1>2. CASE ~(x.found > 0) /\ x.cache[k].string = e
  BY <1>2 DEF SearchStep, SearchStates, Kept
<1>3. CASE ~(x.found > 0) /\ x.cache[k].string # e
           /\ ~(k < n /\ x.cache[k].count < x.cache[k + 1].count)
  BY <1>3 DEF SearchStep
<1>4. CASE ~(x.found > 0) /\ x.cache[k].string # e
           /\ k < n /\ x.cache[k].count < x.cache[k + 1].count
  <2>1. k + 1 \in 1 .. n /\ k # k + 1
    BY <1>4
  <2>2. y = [x EXCEPT !.cache[k] = x.cache[k + 1], !.cache[k + 1] = x.cache[k]]
    BY <1>4 DEF SearchStep
  <2> DEFINE c == [x.cache EXCEPT ![k] = x.cache[k + 1], ![k + 1] = x.cache[k]]
  <2>3. y.cache = c /\ y.found = x.found
    BY <2>2 DEF SearchStates
  <2>4. x.cache \in [1 .. n -> Entries(A)] /\ x.found \in 0 .. n
    BY DEF SearchStates
  <2>5. /\ c \in [1 .. n -> Entries(A)] /\ c[k] = x.cache[k + 1] /\ c[k + 1] = x.cache[k]
        /\ \A i \in (1 .. n) \ {k, k + 1} : c[i] = x.cache[i]
    <3>1. x.cache[k] \in Entries(A) /\ x.cache[k + 1] \in Entries(A)
      BY <2>1, <2>4
    <3> QED BY <2>1, <2>4, <3>1
  <2> HIDE DEF c
  <2>6. Truthful(c)
    BY <2>1, <2>4, <2>5 DEF Truthful, Kept
  <2>7. ASSUME NEW t PROVE Uses(c, t) = Uses(x.cache, t)
    <3>1. /\ UsesAt(c, t) \in [1 .. n -> Int] /\ UsesAt(x.cache, t) \in [1 .. n -> Int]
          /\ IsFiniteSet(1 .. n) /\ DOMAIN c = 1 .. n /\ DOMAIN x.cache = 1 .. n
      BY <2>4, <2>5, UsesType
    <3>2. /\ UsesAt(c, t)[k] = UsesAt(x.cache, t)[k + 1]
          /\ UsesAt(c, t)[k + 1] = UsesAt(x.cache, t)[k]
          /\ \A i \in (1 .. n) \ {k, k + 1} : UsesAt(c, t)[i] = UsesAt(x.cache, t)[i]
      BY <2>1, <2>5, <3>1 DEF UsesAt
    <3> DEFINE S == 1 .. n  F == UsesAt(x.cache, t)  G == UsesAt(c, t)
               i == k  j == k + 1
    <3>3. /\ IsFiniteSet(S) /\ F \in [S -> Int] /\ G \in [S -> Int]
          /\ i \in S /\ j \in S /\ G[i] = F[j] /\ G[j] = F[i]
          /\ \A z \in S \ {i, j} : G[z] = F[z]
      BY <2>1, <3>1, <3>2
    <3> HIDE DEF S, F, G, i, j
    <3>4. Total(G) = Total(F)
      BY <3>3, SumSwap
    <3> QED BY <3>4 DEF Uses, F, G
  <2> QED BY <1>4, <2>3, <2>4, <2>6, <2>7 DEF Kept
<1> QED BY <1>1, <1>2, <1>3, <1>4

LEMMA SearchKeeps ==
  ASSUME NEW A, NEW n \in Nat, NEW cache \in [1 .. n -> Entries(A)], NEW e, Truthful(cache)
  PROVE  Search(cache, e) \in SearchStates(A, n) /\ Kept(cache, e, Search(cache, e))
<1>1. PICK x \in [0 .. n -> SearchStates(A, n)] : SearchRun(n, cache, e, x)
  BY SearchSteps
<1> DEFINE T == {k \in 0 .. n : Kept(cache, e, x[k])}
<1>2. Kept(cache, e, x[0])
  BY <1>1 DEF SearchRun, Kept
<1>3. ASSUME NEW k \in 0 .. n - 1, Kept(cache, e, x[k]) PROVE Kept(cache, e, x[k + 1])
  <2>1. k + 1 \in 1 .. n /\ (k + 1) - 1 = k /\ k \in 0 .. n
    OBVIOUS
  <2>2. x[k] \in SearchStates(A, n) /\ x[k + 1] = SearchStep(n, e, k + 1, x[k])
    BY <1>1, <2>1 DEF SearchRun
  <2> QED BY <1>3, <2>1, <2>2, SearchStepKeeps
<1>4. 0 \in T /\ \A k \in 0 .. n - 1 : k \in T => k + 1 \in T
  BY <1>2, <1>3
<1>5. \A k \in 0 .. n : k \in T
  <2> HIDE DEF T
  <2> QED BY <1>4, UpTo
<1>6. Kept(cache, e, x[n]) /\ x[n] \in SearchStates(A, n)
  BY <1>1, <1>5
<1> QED BY <1>1, <1>6 DEF SearchRun

LEMMA SearchType ==
  ASSUME NEW A, NEW n \in Nat, NEW cache \in [1 .. n -> Entries(A)], NEW e
  PROVE  Search(cache, e) \in SearchStates(A, n)
<1>1. PICK x \in [0 .. n -> SearchStates(A, n)] : SearchRun(n, cache, e, x)
  BY SearchSteps
<1>2. n \in 0 .. n
  OBVIOUS
<1> QED BY <1>1, <1>2 DEF SearchRun

\* A request is answered with what was asked for, and counted.
LEMMA RequestType ==
  ASSUME NEW A, NEW cache \in Seq(Entries(A)), NEW e \in A
  PROVE  /\ GetRecodeRequest(cache, e).request \in A
         /\ GetRecodeRequest(cache, e).cache \in Seq(Entries(A))
<1> DEFINE n == Len(cache)  y == Search(cache, e)
<1>1. n \in Nat /\ cache \in [1 .. n -> Entries(A)]
  OBVIOUS
<1>2. y \in SearchStates(A, n)
  BY <1>1, SearchType
<1>3. y.cache \in Seq(Entries(A)) /\ y.found \in 0 .. n /\ DOMAIN y.cache = 1 .. n
  BY <1>1, <1>2 DEF SearchStates
<1> HIDE DEF n, y
<1>4. CASE y.found > 0
  <2>1. y.found \in 1 .. n /\ y.cache[y.found] \in Entries(A)
    BY <1>3, <1>1, <1>4
  <2>2. [y.cache EXCEPT ![y.found].count = @ + 1] \in Seq(Entries(A))
    <3> DEFINE E == Entries(A)  c == y.cache  f == y.found
               z == [c[f] EXCEPT !.count = @ + 1]
    <3>1. z \in E
      <4>1. PICK w \in E : w = c[f]
        BY <2>1
      <4>2. [w EXCEPT !.count = @ + 1] \in E
        BY DEF Entries
      <4> QED BY <4>1, <4>2
    <3>2. c \in Seq(E) /\ f \in DOMAIN c
      BY <1>3, <2>1
    <3> HIDE DEF E, c, f, z
    <3>3. [c EXCEPT ![f] = z] \in Seq(E)
      BY <3>1, <3>2, ExceptSeq
    <3>4. [c EXCEPT ![f].count = @ + 1] = [c EXCEPT ![f] = z]
      BY DEF z
    <3> QED BY <3>3, <3>4 DEF E, c, f
  <2>3. GetRecodeRequest(cache, e) =
          [request |-> y.cache[y.found].request,
           cache |-> [y.cache EXCEPT ![y.found].count = @ + 1]]
    BY <1>4 DEF GetRecodeRequest, y
  <2>4. y.cache[y.found].request \in A
    BY <2>1 DEF Entries
  <2> QED BY <2>2, <2>3, <2>4
<1>5. CASE ~(y.found > 0)
  <2> DEFINE entry == [string |-> e, request |-> e, count |-> 1]
  <2>1. entry \in Entries(A)
    BY DEF Entries
  <2>2. GetRecodeRequest(cache, e) = [request |-> e, cache |-> Append(y.cache, entry)]
    BY <1>5 DEF GetRecodeRequest, y
  <2> HIDE DEF entry
  <2>3. Append(y.cache, entry) \in Seq(Entries(A))
    BY <1>3, <2>1
  <2> QED BY <2>2, <2>3
<1> QED BY <1>4, <1>5

LEMMA UsesAppended ==
  ASSUME NEW A, NEW n \in Nat, NEW c \in [1 .. n -> Entries(A)],
         NEW d \in [1 .. n + 1 -> Entries(A)], \A i \in 1 .. n : d[i] = c[i], NEW t
  PROVE  Uses(d, t) = Uses(c, t) + UsesAt(d, t)[n + 1]
<1> DEFINE S == 1 .. n  T == 1 .. n + 1  j == n + 1
           F == UsesAt(c, t)  G == UsesAt(d, t)
<1>1. /\ F \in [S -> Int] /\ IsFiniteSet(S)
      /\ DOMAIN c = S /\ DOMAIN d = T
  BY UsesType
<1>2. n + 1 \in Nat
  OBVIOUS
<1>3. G \in [T -> Int]
  BY <1>2, UsesType
<1>4. \A i \in S : G[i] = F[i]
  BY <1>1 DEF UsesAt
<1>5. j \notin S /\ T = S \cup {j}
  OBVIOUS
<1> HIDE DEF S, T, j, F, G
<1>6. Total(G) = Total(F) + G[j]
  BY <1>1, <1>3, <1>4, <1>5, SumMore
<1> QED BY <1>6 DEF Uses, F, G, j

LEMMA RequestCounted ==
  ASSUME NEW A, NEW cache \in Seq(Entries(A)), NEW e \in A, Truthful(cache)
  PROVE  /\ GetRecodeRequest(cache, e).request = e
         /\ Truthful(GetRecodeRequest(cache, e).cache)
         /\ \A t : Uses(GetRecodeRequest(cache, e).cache, t)
                     = Uses(cache, t) + IF t = e THEN 1 ELSE 0
<1> DEFINE n == Len(cache)  y == Search(cache, e)
<1>1. n \in Nat /\ cache \in [1 .. n -> Entries(A)]
  OBVIOUS
<1>2. y \in SearchStates(A, n) /\ Kept(cache, e, y)
  BY <1>1, SearchKeeps
<1>3. y.cache \in [1 .. n -> Entries(A)] /\ y.found \in 0 .. n /\ IsFiniteSet(1 .. n)
  BY <1>1, <1>2, FS_Interval DEF SearchStates
<1>4. \A t : UsesAt(y.cache, t) \in [1 .. n -> Int]
  BY <1>1, <1>3, UsesType
<1> HIDE DEF n, y
<1>5. CASE y.found > 0
  <2> DEFINE c == [y.cache EXCEPT ![y.found].count = @ + 1]
  <2>1. y.found \in 1 .. n /\ y.cache[y.found] \in Entries(A) /\ y.cache[y.found].string = e
    BY <1>2, <1>3, <1>1, <1>5 DEF Kept
  <2>2. GetRecodeRequest(cache, e) = [request |-> y.cache[y.found].request, cache |-> c]
    BY <1>5 DEF GetRecodeRequest, y
  <2>3. y.cache[y.found].request = e
    BY <1>2, <1>3, <2>1 DEF Kept, Truthful
  <2>4. /\ DOMAIN c = 1 .. n /\ c[y.found].string = e /\ c[y.found].request = e
        /\ c[y.found].count = y.cache[y.found].count + 1
        /\ \A i \in (1 .. n) \ {y.found} : c[i] = y.cache[i]
    BY <1>3, <2>1, <2>3 DEF Entries
  <2> HIDE DEF c
  <2>5. Truthful(c)
    BY <1>2, <1>3, <2>4 DEF Truthful, Kept
  <2>6. ASSUME NEW t PROVE Uses(c, t) = Uses(cache, t) + IF t = e THEN 1 ELSE 0
    <3> DEFINE S == 1 .. n  F == UsesAt(y.cache, t)  G == UsesAt(c, t)  j == y.found
    <3>1. IsFiniteSet(S) /\ j \in S /\ F \in [S -> Int]
      BY <1>3, <1>4, <2>1
    <3>2. G[j] = F[j] + IF t = e THEN 1 ELSE 0
      <4>1. /\ G[j] = IF e = t THEN y.cache[j].count + 1 ELSE 0
            /\ F[j] = IF e = t THEN y.cache[j].count ELSE 0
        BY <1>3, <2>1, <2>4 DEF UsesAt
      <4>2. y.cache[j].count \in Nat
        BY <2>1 DEF Entries
      <4> HIDE DEF F, G, j
      <4> QED BY <4>1, <4>2
    <3>3. \A i \in S : i # j => G[i] = F[i]
      BY <1>3, <2>4 DEF UsesAt
    <3>4. G \in [S -> Int]
      <4>1. G = [i \in S |-> G[i]]
        BY <2>4 DEF UsesAt
      <4> HIDE DEF S, F, G, j
      <4>2. ASSUME NEW i \in S PROVE G[i] \in Int
        BY <3>1, <3>2, <3>3
      <4> QED BY <4>1, <4>2
    <3> HIDE DEF S, F, G, j
    <3>5. Total(G) = Total(F) - F[j] + G[j]
      BY <3>1, <3>3, <3>4, SumChange
    <3>6. Total(F) \in Int /\ F[j] \in Int
      BY <3>1, SumLaws
    <3>7. Total(F) = Uses(cache, t)
      BY <1>2 DEF Kept, Uses, F
    <3> QED BY <3>2, <3>5, <3>6, <3>7 DEF Uses, G
  <2> QED BY <2>2, <2>3, <2>5, <2>6
<1>6. CASE ~(y.found > 0)
  <2> DEFINE entry == [string |-> e, request |-> e, count |-> 1]
             c == Append(y.cache, entry)
  <2>1. entry \in Entries(A)
    BY DEF Entries
  <2>2. GetRecodeRequest(cache, e) = [request |-> e, cache |-> c]
    BY <1>6 DEF GetRecodeRequest, y
  <2>3. Len(y.cache) = n /\ y.cache \in Seq(Entries(A))
    BY <1>1, <1>3
  <2>4. DOMAIN c = 1 .. n + 1 /\ c[n + 1] = entry /\ \A i \in 1 .. n : c[i] = y.cache[i]
    BY <2>1, <2>3
  <2>7. c = [i \in 1 .. n + 1 |-> c[i]]
    BY <2>3, <2>4
  <2> HIDE DEF c
  <2>5. Truthful(c)
    BY <1>1, <1>2, <1>3, <2>4 DEF Truthful, Kept
  <2>6. ASSUME NEW t PROVE Uses(c, t) = Uses(cache, t) + IF t = e THEN 1 ELSE 0
    <3>1. c \in [1 .. n + 1 -> Entries(A)]
      <4> HIDE DEF entry
      <4> QED BY <1>1, <1>3, <2>1, <2>4, <2>7
    <3>2. Uses(c, t) = Uses(y.cache, t) + UsesAt(c, t)[n + 1]
      BY <1>1, <1>3, <2>4, <3>1, UsesAppended
    <3>3. n + 1 \in DOMAIN c
      BY <1>1, <2>4
    <3>4. UsesAt(c, t)[n + 1] = IF t = e THEN 1 ELSE 0
      BY <2>4, <3>3 DEF UsesAt
    <3>5. Uses(y.cache, t) = Uses(cache, t)
      BY <1>2 DEF Kept
    <3> QED BY <3>2, <3>4, <3>5
  <2> QED BY <2>2, <2>5, <2>6
<1> QED BY <1>5, <1>6

\* The answers to a text are those to its requests, one after the other.
AnswerStep(e, x) ==
  [cache |-> GetRecodeRequest(x.cache, e).cache,
   answers |-> Append(x.answers, GetRecodeRequest(x.cache, e).request)]
AnswerStates(A) == [cache : Seq(Entries(A)), answers : Seq(A)]
AnswerRun(x) ==
  /\ x[0] = [cache |-> <<>>, answers |-> <<>>] /\ Answered = x[Len(text)]
  /\ \A k \in 1 .. Len(text) : x[k] = AnswerStep(text[k], x[k - 1])

LEMMA AnswerStepType ==
  ASSUME NEW A, NEW e \in A, NEW x \in AnswerStates(A)
  PROVE  AnswerStep(e, x) \in AnswerStates(A)
<1> DEFINE r == GetRecodeRequest(x.cache, e)
<1>1. x.cache \in Seq(Entries(A)) /\ x.answers \in Seq(A)
  BY DEF AnswerStates
<1>2. r.request \in A /\ r.cache \in Seq(Entries(A))
  BY <1>1, RequestType
<1> HIDE DEF r
<1>3. Append(x.answers, r.request) \in Seq(A)
  BY <1>1, <1>2
<1> QED BY <1>2, <1>3 DEF AnswerStep, AnswerStates, r

LEMMA AnswerSteps ==
  ASSUME NEW A, text \in Seq(A)
  PROVE  \E x \in [0 .. Len(text) -> AnswerStates(A)] : AnswerRun(x)
<1> DEFINE n == Len(text)
           X == AnswerStates(A)
           base == [cache |-> <<>>, answers |-> <<>>]
           q == text
           Is(iter) ==
             iter = [s \in SUBSET DOMAIN q |->
                       IF s = {} THEN base
                       ELSE AnswerStep(q[Max(s)], iter[s \ {Max(s)}])]
           It == CHOOSE iter : Is(iter)
           H == [p \in A \X X |-> AnswerStep(p[1], p[2])]
<1>1. Answered = It[DOMAIN q]
  BY DEF Answered, FoldLeft, MapThenFoldSet, AnswerStep
<1>2. n \in Nat /\ DOMAIN q = 1 .. n /\ \A i \in 1 .. n : q[i] \in A
  OBVIOUS
<1>3. base \in X
  BY DEF AnswerStates
<1>4. H \in [A \X X -> X]
  BY AnswerStepType
<1>5. \A e \in A, x \in X : H[<<e, x>>] = AnswerStep(e, x)
  OBVIOUS
<1> HIDE DEF H, X, base, q, n
<1>6. PICK g \in [SUBSET DOMAIN q -> X] : FoldingOver(q, base, H, g)
  BY <1>2, <1>3, <1>4, FoldOverExists
<1>7. Is(g)
  <2>1. ASSUME NEW s \in SUBSET DOMAIN q
        PROVE  g[s] = IF s = {} THEN base
                      ELSE AnswerStep(q[Max(s)], g[s \ {Max(s)}])
    <3>1. g[s] = IF s = {} THEN base ELSE H[<<q[Max(s)], g[s \ {Max(s)}]>>]
      BY <1>6 DEF FoldingOver
    <3>2. s # {} => Max(s) \in DOMAIN q /\ s \ {Max(s)} \in SUBSET DOMAIN q
      BY <1>2, PlacesOf
    <3> QED BY <1>2, <1>5, <3>1, <3>2
  <2> QED BY <2>1
<1>8. Is(It)
  BY <1>7
<1> DEFINE x == [k \in 0 .. n |-> It[1 .. k]]
<1>9. x[0] = base /\ \A k \in 1 .. n : x[k] = AnswerStep(q[k], x[k - 1])
  <2> HIDE DEF It
  <2>1. It[{}] = base /\ 1 .. 0 = {}
    BY <1>2, <1>8, PlacesOf
  <2>2. ASSUME NEW k \in 1 .. n PROVE It[1 .. k] = AnswerStep(q[k], It[1 .. k - 1])
    <3>1. /\ 1 .. k \in SUBSET DOMAIN q /\ 1 .. k # {}
          /\ Max(1 .. k) = k /\ (1 .. k) \ {k} = 1 .. k - 1
      BY <1>2, PlacesOf
    <3> QED BY <1>2, <1>8, <3>1
  <2> QED BY <1>2, <2>1, <2>2
<1>10. x[n] = It[DOMAIN q]
  BY <1>2
<1> HIDE DEF x, Is, It
<1>11. \A k \in 0 .. n : x[k] \in X
  <2> DEFINE T == {k \in Nat : x[k] \in X}
  <2>1. 0 \in T /\ \A k \in 0 .. n - 1 : k \in T => k + 1 \in T
    <3> SUFFICES ASSUME NEW k \in 0 .. n - 1, x[k] \in X PROVE x[k + 1] \in X
      BY <1>3, <1>9
    <3>1. k + 1 \in 1 .. n /\ (k + 1) - 1 = k
      BY <1>2
    <3> QED BY <1>2, <1>9, <3>1, AnswerStepType DEF X
  <2> HIDE DEF T
  <2>2. \A k \in 0 .. n : k \in T
    BY <1>2, <2>1, UpTo
  <2> QED BY <2>2 DEF T
<1>12. x \in [0 .. n -> X]
  BY <1>11 DEF x
<1> QED BY <1>1, <1>9, <1>10, <1>12 DEF X, base, q, n, AnswerRun

\* What holds after the first k requests.
Asked(t, k) == {i \in 1 .. k : text[i] = t}
AnsweredSoFar(x, k) ==
  /\ Truthful(x.cache)
  /\ Len(x.answers) = k /\ \A i \in 1 .. k : x.answers[i] = text[i]
  /\ \A t : Uses(x.cache, t) = Cardinality(Asked(t, k))

LEMMA AskedOnce ==
  ASSUME NEW k \in Nat, NEW t
  PROVE  /\ Cardinality(Asked(t, 0)) = 0
         /\ Cardinality(Asked(t, k + 1))
              = Cardinality(Asked(t, k)) + IF t = text[k + 1] THEN 1 ELSE 0
         /\ Cardinality(Asked(t, k)) \in Nat
<1>1. Asked(t, 0) = {}
  BY DEF Asked
<1>2. IsFiniteSet(Asked(t, k))
  <2>1. IsFiniteSet(1 .. k) /\ Asked(t, k) \in SUBSET (1 .. k)
    BY FS_Interval DEF Asked
  <2> QED BY <2>1, FS_Subset
<1>3. CASE t = text[k + 1]
  <2>1. Asked(t, k + 1) = Asked(t, k) \cup {k + 1} /\ k + 1 \notin Asked(t, k)
    BY <1>3 DEF Asked
  <2> QED BY <1>1, <1>2, <1>3, <2>1, FS_AddElement, FS_EmptySet, FS_CardinalityType, ZenonT(60)
<1>4. CASE t # text[k + 1]
  <2>1. Asked(t, k + 1) = Asked(t, k)
    BY <1>4 DEF Asked
  <2> QED BY <1>1, <1>2, <1>4, <2>1, FS_EmptySet, FS_CardinalityType
<1> QED BY <1>3, <1>4

LEMMA AnswerStepKeeps ==
  ASSUME NEW A, text \in Seq(A), NEW k \in 0 .. Len(text) - 1,
         NEW x \in AnswerStates(A), AnsweredSoFar(x, k)
  PROVE  AnsweredSoFar(AnswerStep(text[k + 1], x), k + 1)
<1> DEFINE e == text[k + 1]  r == GetRecodeRequest(x.cache, e)
           y == AnswerStep(e, x)
<1>1. e \in A /\ x.cache \in Seq(Entries(A)) /\ x.answers \in Seq(A) /\ Truthful(x.cache)
  BY DEF AnswerStates, AnsweredSoFar
<1>2. /\ r.request = e /\ Truthful(r.cache)
      /\ \A t : Uses(r.cache, t) = Uses(x.cache, t) + IF t = e THEN 1 ELSE 0
  BY <1>1, RequestCounted
<1>3. y.cache = r.cache /\ y.answers = Append(x.answers, r.request)
  BY DEF AnswerStep
<1> HIDE DEF r, y
<1>4. Len(y.answers) = k + 1 /\ \A i \in 1 .. k + 1 : y.answers[i] = text[i]
  <2>1. Len(x.answers) = k /\ \A i \in 1 .. k : x.answers[i] = text[i]
    BY DEF AnsweredSoFar
  <2> QED BY <1>1, <1>2, <1>3, <2>1
<1>5. ASSUME NEW t PROVE Uses(y.cache, t) = Cardinality(Asked(t, k + 1))
  <2>1. Uses(x.cache, t) = Cardinality(Asked(t, k))
    BY DEF AnsweredSoFar
  <2>2. k \in Nat /\ Uses(y.cache, t) = Uses(x.cache, t) + IF t = e THEN 1 ELSE 0
    BY <1>2, <1>3
  <2>3. Cardinality(Asked(t, k + 1)) = Cardinality(Asked(t, k)) + IF t = e THEN 1 ELSE 0
    BY <2>2, AskedOnce
  <2> HIDE DEF e
  <2> QED BY <2>1, <2>2, <2>3
<1> QED BY <1>2, <1>3, <1>4, <1>5 DEF AnsweredSoFar, y

LEMMA AllAnswered ==
  ASSUME NEW A, text \in Seq(A)
  PROVE  Answered \in AnswerStates(A) /\ AnsweredSoFar(Answered, Len(text))
<1> DEFINE n == Len(text)
<1>1. PICK x \in [0 .. Len(text) -> AnswerStates(A)] : AnswerRun(x)
  BY AnswerSteps
<1>2. n \in Nat
  OBVIOUS
<1> DEFINE T == {k \in 0 .. n : AnsweredSoFar(x[k], k)}
<1>3. AnsweredSoFar(x[0], 0)
  <2>1. x[0].cache = <<>> /\ x[0].answers = <<>>
    BY <1>1 DEF AnswerRun
  <2>2. ASSUME NEW t PROVE Uses(<<>>, t) = 0
    <3>1. UsesAt(<<>>, t) \in [{} -> Int] /\ IsFiniteSet({})
      BY FS_EmptySet DEF UsesAt
    <3> QED BY <3>1, SumLaws DEF Uses
  <2> QED BY <2>1, <2>2, AskedOnce DEF AnsweredSoFar, Truthful
<1>4. ASSUME NEW k \in 0 .. n - 1, AnsweredSoFar(x[k], k)
      PROVE  AnsweredSoFar(x[k + 1], k + 1)
  <2>1. k + 1 \in 1 .. n /\ (k + 1) - 1 = k /\ k \in 0 .. n
    BY <1>2
  <2>2. x[k] \in AnswerStates(A) /\ x[k + 1] = AnswerStep(text[k + 1], x[k])
    BY <1>1, <2>1 DEF AnswerRun
  <2> QED BY <1>4, <2>2, AnswerStepKeeps
<1>5. 0 \in T /\ \A k \in 0 .. n - 1 : k \in T => k + 1 \in T
  BY <1>2, <1>3, <1>4
<1>6. \A k \in 0 .. n : k \in T
  <2> HIDE DEF T, n
  <2> QED BY <1>2, <1>5, UpTo
<1> QED BY <1>1, <1>2, <1>6 DEF AnswerRun

\* The text is one of the alphabet of its kind.
TextOK == kind \in DOMAIN Alphabet /\ text \in Seq(Alphabet[kind])

LEMMA TextIsTyped == Spec => []TextOK
<1>1. Init => TextOK
  BY DEF Init, TextOK
<1>2. TextOK /\ [Append1]_<<kind, text>> => TextOK'
  BY DEF TextOK, Append1
<1> QED BY <1>1, <1>2, PTL DEF Spec

LEMMA CacheTold == TextOK => CacheIsTruthful
<1> SUFFICES ASSUME TextOK PROVE CacheIsTruthful
  OBVIOUS
<1> DEFINE A == Alphabet[kind]  cache == Answered.cache
<1>1. text \in Seq(A)
  BY DEF TextOK
<1>2. Answered \in AnswerStates(A) /\ AnsweredSoFar(Answered, Len(text))
  BY <1>1, AllAnswered
<1>3. Answered.answers = text
  BY <1>1, <1>2 DEF AnsweredSoFar, AnswerStates
<1>4. \A i \in DOMAIN cache : cache[i].request = cache[i].string
  BY <1>2 DEF AnsweredSoFar, Truthful
<1>5. ASSUME NEW t
      PROVE  MapThenSumSet(LAMBDA i : IF cache[i].string = t
                                      THEN cache[i].count ELSE 0, DOMAIN cache)
               = Count(text, t)
  <2> DEFINE S == DOMAIN cache  f == UsesAt(cache, t)
             val(i) == IF cache[i].string = t THEN cache[i].count ELSE 0
             Is(iter) == iter = [s \in SUBSET S |->
                           IF s = {} THEN 0
                           ELSE val(CHOOSE x \in s : TRUE)
                                + iter[s \ {CHOOSE x \in s : TRUE}]]
             It == CHOOSE iter : Is(iter)
  <2>1. MapThenSumSet(LAMBDA i : IF cache[i].string = t
                                 THEN cache[i].count ELSE 0, DOMAIN cache) = It[S]
    BY DEF MapThenSumSet, MapThenFoldSet
  <2>2. Uses(cache, t) = Cardinality(Asked(t, Len(text)))
    BY <1>2 DEF AnsweredSoFar
  <2>3. Asked(t, Len(text)) = {i \in DOMAIN text : text[i] = t}
    BY <1>1 DEF Asked
  <2>4. f \in [S -> Int] /\ IsFiniteSet(S) /\ DOMAIN f = S /\ \A i \in S : f[i] = val(i)
    <3>1. cache \in Seq(Entries(A))
      BY <1>2 DEF AnswerStates
    <3>2. Len(cache) \in Nat /\ cache \in [1 .. Len(cache) -> Entries(A)] /\ S = 1 .. Len(cache)
      BY <3>1
    <3>3. \A i \in S : f[i] = val(i)
      BY DEF UsesAt
    <3>4. UsesAt(cache, t) \in [1 .. Len(cache) -> Int] /\ IsFiniteSet(1 .. Len(cache))
      <4> HIDE DEF cache
      <4> QED BY <3>2, UsesType
    <3> QED BY <3>2, <3>3, <3>4
  <2> HIDE DEF S, f, val
  <2>5. PICK g : Summing(S, f, g)
    BY <2>4, SumExists
  <2>6. Is(g)
    <3>1. ASSUME NEW s \in SUBSET S
          PROVE  g[s] = IF s = {} THEN 0
                        ELSE val(CHOOSE x \in s : TRUE)
                             + g[s \ {CHOOSE x \in s : TRUE}]
      BY <2>4, <2>5 DEF Summing
    <3> QED BY <2>5, <3>1 DEF Summing
  <2>7. Is(It)
    BY <2>6
  <2> HIDE DEF It
  <2>8. Summing(S, f, It)
    BY <2>4, <2>7, ZenonT(60) DEF Summing
  <2>9. It[S] = Total(f)
    BY <2>4, <2>8, SumIs
  <2> QED BY <2>1, <2>2, <2>3, <2>9 DEF Uses, Count, Quantify, f
<1> QED BY <1>3, <1>4, <1>5 DEF CacheIsTruthful

(* Every request is answered with what it asked for, the cache keeps it, and *)
(* no use is forgotten: for every sequence of requests. *)
THEOREM CacheIsAlwaysTruthful == Spec => []CacheIsTruthful
<1>1. TextOK => CacheIsTruthful
  BY CacheTold
<1> QED BY <1>1, TextIsTyped, PTL

-----------------------------------------------------------------------------
(* Ratings: the order that the exchange sort of enca_find_max_sec() makes. *)

\* Orders of n charsets.
Orderings(n) == {o \in [1 .. n -> 1 .. n] : \A v \in 1 .. n : \E p \in 1 .. n : o[p] = v}

\* One comparison, one row of them, and the places compared with place i.
Compared(ratings, i, k, o) ==
  IF Beaten(ratings, o, i, i + k)
  THEN [o EXCEPT ![i] = o[i + k], ![i + k] = o[i]] ELSE o
ComparedAll(ratings, i, order) ==
  FoldLeft(LAMBDA o, k : IF Beaten(ratings, o, i, i + k)
                         THEN [o EXCEPT ![i] = o[i + k], ![i + k] = o[i]] ELSE o,
           order, [k \in 1 .. Len(ratings) - i |-> k])

LEMMA ComparedType ==
  ASSUME NEW n \in Nat, NEW ratings \in [1 .. n -> Int], NEW i \in 1 .. n,
         NEW k \in 1 .. n - i, NEW o \in Orderings(n)
  PROVE  /\ Compared(ratings, i, k, o) \in Orderings(n)
         /\ i + k \in 1 .. n /\ o[i] \in 1 .. n /\ o[i + k] \in 1 .. n
<1> DEFINE j == i + k  y == [o EXCEPT ![i] = o[j], ![j] = o[i]]
<1>1. j \in 1 .. n /\ j # i /\ o \in [1 .. n -> 1 .. n]
  BY DEF Orderings
<1>2. y \in [1 .. n -> 1 .. n] /\ y[i] = o[j] /\ y[j] = o[i]
      /\ \A p \in (1 .. n) \ {i, j} : y[p] = o[p]
  BY <1>1
<1>3. ASSUME NEW v \in 1 .. n PROVE \E p \in 1 .. n : y[p] = v
  <2>1. PICK p \in 1 .. n : o[p] = v
    BY DEF Orderings
  <2> HIDE DEF y, j
  <2> QED BY <1>1, <1>2, <2>1
<1>4. y \in Orderings(n)
  BY <1>2, <1>3 DEF Orderings
<1>5. Compared(ratings, i, k, o) = y \/ Compared(ratings, i, k, o) = o
  BY DEF Compared
<1> QED BY <1>1, <1>4, <1>5

RowIs(ratings, i, order, n, x) ==
  /\ x[0] = order /\ x[n - i] = ComparedAll(ratings, i, order)
  /\ \A k \in 1 .. n - i : x[k] = Compared(ratings, i, k, x[k - 1])
SortIs(ratings, n, m, x) ==
  /\ x[0] = [i \in 1 .. n |-> i] /\ x[m] = FindMaxSec(ratings)
  /\ \A i \in 1 .. m : x[i] = ComparedAll(ratings, i, x[i - 1])

LEMMA RowRun ==
  ASSUME NEW n \in Nat, NEW ratings \in Seq(Int), Len(ratings) = n, NEW i \in 1 .. n,
         NEW order \in Orderings(n)
  PROVE  \E x \in [0 .. n - i -> Orderings(n)] : RowIs(ratings, i, order, n, x)
<1> DEFINE X == Orderings(n)  D == 1 .. n - i
           q == [k \in 1 .. Len(ratings) - i |-> k]
           Is(iter) ==
             iter = [s \in SUBSET DOMAIN q |->
                       IF s = {} THEN order
                       ELSE Compared(ratings, i, q[Max(s)], iter[s \ {Max(s)}])]
           It == CHOOSE iter : Is(iter)
           H == [p \in D \X X |-> Compared(ratings, i, p[1], p[2])]
<1>1. ComparedAll(ratings, i, order) = It[DOMAIN q]
  BY DEF ComparedAll, FoldLeft, MapThenFoldSet, Compared
<1>2. n - i \in Nat /\ DOMAIN q = 1 .. n - i /\ \A k \in D : q[k] = k
  OBVIOUS
<1>3. H \in [D \X X -> X]
  BY ComparedType
<1>4. \A k \in D, o \in X : H[<<k, o>>] = Compared(ratings, i, k, o)
  OBVIOUS
<1> DEFINE m == n - i
<1>5. order \in X /\ m \in Nat /\ DOMAIN q = 1 .. m /\ (\A k \in 1 .. m : q[k] \in D) /\ D = 1 .. m
  BY <1>2
<1> HIDE DEF H, X, q, m, D
<1>6. PICK g \in [SUBSET DOMAIN q -> X] : FoldingOver(q, order, H, g)
  BY <1>3, <1>5, FoldOverExists
<1>7. Is(g)
  <2>1. ASSUME NEW s \in SUBSET DOMAIN q
        PROVE  g[s] = IF s = {} THEN order
                      ELSE Compared(ratings, i, q[Max(s)], g[s \ {Max(s)}])
    <3>1. g[s] = IF s = {} THEN order ELSE H[<<q[Max(s)], g[s \ {Max(s)}]>>]
      BY <1>6 DEF FoldingOver
    <3>2. s # {} => Max(s) \in DOMAIN q /\ s \ {Max(s)} \in SUBSET DOMAIN q
      BY <1>5, PlacesOf
    <3> QED BY <1>4, <1>5, <3>1, <3>2
  <2> QED BY <2>1
<1>8. Is(It)
  BY <1>7
<1>9. FoldedBy(q, order, H, X, It)
  <2> HIDE DEF It
  <2>1. \A s \in SUBSET DOMAIN q : s # {} => Max(s) \in DOMAIN q
    BY <1>5, PlacesOf
  <2> QED BY <1>4, <1>5, <1>8, <2>1 DEF FoldedBy
<1> HIDE DEF It
<1>10. PICK x \in [0 .. m -> X] : FoldRun(m, q, order, H, x, It[DOMAIN q])
  BY <1>3, <1>5, <1>9, FoldRounds
<1>11. \A k \in 1 .. m : x[k] = Compared(ratings, i, k, x[k - 1])
  <2> SUFFICES ASSUME NEW k \in 1 .. m PROVE x[k] = Compared(ratings, i, k, x[k - 1])
    OBVIOUS
  <2>1. k - 1 \in 0 .. m /\ x[k] = H[<<q[k], x[k - 1]>>] /\ q[k] = k
    BY <1>2, <1>5, <1>10 DEF FoldRun
  <2> QED BY <1>4, <1>5, <2>1
<1> QED BY <1>1, <1>10, <1>11 DEF FoldRun, X, m, RowIs

LEMMA SortRun ==
  ASSUME NEW n \in Nat, NEW ratings \in Seq(Int), Len(ratings) = n, NEW m \in Nat,
         m = IF n = 0 THEN 0 ELSE n - 1
  PROVE  \E x \in [0 .. m -> Orderings(n)] : SortIs(ratings, n, m, x)
<1> DEFINE X == Orderings(n)  D == 1 .. m
           base == [i \in 1 .. Len(ratings) |-> i]
           q == [i \in 1 .. Len(ratings) - 1 |-> i]
           Is(iter) ==
             iter = [s \in SUBSET DOMAIN q |->
                       IF s = {} THEN base
                       ELSE ComparedAll(ratings, q[Max(s)], iter[s \ {Max(s)}])]
           It == CHOOSE iter : Is(iter)
           H == [p \in D \X X |-> ComparedAll(ratings, p[1], p[2])]
<1>1. FindMaxSec(ratings) = It[DOMAIN q]
  BY DEF FindMaxSec, FoldLeft, MapThenFoldSet, ComparedAll
<1>2. DOMAIN q = 1 .. m /\ (\A i \in D : q[i] = i /\ i \in 1 .. n) /\ base \in X
  BY DEF Orderings
<1>3. ASSUME NEW i \in D, NEW o \in X PROVE ComparedAll(ratings, i, o) \in X
  <2>1. i \in 1 .. n /\ n - i \in 0 .. n - i
    BY <1>2
  <2>2. PICK x \in [0 .. n - i -> Orderings(n)] : RowIs(ratings, i, o, n, x)
    BY <2>1, RowRun
  <2> QED BY <2>1, <2>2 DEF RowIs
<1>4. H \in [D \X X -> X] /\ \A i \in D, o \in X : H[<<i, o>>] = ComparedAll(ratings, i, o)
  BY <1>3
<1>5. base = [i \in 1 .. n |-> i] /\ DOMAIN q = D /\ (\A i \in 1 .. m : q[i] \in D)
  BY <1>2
<1> HIDE DEF H, X, q, D, base
<1>6. PICK g \in [SUBSET DOMAIN q -> X] : FoldingOver(q, base, H, g)
  BY <1>2, <1>4, <1>5, FoldOverExists
<1>7. Is(g)
  <2>1. ASSUME NEW s \in SUBSET DOMAIN q
        PROVE  g[s] = IF s = {} THEN base
                      ELSE ComparedAll(ratings, q[Max(s)], g[s \ {Max(s)}])
    <3>1. g[s] = IF s = {} THEN base ELSE H[<<q[Max(s)], g[s \ {Max(s)}]>>]
      BY <1>6 DEF FoldingOver
    <3>2. s # {} => Max(s) \in DOMAIN q /\ s \ {Max(s)} \in SUBSET DOMAIN q
      BY <1>2, PlacesOf
    <3> QED BY <1>2, <1>4, <1>5, <3>1, <3>2
  <2> QED BY <2>1
<1>8. Is(It)
  BY <1>7
<1>9. FoldedBy(q, base, H, X, It)
  <2> HIDE DEF It
  <2>1. \A s \in SUBSET DOMAIN q : s # {} => q[Max(s)] \in D
    BY <1>2, <1>5, PlacesOf
  <2> QED BY <1>4, <1>8, <2>1 DEF FoldedBy
<1> HIDE DEF It
<1>10. PICK x \in [0 .. m -> X] : FoldRun(m, q, base, H, x, It[DOMAIN q])
  BY <1>2, <1>4, <1>5, <1>9, FoldRounds
<1>11. \A i \in 1 .. m : x[i] = ComparedAll(ratings, i, x[i - 1])
  <2> SUFFICES ASSUME NEW i \in 1 .. m PROVE x[i] = ComparedAll(ratings, i, x[i - 1])
    OBVIOUS
  <2>1. i - 1 \in 0 .. m /\ i \in D
    BY <1>2, <1>5
  <2>2. x[i] = H[<<q[i], x[i - 1]>>] /\ q[i] = i /\ x[i - 1] \in X
    BY <1>2, <1>10, <2>1 DEF FoldRun
  <2> QED BY <1>4, <2>1, <2>2
<1> QED BY <1>1, <1>5, <1>10, <1>11 DEF FoldRun, X, SortIs

\* What holds of the order before place i is compared with place i + k + 1:
\* the places before i are settled, and place i is with the k next ones; the
\* first place is that of the first of the highest.
FirstHighest(ratings, o, k) ==
  /\ \A j \in DOMAIN o : j > k + 1 => o[j] = j
  /\ o[1] <= k + 1
  /\ \A j \in DOMAIN o : j <= k + 1 => ratings[j] <= ratings[o[1]]
SortedTo(ratings, o, i, k) ==
  /\ \A p, r \in DOMAIN o : p < i /\ p < r => ratings[o[p]] >= ratings[o[r]]
  /\ \A j \in 1 .. k : ratings[o[i]] >= ratings[o[i + j]]
  /\ i = 1 => FirstHighest(ratings, o, k)
  /\ \A j \in DOMAIN o : j < o[1] => ratings[j] < ratings[o[1]]

LEMMA ComparedSorts ==
  ASSUME NEW n \in Nat, NEW ratings \in [1 .. n -> Int], NEW i \in 1 .. n,
         NEW k \in 1 .. n - i, NEW o \in Orderings(n), SortedTo(ratings, o, i, k - 1)
  PROVE  SortedTo(ratings, Compared(ratings, i, k, o), i, k)
<1> DEFINE j == i + k  y == Compared(ratings, i, k, o)
           R(p) == ratings[o[p]]
<1>1. j \in 1 .. n /\ i < j /\ o \in [1 .. n -> 1 .. n] /\ DOMAIN o = 1 .. n
  <2>1. o \in [1 .. n -> 1 .. n]
    BY DEF Orderings
  <2> QED BY <2>1
<1>2. \A p \in 1 .. n : R(p) \in Int /\ o[p] \in 1 .. n
  BY <1>1
<1>3. 1 \in 1 .. n /\ k \in Nat /\ k > 0 /\ i + k = j
  OBVIOUS
<1>4. /\ \A p, r \in 1 .. n : p < i /\ p < r => R(p) >= R(r)
      /\ \A m \in 1 .. k - 1 : R(i) >= R(i + m)
      /\ \A p \in 1 .. n : p < o[1] => ratings[p] < R(1)
  BY <1>1 DEF SortedTo
<1>5. i = 1 =>
        /\ \A p \in 1 .. n : p > k => o[p] = p
        /\ o[1] <= k
        /\ \A p \in 1 .. n : p <= k => ratings[p] <= R(1)
  <2>1. (k - 1) + 1 = k
    OBVIOUS
  <2>2. i = 1 => FirstHighest(ratings, o, k - 1)
    BY DEF SortedTo
  <2> QED BY <1>1, <2>1, <2>2 DEF FirstHighest
<1>6. CASE ~Beaten(ratings, o, i, j)
  <2>1. y = o /\ R(i) >= R(j)
    BY <1>1, <1>2, <1>6 DEF Compared, Beaten
  <2>4. \A m \in 1 .. k : R(i) >= R(i + m)
    <3> SUFFICES ASSUME NEW m \in 1 .. k PROVE R(i) >= R(i + m)
      OBVIOUS
    <3>1. m = k \/ m \in 1 .. k - 1
      OBVIOUS
    <3> HIDE DEF R
    <3> QED BY <1>3, <1>4, <2>1, <3>1
  <2>2. CASE i = 1
    <3>1. j = k + 1 /\ o[j] = j /\ ratings[k + 1] = R(j)
      BY <1>1, <1>5, <2>2, SMTT(30)
    <3>2. \A p \in 1 .. n : p <= k + 1 => ratings[p] <= R(1)
      BY <1>5, <2>1, <2>2, <3>1
    <3>3. o[1] <= k + 1 /\ \A p \in 1 .. n : p > k + 1 => o[p] = p
      BY <1>2, <1>3, <1>5, <2>2
    <3>4. FirstHighest(ratings, o, k)
      BY <1>1, <3>2, <3>3 DEF FirstHighest
    <3> QED BY <1>1, <1>4, <2>1, <2>4, <3>4 DEF SortedTo
  <2>3. CASE i # 1
    BY <1>1, <1>4, <2>1, <2>3, <2>4 DEF SortedTo
  <2> QED BY <2>2, <2>3
<1>7. CASE Beaten(ratings, o, i, j)
  <2> DEFINE Q(p) == ratings[y[p]]
  <2>1. /\ y \in [1 .. n -> 1 .. n] /\ y[i] = o[j] /\ y[j] = o[i]
        /\ \A p \in (1 .. n) \ {i, j} : y[p] = o[p]
        /\ R(i) < R(j) /\ DOMAIN y = 1 .. n
    BY <1>1, <1>7 DEF Compared, Beaten
  <2>2. /\ Q(i) = R(j) /\ Q(j) = R(i)
        /\ \A p \in (1 .. n) \ {i, j} : Q(p) = R(p)
    BY <2>1
  <2>3. y[1] = IF i = 1 THEN o[j] ELSE o[1]
    <3>1. 1 # j
      BY <1>1
    <3> HIDE DEF y, j
    <3> QED BY <1>3, <2>1, <3>1
  <2> HIDE DEF y, j, R, Q
  <2>4. \A p, r \in 1 .. n : p < i /\ p < r => Q(p) >= Q(r)
    <3> SUFFICES ASSUME NEW p \in 1 .. n, NEW r \in 1 .. n, p < i, p < r PROVE Q(p) >= Q(r)
      OBVIOUS
    <3>1. Q(p) = R(p) /\ R(p) >= R(i) /\ R(p) >= R(j) /\ R(p) >= R(r)
      BY <1>1, <1>4, <2>2, SMTT(30)
    <3> QED BY <2>2, <3>1
  <2>5. \A m \in 1 .. k : Q(i) >= Q(i + m)
    <3> SUFFICES ASSUME NEW m \in 1 .. k PROVE Q(i) >= Q(i + m)
      OBVIOUS
    <3>1. CASE m = k
      <4>1. Q(i) = R(j) /\ Q(i + m) = R(i) /\ R(i) < R(j)
        BY <1>3, <2>1, <2>2, <3>1
      <4>2. R(i) \in Int /\ R(j) \in Int
        BY <1>1, <1>2
      <4> QED BY <4>1, <4>2
    <3>2. CASE m # k
      <4>1. m \in 1 .. k - 1 /\ i + m \in (1 .. n) \ {i, j}
        BY <3>2, <1>3
      <4>2. R(i) >= R(i + m) /\ Q(i + m) = R(i + m)
        BY <1>4, <2>2, <4>1
      <4>3. R(i) \in Int /\ R(j) \in Int /\ R(i + m) \in Int
        BY <1>1, <1>2, <4>1
      <4> QED BY <2>1, <2>2, <4>2, <4>3
    <3> QED BY <3>1, <3>2
  <2>6. ASSUME i = 1 PROVE SortedTo(ratings, y, i, k)
    <3>1. j = k + 1 /\ o[j] = j /\ y[1] = k + 1 /\ R(j) = ratings[k + 1]
      BY <1>1, <1>3, <1>5, <2>3, <2>6, SMTT(30) DEF R
    <3>2. \A p \in 1 .. n : p < k + 1 => ratings[p] < ratings[k + 1]
      <4> SUFFICES ASSUME NEW p \in 1 .. n, p < k + 1 PROVE ratings[p] < ratings[k + 1]
        OBVIOUS
      <4>1. ratings[p] <= R(1) /\ R(1) < ratings[k + 1]
        BY <1>3, <1>5, <2>1, <2>6, <3>1
      <4>2. ratings[p] \in Int /\ R(1) \in Int /\ ratings[k + 1] \in Int
        BY <1>1, <1>2, <1>3, <3>1
      <4> QED BY <4>1, <4>2
    <3>3. \A p \in 1 .. n : p > k + 1 => y[p] = p
      <4> SUFFICES ASSUME NEW p \in 1 .. n, p > k + 1 PROVE y[p] = p
        OBVIOUS
      <4>1. p # i /\ p # j /\ p > k
        BY <1>3, <2>6, <3>1
      <4> QED BY <1>5, <2>1, <2>6, <4>1
    <3>4. \A p \in 1 .. n : p <= k + 1 => ratings[p] <= ratings[k + 1]
      <4> SUFFICES ASSUME NEW p \in 1 .. n, p <= k + 1 PROVE ratings[p] <= ratings[k + 1]
        OBVIOUS
      <4>1. ratings[p] \in Int /\ ratings[k + 1] \in Int
        BY <1>1, <3>1
      <4> QED BY <1>3, <3>2, <4>1
    <3>5. FirstHighest(ratings, y, k)
      <4>1. y[1] <= k + 1
        BY <1>3, <3>1
      <4> QED BY <2>1, <3>1, <3>3, <3>4, <4>1 DEF FirstHighest
    <3> QED BY <2>1, <2>4, <2>5, <3>1, <3>2, <3>5 DEF SortedTo, Q
  <2>7. ASSUME i # 1 PROVE SortedTo(ratings, y, i, k)
    <3>1. y[1] = o[1] /\ Q(1) = R(1)
      BY <2>3, <2>7 DEF Q, R
    <3>2. \A p \in 1 .. n : p < y[1] => ratings[p] < Q(1)
      BY <1>4, <3>1
    <3>3. /\ \A p, r \in DOMAIN y : p < i /\ p < r => ratings[y[p]] >= ratings[y[r]]
          /\ \A m \in 1 .. k : ratings[y[i]] >= ratings[y[i + m]]
          /\ \A p \in DOMAIN y : p < y[1] => ratings[p] < ratings[y[1]]
      BY <2>1, <2>4, <2>5, <3>2 DEF Q
    <3> QED BY <2>7, <3>3 DEF SortedTo
  <2> QED BY <2>6, <2>7 DEF y
<1> QED BY <1>6, <1>7

LEMMA RowSorts ==
  ASSUME NEW n \in Nat, NEW ratings \in Seq(Int), Len(ratings) = n, NEW i \in 1 .. n,
         NEW order \in Orderings(n), SortedTo(ratings, order, i, 0)
  PROVE  SortedTo(ratings, ComparedAll(ratings, i, order), i + 1, 0)
<1> DEFINE m == n - i
<1>1. PICK x \in [0 .. n - i -> Orderings(n)] : RowIs(ratings, i, order, n, x)
  BY RowRun
<1>2. m \in Nat /\ ratings \in [1 .. n -> Int] /\ m \in 0 .. m
  OBVIOUS
<1> DEFINE T == {k \in 0 .. m : SortedTo(ratings, x[k], i, k)}
<1>3. 0 \in T
  BY <1>1, <1>2 DEF RowIs
<1>4. ASSUME NEW k \in 0 .. m - 1, k \in T PROVE k + 1 \in T
  <2>1. k + 1 \in 1 .. m /\ (k + 1) - 1 = k /\ k \in 0 .. m /\ k + 1 \in 0 .. m
    BY <1>2
  <2>2. x[k] \in Orderings(n) /\ x[k + 1] = Compared(ratings, i, k + 1, x[k])
    BY <1>1, <2>1 DEF RowIs
  <2>3. SortedTo(ratings, x[k], i, (k + 1) - 1)
    BY <1>4, <2>1
  <2>4. SortedTo(ratings, x[k + 1], i, k + 1)
    BY <1>2, <2>1, <2>2, <2>3, ComparedSorts
  <2> QED BY <2>1, <2>4
<1>5. \A k \in 0 .. m : k \in T
  <2> HIDE DEF T, m
  <2> QED BY <1>2, <1>3, <1>4, UpTo
<1> DEFINE y == ComparedAll(ratings, i, order)
<1>6. SortedTo(ratings, y, i, m) /\ y \in [1 .. n -> 1 .. n]
  <2>1. x[m] \in Orderings(n) /\ SortedTo(ratings, x[m], i, m) /\ x[m] = y
    BY <1>1, <1>2, <1>5 DEF RowIs
  <2> QED BY <2>1 DEF Orderings
<1> HIDE DEF y
<1>7. ASSUME NEW p \in 1 .. n, NEW r \in 1 .. n, p < i + 1, p < r
      PROVE  ratings[y[p]] >= ratings[y[r]]
  <2>1. CASE p < i
    BY <1>6, <1>7, <2>1 DEF SortedTo
  <2>2. CASE p = i
    <3>1. r - i \in 1 .. m /\ i + (r - i) = r
      BY <1>7, <2>2
    <3>2. ratings[y[i]] >= ratings[y[i + (r - i)]]
      BY <1>6, <3>1 DEF SortedTo
    <3> QED BY <2>2, <3>1, <3>2
  <2> QED BY <1>7, <2>1, <2>2
<1>8. \A j \in 1 .. n : j < y[1] => ratings[j] < ratings[y[1]]
  BY <1>6 DEF SortedTo
<1> QED BY <1>6, <1>7, <1>8, SMTT(30) DEF SortedTo, y

LEMMA SortSorts ==
  ASSUME NEW ratings \in Seq(Int), ratings # <<>>
  PROVE  /\ FindMaxSec(ratings) \in Orderings(Len(ratings))
         /\ SortedTo(ratings, FindMaxSec(ratings), Len(ratings), 0)
<1> DEFINE n == Len(ratings)  m == n - 1
<1>1. n \in Nat \ {0} /\ m \in Nat /\ m = (IF n = 0 THEN 0 ELSE n - 1) /\ m \in 0 .. m
  OBVIOUS
<1>2. PICK x \in [0 .. m -> Orderings(n)] : SortIs(ratings, n, m, x)
  <2> HIDE DEF m
  <2> QED BY <1>1, SortRun
<1> DEFINE T == {i \in 0 .. m : SortedTo(ratings, x[i], i + 1, 0)}
<1>3. 0 \in T
  <2>1. 0 \in 0 .. m /\ ratings \in [1 .. n -> Int]
    BY <1>1
  <2> DEFINE id == [i \in 1 .. n |-> i]
  <2>3. DOMAIN id = 1 .. n /\ id[1] = 1 /\ 1 \in 1 .. n /\ \A i \in 1 .. n : id[i] = i
    BY <1>1
  <2>4. \A i \in 1 .. n : i <= 1 => ratings[i] <= ratings[1]
    BY <2>1, <2>3
  <2>2. SortedTo(ratings, id, 1, 0)
    <3> HIDE DEF id, n
    <3> QED BY <1>1, <2>3, <2>4 DEF SortedTo, FirstHighest
  <2> QED BY <1>1, <1>2, <2>1, <2>2, SMTT(30) DEF SortIs
<1>4. ASSUME NEW k \in 0 .. m - 1, k \in T PROVE k + 1 \in T
  <2>1. k + 1 \in 1 .. m /\ (k + 1) - 1 = k /\ k \in 0 .. m /\ k + 1 \in 0 .. m
        /\ k + 1 \in 1 .. n
    BY <1>1
  <2>2. x[k] \in Orderings(n) /\ x[k + 1] = ComparedAll(ratings, k + 1, x[k])
    BY <1>2, <2>1 DEF SortIs
  <2>3. SortedTo(ratings, x[k + 1], (k + 1) + 1, 0)
    BY <1>1, <1>4, <2>1, <2>2, RowSorts
  <2> QED BY <2>1, <2>3
<1>5. \A k \in 0 .. m : k \in T
  <2> HIDE DEF T, m, n
  <2> QED BY <1>1, <1>3, <1>4, UpTo
<1>6. m + 1 = n
  BY <1>1
<1> QED BY <1>1, <1>2, <1>5, <1>6 DEF SortIs

\* Ratings are numbers.
LEMMA OrderTold ==
  ASSUME kind = "order" => text \in Seq(Int)
  PROVE  OrderIsByRating
<1> SUFFICES ASSUME kind = "order", text \in Seq(Int) PROVE OrderIsByRating
  BY DEF OrderIsByRating
<1> DEFINE order == FindMaxSec(text)  n == Len(text)
<1>1. CASE text = <<>>
  <2>1. n = 0 /\ 0 \in Nat
    BY <1>1
  <2>2. PICK x \in [0 .. 0 -> Orderings(0)] : SortIs(text, 0, 0, x)
    <3>1. text \in Seq(Int) /\ Len(text) = 0 /\ 0 = IF 0 = 0 THEN 0 ELSE 0 - 1
      BY <2>1
    <3> QED BY <2>1, <3>1, SortRun
  <2>3. DOMAIN order = {}
    BY <2>2 DEF SortIs
  <2> HIDE DEF order
  <2> QED BY <1>1, <2>3 DEF OrderIsByRating, order
<1>2. CASE text # <<>>
  <2>1. n \in Nat \ {0} /\ DOMAIN text = 1 .. n
    BY <1>2
  <2>2. order \in Orderings(n) /\ SortedTo(text, order, n, 0)
    BY <1>2, SortSorts
  <2>3. order \in [1 .. n -> 1 .. n] /\ \A v \in 1 .. n : \E p \in 1 .. n : order[p] = v
    BY <2>2 DEF Orderings
  <2> HIDE DEF order, n
  <2>4. {order[i] : i \in DOMAIN order} = DOMAIN text
    BY <2>1, <2>3
  <2>5. \A i, j \in DOMAIN text : i < j => text[order[i]] >= text[order[j]]
    BY <2>1, <2>2, <2>3 DEF SortedTo
  <2>6. \A cs \in 1 .. order[1] - 1 : text[cs] < text[order[1]]
    <3> SUFFICES ASSUME NEW cs \in 1 .. order[1] - 1 PROVE text[cs] < text[order[1]]
      OBVIOUS
    <3>2. 1 \in 1 .. n
      BY <2>1
    <3>3. order[1] \in 1 .. n
      BY <2>3, <3>2
    <3>1. cs \in 1 .. n /\ cs < order[1]
      BY <2>1, <3>3
    <3> QED BY <2>2, <2>3, <3>1 DEF SortedTo
  <2> QED BY <2>4, <2>5, <2>6 DEF OrderIsByRating, order
<1> QED BY <1>1, <1>2

-----------------------------------------------------------------------------
(* Pairs: which numbers the three charsets set their bits in. *)
Good(cs, c, d) == c \in DOMAIN GoodPairs[cs] /\ d \in GoodPairs[cs][c]
Bit(cs, c, d) == IF Good(cs, c, d) THEN 2 ^ (cs - 1) ELSE 0
WithGood(c, d, cs, bits) == IF Good(cs, c, d) THEN bits + 2 ^ (cs - 1) ELSE bits

LEMMA PairBits ==
  ASSUME NEW c, NEW d
  PROVE  Pair2Bits(GoodPairs, c, d) = Bit(1, c, d) + Bit(2, c, d) + Bit(3, c, d)
<1> DEFINE X == Nat  D == 1 .. 3
           q == [cs \in DOMAIN GoodPairs |-> cs]
           Is(iter) ==
             iter = [s \in SUBSET DOMAIN q |->
                       IF s = {} THEN 0
                       ELSE WithGood(c, d, q[Max(s)], iter[s \ {Max(s)}])]
           It == CHOOSE iter : Is(iter)
           H == [p \in D \X X |-> WithGood(c, d, p[1], p[2])]
<1>1. Pair2Bits(GoodPairs, c, d) = It[DOMAIN q]
  BY DEF Pair2Bits, FoldLeft, MapThenFoldSet, WithGood, Good
<1>2. DOMAIN GoodPairs = 1 .. 3
  BY DEF GoodPairs
<1>3. 0 \in X /\ 3 \in Nat /\ DOMAIN q = 1 .. 3 /\ D = 1 .. 3 /\ \A i \in 1 .. 3 : q[i] = i /\ q[i] \in D
  BY <1>2
<1>4. ASSUME NEW i \in D, NEW x \in X PROVE WithGood(c, d, i, x) \in X
  <2>1. i = 1 \/ i = 2 \/ i = 3
    OBVIOUS
  <2>2. 2 ^ (1 - 1) = 1 /\ 2 ^ (2 - 1) = 2 /\ 2 ^ (3 - 1) = 4
    OBVIOUS
  <2>3. 2 ^ (i - 1) \in Nat
    <3>1. CASE i = 1
      BY <2>2, <3>1
    <3>2. CASE i = 2
      BY <2>2, <3>2
    <3>3. CASE i = 3
      BY <2>2, <3>3
    <3> QED BY <2>1, <3>1, <3>2, <3>3
  <2> QED BY <2>3 DEF WithGood, X
<1>5. H \in [D \X X -> X] /\ \A i \in D, x \in X : H[<<i, x>>] = WithGood(c, d, i, x)
  BY <1>4
<1> HIDE DEF H, X, q, D
<1>6. PICK g \in [SUBSET DOMAIN q -> X] : FoldingOver(q, 0, H, g)
  BY <1>3, <1>5, FoldOverExists
<1>7. Is(g)
  <2>1. ASSUME NEW s \in SUBSET DOMAIN q
        PROVE  g[s] = IF s = {} THEN 0
                      ELSE WithGood(c, d, q[Max(s)], g[s \ {Max(s)}])
    <3>1. g[s] = IF s = {} THEN 0 ELSE H[<<q[Max(s)], g[s \ {Max(s)}]>>]
      BY <1>6 DEF FoldingOver
    <3>2. s # {} => Max(s) \in DOMAIN q /\ s \ {Max(s)} \in SUBSET DOMAIN q
      BY <1>3, PlacesOf
    <3> QED BY <1>3, <1>5, <3>1, <3>2
  <2> QED BY <2>1
<1>8. Is(It)
  BY <1>7
<1>9. FoldedBy(q, 0, H, X, It)
  <2> HIDE DEF It
  <2>1. \A s \in SUBSET DOMAIN q : s # {} => q[Max(s)] \in D
    BY <1>3, PlacesOf
  <2> QED BY <1>5, <1>8, <2>1 DEF FoldedBy
<1> HIDE DEF It
<1>10. PICK x \in [0 .. 3 -> X] : FoldRun(3, q, 0, H, x, It[DOMAIN q])
  BY <1>3, <1>5, <1>9, FoldRounds
<1>11. /\ x[0] = 0 /\ x[3] = It[DOMAIN q]
       /\ x[1] = WithGood(c, d, 1, x[0])
       /\ x[2] = WithGood(c, d, 2, x[1])
       /\ x[3] = WithGood(c, d, 3, x[2])
  <2>1. \A k \in 1 .. 3 : x[k] = H[<<q[k], x[k - 1]>>]
    BY <1>10 DEF FoldRun
  <2>2. ASSUME NEW k \in 1 .. 3 PROVE x[k] = WithGood(c, d, k, x[k - 1])
    <3>1. k - 1 \in 0 .. 3 /\ k \in D /\ q[k] = k /\ x[k - 1] \in X
      BY <1>3
    <3> QED BY <1>5, <2>1, <3>1
  <2> QED BY <1>10, <2>2 DEF FoldRun
<1>12. 2 ^ (1 - 1) = 1 /\ 2 ^ (2 - 1) = 2 /\ 2 ^ (3 - 1) = 4
  OBVIOUS
<1> QED BY <1>1, <1>11, <1>12 DEF WithGood, Bit

Multiples(b) == {k \in 0 .. 8 - 1 : k % (2 * b) = 0}
Runs(b) == UNION {i + b .. i + 2 * b - 1 : i \in Multiples(b)}

LEMMA BitsOfCharset ==
  ASSUME NEW cs \in 1 .. 3
  PROVE  WithBit(2 ^ (cs - 1), 8) = IF cs = 1 THEN {1, 3, 5, 7}
                                    ELSE IF cs = 2 THEN {2, 3, 6, 7} ELSE {4, 5, 6, 7}
<1>1. 2 ^ (1 - 1) = 1 /\ 2 ^ (2 - 1) = 2 /\ 2 ^ (3 - 1) = 4
  OBVIOUS
<1>2. \A b : WithBit(b, 8) = Runs(b)
  BY DEF WithBit, Runs, Multiples
<1>3. Runs(1) = {1, 3, 5, 7}
  <2>1. Multiples(1) = {0, 2, 4, 6}
    BY DEF Multiples
  <2>2. \A j : j \in Runs(1) <=> \E i \in {0, 2, 4, 6} : j \in i + 1 .. i + 1
    BY <2>1 DEF Runs
  <2>3. \A j : j \in Runs(1) <=> j \in {1, 3, 5, 7}
    BY <2>2
  <2> QED BY <2>3
<1>4. Runs(2) = {2, 3, 6, 7}
  <2>1. Multiples(2) = {0, 4}
    BY DEF Multiples
  <2>2. \A j : j \in Runs(2) <=> \E i \in {0, 4} : j \in i + 2 .. i + 3
    BY <2>1 DEF Runs
  <2>3. \A j : j \in Runs(2) <=> j \in {2, 3, 6, 7}
    BY <2>2
  <2> QED BY <2>3
<1>5. Runs(4) = {4, 5, 6, 7}
  <2>1. Multiples(4) = {0}
    BY DEF Multiples
  <2>2. \A j : j \in Runs(4) <=> j \in 4 .. 7
    BY <2>1 DEF Runs
  <2> QED BY <2>2
<1>6. CASE cs = 1
  BY <1>1, <1>2, <1>3, <1>6
<1>7. CASE cs = 2
  BY <1>1, <1>2, <1>4, <1>7
<1>8. CASE cs = 3
  BY <1>1, <1>2, <1>5, <1>8
<1> QED BY <1>6, <1>7, <1>8

LEMMA GoodIsBit ==
  ASSUME NEW c, NEW d, NEW cs \in 1 .. 3
  PROVE  /\ Pair2Bits(GoodPairs, c, d) \in 0 .. 7
         /\ Pair2Bits(GoodPairs, c, d) \in WithBit(2 ^ (cs - 1), 8) <=> Good(cs, c, d)
<1>1. 2 ^ (1 - 1) = 1 /\ 2 ^ (2 - 1) = 2 /\ 2 ^ (3 - 1) = 4
  OBVIOUS
<1> DEFINE a == Bit(1, c, d)  b == Bit(2, c, d)  e == Bit(3, c, d)
<1>2. /\ a = (IF Good(1, c, d) THEN 1 ELSE 0)
      /\ b = (IF Good(2, c, d) THEN 2 ELSE 0)
      /\ e = (IF Good(3, c, d) THEN 4 ELSE 0)
  BY <1>1 DEF Bit
<1>3. Pair2Bits(GoodPairs, c, d) = a + b + e
  BY PairBits
<1> HIDE DEF a, b, e
<1>4. a + b + e \in 0 .. 7
  BY <1>2
<1>5. a + b + e \in {1, 3, 5, 7} <=> Good(1, c, d)
  BY <1>2
<1>6. a + b + e \in {2, 3, 6, 7} <=> Good(2, c, d)
  BY <1>2
<1>7. a + b + e \in {4, 5, 6, 7} <=> Good(3, c, d)
  BY <1>2
<1> DEFINE W == WithBit(2 ^ (cs - 1), 8)
<1>8. W = IF cs = 1 THEN {1, 3, 5, 7} ELSE IF cs = 2 THEN {2, 3, 6, 7} ELSE {4, 5, 6, 7}
  BY BitsOfCharset
<1> HIDE DEF W
<1>9. a + b + e \in W <=> Good(cs, c, d)
  BY <1>5, <1>6, <1>7, <1>8
<1> QED BY <1>3, <1>4, <1>9 DEF W

LEMMA PairsTold ==
  ASSUME NEW A, text \in Seq(A)
  PROVE  PairsAreCounted
<1> DEFINE pairs == PairsOf(text)  P == DOMAIN pairs
           bits(i) == Pair2Bits(GoodPairs, pairs[i][1], pairs[i][2])
           h == [i \in P |-> bits(i)]
           counts == [j \in 0 .. 8 - 1 |-> Cardinality({i \in P : bits(i) = j})]
<1> SUFFICES ASSUME NEW cs \in DOMAIN GoodPairs
             PROVE  CountGoodPairs(GoodPairs, text)[cs]
                      = Cardinality({i \in P : Good(cs, pairs[i][1], pairs[i][2])})
  BY DEF PairsAreCounted, Number, Quantify, Good
<1> DEFINE W == WithBit(2 ^ (cs - 1), 8)
<1>1. DOMAIN GoodPairs = 1 .. 3 /\ Len(GoodPairs) = 3 /\ 2 ^ 3 = 8 /\ cs \in 1 .. 3
  BY DEF GoodPairs
<1>2. CountGoodPairs(GoodPairs, text)[cs] = SumOver(counts, W)
  <2>1. CountGoodPairs(GoodPairs, text)
          = [c \in DOMAIN GoodPairs |->
               SumOver([j \in 0 .. 2 ^ Len(GoodPairs) - 1 |->
                          Cardinality({i \in P : bits(i) = j})],
                       WithBit(2 ^ (c - 1), 2 ^ Len(GoodPairs)))]
    BY DEF CountGoodPairs, SumOver, MapThenSumSet, MapThenFoldSet
  <2>2. 2 ^ Len(GoodPairs) = 8
    BY <1>1
  <2> HIDE DEF P, bits
  <2> QED BY <2>1, <2>2
<1>3. IsFiniteSet(P)
  <2>1. CASE text = <<>>
    BY <2>1, FS_EmptySet DEF PairsOf
  <2>2. CASE text # <<>>
    <3>1. P = 1 .. Len(text) + 1
      BY <2>2 DEF PairsOf
    <3>2. Len(text) + 1 \in Int
      OBVIOUS
    <3> HIDE DEF P
    <3> QED BY <3>1, <3>2, FS_Interval
  <2> QED BY <2>1, <2>2
<1> HIDE DEF pairs
<1>4. /\ W \in SUBSET (0 .. 7) /\ IsFiniteSet(W)
      /\ \A i \in P : h[i] \in W <=> Good(cs, pairs[i][1], pairs[i][2])
  <2>1. W \in SUBSET (0 .. 7)
    <3>1. W = IF cs = 1 THEN {1, 3, 5, 7} ELSE IF cs = 2 THEN {2, 3, 6, 7} ELSE {4, 5, 6, 7}
      BY <1>1, BitsOfCharset
    <3> HIDE DEF W
    <3> QED BY <3>1
  <2>2. IsFiniteSet(W)
    <3>1. IsFiniteSet(0 .. 7)
      <4>1. 0 \in Int /\ 7 \in Int
        OBVIOUS
      <4> QED BY <4>1, FS_Interval
    <3> HIDE DEF W
    <3> QED BY <2>1, <3>1, FS_Subset
  <2>3. ASSUME NEW i \in P PROVE h[i] \in W <=> Good(cs, pairs[i][1], pairs[i][2])
    BY <1>1, GoodIsBit
  <2> QED BY <2>1, <2>2, <2>3
<1> DEFINE f == [j \in W |-> counts[j]]
<1>5. \A j \in W : counts[j] \in Int /\ f[j] = Cardinality({i \in P : h[i] = j})
  <2> SUFFICES ASSUME NEW j \in W
               PROVE  counts[j] \in Int /\ f[j] = Cardinality({i \in P : h[i] = j})
    OBVIOUS
  <2>1. j \in 0 .. 8 - 1 /\ f[j] = counts[j]
    BY <1>4
  <2>2. counts[j] = Cardinality({i \in P : h[i] = j})
    BY <2>1
  <2>3. IsFiniteSet({i \in P : h[i] = j})
    <3> DEFINE Those == {i \in P : h[i] = j}
    <3>1. Those \in SUBSET P
      OBVIOUS
    <3> HIDE DEF Those, P
    <3>2. IsFiniteSet(Those)
      BY <1>3, <3>1, FS_Subset
    <3> QED BY <3>2 DEF Those
  <2> HIDE DEF h, counts, f
  <2> QED BY <2>1, <2>2, <2>3, FS_CardinalityType
<1>6. SumOver(counts, W) = Total(f)
  <2> HIDE DEF counts, W
  <2> QED BY <1>4, <1>5, SumOverIs
<1>7. f \in [W -> Int]
  BY <1>5
<1>10. \A j \in W : f[j] = Cardinality(Fibre(P, h, j))
  BY <1>5 DEF Fibre
<1>8. Total(f) = Cardinality(Fibres(P, h, W))
  <2> HIDE DEF f, W, h, P
  <2> QED BY <1>3, <1>4, <1>7, <1>10, SumOfFibres
<1>9. Fibres(P, h, W) = {i \in P : Good(cs, pairs[i][1], pairs[i][2])}
  BY <1>4 DEF Fibres
<1> QED BY <1>2, <1>6, <1>8, <1>9

-----------------------------------------------------------------------------
(* Names: what is left of a name when it is squeezed. *)
PlainOf(s) == FoldLeft(LAMBDA t, b : IF IsAlnum(b) THEN Append(t, ToLower(b)) ELSE t, <<>>, s)
Before(s, t) ==
  \/ IsStrictPrefix(s, t)
  \/ \E i \in DOMAIN s \cap DOMAIN t :
       /\ s[i] < t[i] /\ \A k \in 1 .. i - 1 : s[k] = t[k]

\* One more byte, and what is left of the first k bytes.
Squeezed(b, t) == IF IsAlnum(b) THEN Append(t, ToLower(b)) ELSE t
PlainIs(s, n, P) ==
  /\ n = Len(s) /\ P \in [0 .. n -> Seq(Int)]
  /\ P[0] = <<>> /\ P[n] = PlainOf(s)
  /\ \A k \in 1 .. n : P[k] = Squeezed(s[k], P[k - 1])

LEMMA PlainRun ==
  ASSUME NEW s \in Seq(Int), NEW n, n = Len(s)
  PROVE  \E P : PlainIs(s, n, P)
<1> DEFINE X == Seq(Int)  D == Int  q == s  base == <<>>
           Is(iter) ==
             iter = [z \in SUBSET DOMAIN q |->
                       IF z = {} THEN base ELSE Squeezed(q[Max(z)], iter[z \ {Max(z)}])]
           It == CHOOSE iter : Is(iter)
           H == [p \in D \X X |-> Squeezed(p[1], p[2])]
<1>1. PlainOf(s) = It[DOMAIN q]
  BY DEF PlainOf, FoldLeft, MapThenFoldSet, Squeezed
<1>2. n \in Nat /\ DOMAIN q = 1 .. n /\ (\A i \in 1 .. n : q[i] \in D) /\ base \in X
  OBVIOUS
<1>3. ASSUME NEW b \in D, NEW t \in X PROVE Squeezed(b, t) \in X
  <2>1. ToLower(b) \in Int
    BY DEF ToLower
  <2> QED BY <2>1 DEF Squeezed
<1>4. H \in [D \X X -> X] /\ \A b \in D, t \in X : H[<<b, t>>] = Squeezed(b, t)
  BY <1>3
<1> HIDE DEF H, X, q, D, base
<1>5. PICK g \in [SUBSET DOMAIN q -> X] : FoldingOver(q, base, H, g)
  BY <1>2, <1>4, FoldOverExists
<1>6. Is(g)
  <2>1. ASSUME NEW z \in SUBSET DOMAIN q
        PROVE  g[z] = IF z = {} THEN base ELSE Squeezed(q[Max(z)], g[z \ {Max(z)}])
    <3>1. g[z] = IF z = {} THEN base ELSE H[<<q[Max(z)], g[z \ {Max(z)}]>>]
      BY <1>5 DEF FoldingOver
    <3>2. z # {} => Max(z) \in DOMAIN q /\ z \ {Max(z)} \in SUBSET DOMAIN q
      BY <1>2, PlacesOf
    <3> QED BY <1>2, <1>4, <3>1, <3>2
  <2> QED BY <2>1
<1>7. Is(It)
  BY <1>6
<1>8. FoldedBy(q, base, H, X, It)
  <2> HIDE DEF It
  <2>1. \A z \in SUBSET DOMAIN q : z # {} => q[Max(z)] \in D
    BY <1>2, PlacesOf
  <2> QED BY <1>4, <1>7, <2>1 DEF FoldedBy
<1> HIDE DEF It
<1>9. PICK P \in [0 .. n -> X] : FoldRun(n, q, base, H, P, It[DOMAIN q])
  BY <1>2, <1>4, <1>8, FoldRounds
<1>10. \A k \in 1 .. n : P[k] = Squeezed(q[k], P[k - 1])
  <2> SUFFICES ASSUME NEW k \in 1 .. n PROVE P[k] = Squeezed(q[k], P[k - 1])
    OBVIOUS
  <2>1. k - 1 \in 0 .. n /\ q[k] \in D
    BY <1>2
  <2>2. P[k] = H[<<q[k], P[k - 1]>>] /\ P[k - 1] \in X
    BY <1>9, <2>1 DEF FoldRun
  <2> QED BY <1>4, <2>1, <2>2
<1> QED BY <1>1, <1>9, <1>10 DEF FoldRun, X, PlainIs, q, base

\* t goes on where s ends.
Continues(s, t) == Len(s) <= Len(t) /\ \A i \in 1 .. Len(s) : t[i] = s[i]

LEMMA PlainGrows ==
  ASSUME NEW s \in Seq(Int), NEW n, NEW P, PlainIs(s, n, P), NEW k \in 0 .. n
  PROVE  Continues(P[k], P[n])
<1> DEFINE T == {j \in 0 .. n - k : Continues(P[k], P[k + j])}
<1>1. n \in Nat /\ n - k \in Nat /\ P \in [0 .. n -> Seq(Int)]
  BY DEF PlainIs
<1>2. 0 \in T
  <2>1. k + 0 = k /\ P[k] \in Seq(Int)
    BY <1>1
  <2> QED BY <1>1, <2>1 DEF Continues
<1>3. ASSUME NEW j \in 0 .. n - k - 1, j \in T PROVE j + 1 \in T
  <2> DEFINE m == k + j
  <2>1. m + 1 \in 1 .. n /\ (m + 1) - 1 = m /\ m \in 0 .. n /\ k + (j + 1) = m + 1
        /\ j + 1 \in 0 .. n - k
    BY <1>1
  <2>2. P[m + 1] = Squeezed(s[m + 1], P[m]) /\ Continues(P[k], P[m])
    BY <1>3, <2>1 DEF PlainIs
  <2>3. P[k] \in Seq(Int) /\ P[m] \in Seq(Int)
    BY <1>1, <2>1
  <2> HIDE DEF m
  <2>4. Continues(P[k], P[m + 1])
    <3>1. CASE P[m + 1] = P[m]
      BY <2>2, <3>1
    <3>2. CASE P[m + 1] = Append(P[m], ToLower(s[m + 1]))
      BY <2>2, <2>3, <3>2 DEF Continues
    <3> QED BY <2>2, <3>1, <3>2 DEF Squeezed
  <2> QED BY <2>1, <2>4
<1>4. \A j \in 0 .. n - k : j \in T
  <2> DEFINE m == n - k
  <2>1. m \in Nat /\ 0 \in T /\ \A j \in 0 .. m - 1 : j \in T => j + 1 \in T
    BY <1>1, <1>2, <1>3
  <2>2. \A j \in 0 .. m : j \in T
    <3> HIDE DEF T, m
    <3> QED BY <2>1, UpTo
  <2> QED BY <2>2
<1>5. n - k \in T /\ k + (n - k) = n
  <2>1. n - k \in 0 .. n - k /\ k + (n - k) = n
    BY <1>1
  <2> HIDE DEF T
  <2> QED BY <1>4, <2>1
<1> QED BY <1>5

\* What stands between place i and the next letter or digit leaves nothing.
SkippedTo(s, n, P, i, a) ==
  /\ a \in i .. n + 1 /\ P[a - 1] = P[i - 1]
  /\ a <= n => IsAlnum(s[a]) /\ P[a] = Append(P[i - 1], ToLower(s[a]))

LEMMA SkipIs ==
  ASSUME NEW s \in Seq(Int), NEW n, NEW P, PlainIs(s, n, P), NEW i \in 1 .. n + 1
  PROVE  SkippedTo(s, n, P, i, Skip(s, i))
<1> DEFINE a == Skip(s, i)
<1> DEFINE S == {k \in i .. n + 1 : k > n \/ IsAlnum(s[k])}
<1>1. n \in Nat /\ n = Len(s) /\ P \in [0 .. n -> Seq(Int)]
  BY DEF PlainIs
<1>2. a = Min(S)
  BY <1>1 DEF Skip
<1> HIDE DEF a
<1>3. S \subseteq Int /\ S # {} /\ \A y \in S : i <= y
  <2>1. n + 1 \in S
    BY <1>1
  <2> QED BY <2>1
<1>4. a \in S /\ \A y \in S : a <= y
  <2>1. i \in Int
    BY <1>1
  <2> HIDE DEF S
  <2> QED BY <1>2, <1>3, <2>1, MinExists
<1>5. a \in i .. n + 1 /\ (a <= n => IsAlnum(s[a])) /\ \A k \in i .. a - 1 : ~IsAlnum(s[k])
  <2>1. a \in i .. n + 1 /\ (a <= n => IsAlnum(s[a]))
    BY <1>1, <1>4
  <2>2. ASSUME NEW k \in i .. a - 1, IsAlnum(s[k]) PROVE FALSE
    <3>1. k \in i .. n + 1 /\ k < a
      BY <1>1, <2>1
    <3>2. k \in S
      BY <2>2, <3>1
    <3> HIDE DEF S
    <3>3. a <= k
      BY <1>4, <3>2
    <3> QED BY <2>1, <3>1, <3>3
  <2> QED BY <2>1, <2>2
<1> HIDE DEF S
<1> DEFINE m == a - i
           T == {j \in 0 .. m : P[(i - 1) + j] = P[i - 1]}
<1>6. m \in Nat
  BY <1>1, <1>5
<1>7. 0 \in T
  BY <1>6
<1>8. ASSUME NEW j \in 0 .. m - 1, j \in T PROVE j + 1 \in T
  <2> DEFINE k == i + j
  <2>1. /\ k \in 1 .. n /\ k \in i .. a - 1 /\ k - 1 = (i - 1) + j /\ (i - 1) + (j + 1) = k
        /\ j + 1 \in 0 .. m
    BY <1>1, <1>5, <1>6
  <2>2. P[k] = Squeezed(s[k], P[k - 1])
    BY <2>1 DEF PlainIs
  <2>3. ~IsAlnum(s[k])
    BY <1>5, <2>1
  <2> QED BY <1>8, <2>1, <2>2, <2>3 DEF Squeezed
<1>9. \A j \in 0 .. m : j \in T
  <2> HIDE DEF T, m
  <2> QED BY <1>6, <1>7, <1>8, UpTo
<1>10. P[a - 1] = P[i - 1]
  <2>1. m \in 0 .. m /\ (i - 1) + m = a - 1
    BY <1>5, <1>6
  <2>2. m \in T
    <3> HIDE DEF T, m
    <3> QED BY <1>9, <2>1
  <2> QED BY <2>1, <2>2
<1>11. a <= n => P[a] = Append(P[i - 1], ToLower(s[a]))
  <2>1. a <= n => a \in 1 .. n
    BY <1>1, <1>5
  <2> QED BY <1>5, <1>10, <2>1 DEF PlainIs, Squeezed
<1> QED BY <1>5, <1>10, <1>11 DEF SkippedTo, a

\* What tells two sequences apart behind what they have in common: u and v are
\* the next elements, or 0.
NextOrEnd(s, p, u) ==
  /\ Continues(p, s)
  /\ u = 0 => s = p
  /\ u # 0 => Len(s) > Len(p) /\ s[Len(p) + 1] = u

LEMMA FirstDifference ==
  ASSUME NEW s \in Seq(Int), NEW t \in Seq(Int), NEW p \in Seq(Int),
         NEW u \in Nat, NEW v \in Nat, NextOrEnd(s, p, u), NextOrEnd(t, p, v), u # v
  PROVE  s # t /\ (u - v < 0 <=> Before(s, t))
<1> DEFINE l == Len(p)
<1>1. /\ l \in Nat /\ DOMAIN s = 1 .. Len(s) /\ DOMAIN t = 1 .. Len(t)
      /\ Len(s) \in Nat /\ Len(t) \in Nat
      /\ \A i \in 1 .. l : s[i] = p[i] /\ t[i] = p[i]
  BY DEF NextOrEnd, Continues
<1>2. CASE u = 0
  <2>1. s = p /\ Len(t) > l /\ v > 0
    BY <1>2 DEF NextOrEnd
  <2>2. IsPrefix(s, t)
    <3>1. SubSeq(s, 1, Len(s)) = SubSeq(t, 1, Len(s))
      BY <1>1, <2>1
    <3> QED BY <1>1, <2>1, <3>1 DEF IsPrefix
  <2> QED BY <1>1, <1>2, <2>1, <2>2 DEF Before, IsStrictPrefix
<1>3. CASE v = 0
  <2>1. t = p /\ Len(s) > l /\ u > 0
    BY <1>3 DEF NextOrEnd
  <2>2. ~IsPrefix(s, t)
    BY <1>1, <2>1 DEF IsPrefix
  <2>3. \A i \in DOMAIN s \cap DOMAIN t : s[i] = t[i]
    BY <1>1, <2>1
  <2>4. \A i \in DOMAIN s \cap DOMAIN t : t[i] \in Int
    OBVIOUS
  <2>5. ~Before(s, t)
    BY <2>2, <2>3, <2>4 DEF Before, IsStrictPrefix
  <2> QED BY <1>1, <1>3, <2>1, <2>5
<1>4. CASE u # 0 /\ v # 0
  <2>1. Len(s) > l /\ Len(t) > l /\ s[l + 1] = u /\ t[l + 1] = v
    BY <1>4 DEF NextOrEnd
  <2>2. l + 1 \in DOMAIN s \cap DOMAIN t
    BY <1>1, <2>1
  <2>3. ~IsPrefix(s, t)
    <3> SUFFICES ASSUME IsPrefix(s, t) PROVE FALSE
      OBVIOUS
    <3>1. SubSeq(s, 1, Len(s))[l + 1] = SubSeq(t, 1, Len(s))[l + 1] /\ Len(s) <= Len(t)
      BY DEF IsPrefix
    <3> QED BY <1>1, <2>1, <2>2, <3>1
  <2>4. u < v => Before(s, t)
    <3>1. \A k \in 1 .. (l + 1) - 1 : s[k] = t[k]
      BY <1>1
    <3> QED BY <2>1, <2>2, <3>1 DEF Before
  <2>5. ASSUME NEW i \in DOMAIN s \cap DOMAIN t, s[i] < t[i],
               \A k \in 1 .. i - 1 : s[k] = t[k]
        PROVE  u < v
    <3>1. i \in Nat \ {0} /\ s[i] \in Int /\ t[i] \in Int
      BY <1>1
    <3>2. CASE i <= l
      <4>1. s[i] = t[i]
        BY <1>1, <3>1, <3>2
      <4> QED BY <2>5, <3>1, <4>1
    <3>3. CASE i > l + 1
      <4>1. l + 1 \in 1 .. i - 1
        BY <1>1, <3>1, <3>3
      <4>2. s[l + 1] = t[l + 1]
        BY <2>5, <4>1
      <4> QED BY <2>1, <4>2
    <3>4. CASE i = l + 1
      BY <2>1, <2>5, <3>4
    <3> QED BY <1>1, <3>1, <3>2, <3>3, <3>4
  <2>6. ASSUME Before(s, t) PROVE u < v
    <3>1. \E i \in DOMAIN s \cap DOMAIN t :
            s[i] < t[i] /\ \A k \in 1 .. i - 1 : s[k] = t[k]
      BY <2>3, <2>6 DEF Before, IsStrictPrefix
    <3> QED BY <2>5, <3>1
  <2>7. u - v < 0 <=> u < v
    OBVIOUS
  <2>8. s # t
    BY <1>4, <2>1
  <2> QED BY <2>4, <2>6, <2>7, <2>8
<1> QED BY <1>2, <1>3, <1>4

LEMMA BeforeIsStrict ==
  ASSUME NEW s \in Seq(Int)
  PROVE  ~Before(s, s)
BY DEF Before, IsStrictPrefix

\* The byte at a place, or 0 behind the end, and the place behind it.
ByteAt(s, i) == IF i > Len(s) THEN 0 ELSE ToLower(s[i])
PlaceBehind(s, i) == IF i > Len(s) THEN i ELSE i + 1
NextLetter(s, i) == ByteAt(s, Skip(s, i))
NextPlace(s, i) == PlaceBehind(s, Skip(s, i))

LEMMA AlnumLowers ==
  ASSUME NEW b, IsAlnum(b)
  PROVE  ToLower(b) \in Nat /\ ToLower(b) > 0
BY DEF IsAlnum, IsAlpha, ToLower

LEMMA NextIs ==
  ASSUME NEW s \in Seq(Int), NEW n, NEW P, PlainIs(s, n, P), NEW i \in 1 .. n + 1
  PROVE  /\ NextLetter(s, i) \in Nat /\ NextPlace(s, i) \in i .. n + 1
         /\ i <= n => NextPlace(s, i) > i
         /\ NextOrEnd(P[n], P[i - 1], NextLetter(s, i))
         /\ P[NextPlace(s, i) - 1] = IF NextLetter(s, i) = 0 THEN P[i - 1]
                                     ELSE Append(P[i - 1], NextLetter(s, i))
<1> DEFINE a == Skip(s, i)
<1>0. a = Skip(s, i) /\ n = Len(s) /\ P \in [0 .. n -> Seq(Int)]
  BY DEF PlainIs
<1> HIDE DEF a
<1>1. /\ a \in i .. n + 1 /\ P[a - 1] = P[i - 1]
      /\ a <= n => IsAlnum(s[a]) /\ P[a] = Append(P[i - 1], ToLower(s[a]))
  <2>1. SkippedTo(s, n, P, i, Skip(s, i))
    BY SkipIs
  <2> QED BY <1>0, <2>1 DEF SkippedTo
<1>2. n \in Nat /\ i - 1 \in 0 .. n /\ P[i - 1] \in Seq(Int) /\ P[n] \in Seq(Int)
  <2>1. n \in Nat
    BY <1>0
  <2>2. i - 1 \in 0 .. n /\ n \in 0 .. n
    BY <2>1
  <2> QED BY <1>0, <2>1, <2>2
<1>3. Continues(P[i - 1], P[n])
  BY <1>2, PlainGrows
<1>4. CASE a <= n
  <2>1. NextLetter(s, i) = ToLower(s[a]) /\ NextPlace(s, i) = a + 1
    <3>1. ~(a > Len(s))
      BY <1>0, <1>1, <1>2, <1>4
    <3> QED BY <1>0, <3>1 DEF NextLetter, NextPlace, ByteAt, PlaceBehind
  <2>2. ToLower(s[a]) \in Nat /\ ToLower(s[a]) > 0
    BY <1>1, <1>4, AlnumLowers
  <2>3. a \in 0 .. n /\ (a + 1) - 1 = a /\ P[a] = Append(P[i - 1], ToLower(s[a]))
    BY <1>1, <1>2, <1>4
  <2>4. Continues(P[a], P[n])
    BY <2>3, PlainGrows
  <2>5. Len(P[n]) > Len(P[i - 1]) /\ P[n][Len(P[i - 1]) + 1] = ToLower(s[a])
    <3> DEFINE p == P[i - 1]  w == P[n]  c == ToLower(s[a])  z == P[a]
    <3>1. Len(z) = Len(p) + 1 /\ z[Len(p) + 1] = c /\ Len(p) \in Nat
      BY <1>2, <2>2, <2>3
    <3>2. Len(w) \in Nat /\ Continues(z, w)
      BY <1>2, <2>4
    <3> HIDE DEF p, w, c, z
    <3>3. Len(p) + 1 \in 1 .. Len(z)
      BY <3>1
    <3>4. Len(w) > Len(p) /\ w[Len(p) + 1] = c
      BY <3>1, <3>2, <3>3 DEF Continues
    <3> QED BY <3>4 DEF p, w, c
  <2>6. NextOrEnd(P[n], P[i - 1], NextLetter(s, i))
    BY <1>3, <2>1, <2>2, <2>5 DEF NextOrEnd
  <2>7. P[NextPlace(s, i) - 1] = Append(P[i - 1], NextLetter(s, i))
    BY <2>1, <2>3
  <2> QED BY <1>1, <1>2, <1>4, <2>1, <2>2, <2>6, <2>7
<1>5. CASE a = n + 1
  <2>1. NextLetter(s, i) = 0 /\ NextPlace(s, i) = a
    BY <1>0, <1>2, <1>5 DEF NextLetter, NextPlace, ByteAt, PlaceBehind
  <2>2. P[n] = P[i - 1]
    BY <1>1, <1>2, <1>5
  <2>3. NextOrEnd(P[n], P[i - 1], 0)
    BY <1>3, <2>2 DEF NextOrEnd
  <2>4. ~(i <= n /\ a <= i)
    BY <1>2, <1>5
  <2>5. a \in i .. n + 1 /\ P[a - 1] = P[i - 1]
    BY <1>1
  <2> QED BY <2>1, <2>3, <2>4, <2>5
<1> QED BY <1>1, <1>2, <1>4, <1>5

\* r compares the letters and digits of two names.
ComparesAs(s, t, r) == r \in Int /\ (r = 0 <=> s = t) /\ (r < 0 <=> Before(s, t))

LEMMA Shrinking ==
  ASSUME NEW n \in Nat, NEW l \in Nat, NEW a \in 1 .. n + 1, NEW b \in 1 .. l + 1,
         NEW i \in a .. n + 1, NEW j \in b .. l + 1,
         a <= n => i > a, b <= l => j > b
  PROVE  /\ i \in 1 .. n + 1 /\ j \in 1 .. l + 1
         /\ a - 1 \in 0 .. n /\ b - 1 \in 0 .. l
         /\ (n + 1 - a) + (l + 1 - b) \in Nat
         /\ \/ a > n /\ b > l
            \/ (n + 1 - i) + (l + 1 - j) < (n + 1 - a) + (l + 1 - b)
OBVIOUS

LEMMA SqueezeTold ==
  ASSUME NEW x \in Seq(Int), NEW y \in Seq(Int)
  PROVE  ComparesAs(PlainOf(x), PlainOf(y), SqueezeCompare(x, y))
<1> DEFINE n == Len(x)  l == Len(y)
           D == (1 .. n + 1) \X (1 .. l + 1)
           u(d) == NextLetter(x, d[1])
           v(d) == NextLetter(y, d[2])
           Over(d) == d[1] > n /\ d[2] > l
           Stop == {d \in D : Over(d) \/ u(d) # v(d)}
           out == [d \in D |-> IF Over(d) THEN 0 ELSE u(d) - v(d)]
           next == [d \in D |-> <<NextPlace(x, d[1]), NextPlace(y, d[2])>>]
           m == [d \in D |-> (n + 1 - d[1]) + (l + 1 - d[2])]
           Is(f) ==
             f = [d \in D |->
                    IF Over(d) THEN 0 ELSE IF u(d) # v(d) THEN u(d) - v(d)
                    ELSE f[<<NextPlace(x, d[1]), NextPlace(y, d[2])>>]]
           It == CHOOSE f : Is(f)
<1>1. SqueezeCompare(x, y) = It[<<1, 1>>]
  BY DEF SqueezeCompare, NextLetter, NextPlace, ByteAt, PlaceBehind
<1>2. PICK P : PlainIs(x, n, P)
  BY PlainRun
<1>3. PICK Q : PlainIs(y, l, Q)
  BY PlainRun
<1>4. /\ n \in Nat /\ l \in Nat /\ P[0] = <<>> /\ Q[0] = <<>>
      /\ P[n] = PlainOf(x) /\ Q[l] = PlainOf(y)
      /\ P \in [0 .. n -> Seq(Int)] /\ Q \in [0 .. l -> Seq(Int)]
  BY <1>2, <1>3 DEF PlainIs
<1>4a. n \in Nat /\ l \in Nat
  BY <1>4
<1> HIDE DEF n, l
<1>5. ASSUME NEW d \in D
      PROVE  /\ u(d) \in Nat /\ NextPlace(x, d[1]) \in d[1] .. n + 1
             /\ d[1] <= n => NextPlace(x, d[1]) > d[1]
             /\ NextOrEnd(P[n], P[d[1] - 1], u(d))
             /\ P[NextPlace(x, d[1]) - 1] = IF u(d) = 0 THEN P[d[1] - 1]
                                            ELSE Append(P[d[1] - 1], u(d))
  <2>1. d[1] \in 1 .. n + 1
    OBVIOUS
  <2> QED BY <1>2, <2>1, NextIs
<1>6. ASSUME NEW d \in D
      PROVE  /\ v(d) \in Nat /\ NextPlace(y, d[2]) \in d[2] .. l + 1
             /\ d[2] <= l => NextPlace(y, d[2]) > d[2]
             /\ NextOrEnd(Q[l], Q[d[2] - 1], v(d))
             /\ Q[NextPlace(y, d[2]) - 1] = IF v(d) = 0 THEN Q[d[2] - 1]
                                            ELSE Append(Q[d[2] - 1], v(d))
  <2>1. d[2] \in 1 .. l + 1
    OBVIOUS
  <2> QED BY <1>3, <2>1, NextIs
<1>7. \A d \in D : /\ next[d] \in D /\ next[d] = <<NextPlace(x, d[1]), NextPlace(y, d[2])>>
                   /\ m[d] \in Nat /\ (Over(d) \/ m[next[d]] < m[d])
  <2> SUFFICES ASSUME NEW d \in D
               PROVE  /\ next[d] \in D
                      /\ next[d] = <<NextPlace(x, d[1]), NextPlace(y, d[2])>>
                      /\ m[d] \in Nat /\ (Over(d) \/ m[next[d]] < m[d])
    OBVIOUS
  <2> DEFINE i == NextPlace(x, d[1])  j == NextPlace(y, d[2])
  <2>1. /\ d[1] \in 1 .. n + 1 /\ d[2] \in 1 .. l + 1
        /\ i \in d[1] .. n + 1 /\ j \in d[2] .. l + 1
        /\ d[1] <= n => i > d[1]
        /\ d[2] <= l => j > d[2]
    BY <1>5, <1>6
  <2> HIDE DEF i, j
  <2>2. <<i, j>> \in D
    <3>1. i \in 1 .. n + 1 /\ j \in 1 .. l + 1
      <4> HIDE DEF D, Stop, out, next, m, Is, It, Over
      <4> QED BY <1>4a, <2>1, Shrinking
    <3> QED BY <3>1
  <2>3. m[d] = (n + 1 - d[1]) + (l + 1 - d[2]) /\ m[<<i, j>>] = (n + 1 - i) + (l + 1 - j)
    BY <2>2
  <2>4. next[d] = <<i, j>>
    BY DEF i, j
  <2>5. m[d] \in Nat /\ (Over(d) \/ m[<<i, j>>] < m[d])
    <3> HIDE DEF D, Stop, out, next, m
    <3> QED BY <1>4a, <2>1, <2>3, Shrinking
  <2> QED BY <2>2, <2>4, <2>5 DEF i, j
<1>8. /\ out \in [D -> Int] /\ next \in [D -> D] /\ m \in [D -> Nat]
      /\ \A d \in D : d \in Stop \/ m[next[d]] < m[d]
  <2>1. \A d \in D : out[d] \in Int
    BY <1>5, <1>6
  <2>2. \A d \in D : d \in Stop \/ m[next[d]] < m[d]
    BY <1>7
  <2> QED BY <1>7, <2>1, <2>2
<1>9. PICK f \in [D -> Int] : Rounds(D, Stop, out, next, f)
  <2> HIDE DEF D, Stop, out, next, m
  <2> QED BY <1>8, RoundsExist
<1>10. Is(f)
  <2>1. ASSUME NEW d \in D
        PROVE  f[d] = IF Over(d) THEN 0 ELSE IF u(d) # v(d) THEN u(d) - v(d)
                      ELSE f[<<NextPlace(x, d[1]), NextPlace(y, d[2])>>]
    <3>1. f[d] = IF d \in Stop THEN out[d] ELSE f[next[d]]
      <4> HIDE DEF Stop, out, next, D
      <4> QED BY <1>9 DEF Rounds
    <3>2. next[d] = <<NextPlace(x, d[1]), NextPlace(y, d[2])>>
      BY <1>7
    <3>3. d \in Stop <=> Over(d) \/ u(d) # v(d)
      OBVIOUS
    <3>4. out[d] = IF Over(d) THEN 0 ELSE u(d) - v(d)
      OBVIOUS
    <3> HIDE DEF Stop, out, next, D
    <3> QED BY <3>1, <3>2, <3>3, <3>4
  <2> QED BY <2>1
<1>11. Is(It)
  BY <1>10
<1>12. \A d \in D : It[d] = IF Over(d) THEN 0 ELSE IF u(d) # v(d) THEN u(d) - v(d)
                            ELSE It[<<NextPlace(x, d[1]), NextPlace(y, d[2])>>]
  <2> HIDE DEF It
  <2> QED BY <1>11
<1> HIDE DEF It
<1> DEFINE T == {d \in D : P[d[1] - 1] = Q[d[2] - 1] => ComparesAs(P[n], Q[l], It[d])}
<1>13. ASSUME NEW d \in D, \A e \in D : m[e] < m[d] => e \in T PROVE d \in T
  <2> SUFFICES ASSUME P[d[1] - 1] = Q[d[2] - 1]
               PROVE  ComparesAs(P[n], Q[l], It[d])
    OBVIOUS
  <2> DEFINE p == P[d[1] - 1]
  <2>1. /\ d[1] - 1 \in 0 .. n /\ d[2] - 1 \in 0 .. l /\ n \in 0 .. n /\ l \in 0 .. l
        /\ d[1] \in 1 .. n + 1 /\ d[2] \in 1 .. l + 1
    <3>1. d[1] \in 1 .. n + 1 /\ d[2] \in 1 .. l + 1
      OBVIOUS
    <3> HIDE DEF D, T, Stop, out, next, m
    <3> HIDE DEF Is, p, u, v, Over
    <3> QED BY <1>4a, <3>1
  <2>2. p \in Seq(Int) /\ P[n] \in Seq(Int) /\ Q[l] \in Seq(Int)
    BY <1>4, <2>1
  <2>3. u(d) \in Nat /\ v(d) \in Nat /\ NextOrEnd(P[n], p, u(d)) /\ NextOrEnd(Q[l], p, v(d))
    BY <1>5, <1>6
  <2>4. CASE Over(d)
    <3>1. d[1] - 1 = n /\ d[2] - 1 = l
      BY <1>4, <2>1, <2>4
    <3>2. P[n] = Q[l] /\ It[d] = 0
      BY <1>12, <2>4, <3>1
    <3> QED BY <2>2, <3>2, BeforeIsStrict DEF ComparesAs
  <2>5. CASE ~Over(d) /\ u(d) # v(d)
    <3>1. It[d] = u(d) - v(d)
      BY <1>12, <2>5
    <3>2. P[n] # Q[l] /\ (u(d) - v(d) < 0 <=> Before(P[n], Q[l]))
      <4> HIDE DEF p
      <4> QED BY <2>2, <2>3, <2>5, FirstDifference
    <3>3. u(d) - v(d) \in Int /\ u(d) - v(d) # 0
      BY <2>3, <2>5
    <3> QED BY <3>1, <3>2, <3>3 DEF ComparesAs
  <2>6. CASE ~Over(d) /\ u(d) = v(d)
    <3> DEFINE e == <<NextPlace(x, d[1]), NextPlace(y, d[2])>>
    <3>1. e \in D /\ m[e] < m[d]
      BY <1>7, <2>6
    <3>2. It[d] = It[e]
      BY <1>12, <2>6
    <3>3. P[e[1] - 1] = Q[e[2] - 1]
      BY <1>5, <1>6, <2>6
    <3> HIDE DEF e
    <3>4. e \in T
      BY <1>13, <3>1
    <3> QED BY <3>2, <3>3, <3>4
  <2> QED BY <2>4, <2>5, <2>6
<1>14. \A d \in D : d \in T
  <2> HIDE DEF T, m, D
  <2> QED BY <1>8, <1>13, HeightInduction
<1> DEFINE d == <<1, 1>>
<1>15. d \in D /\ P[d[1] - 1] = Q[d[2] - 1]
  BY <1>4
<1>16. ComparesAs(P[n], Q[l], It[d])
  BY <1>14, <1>15
<1> QED BY <1>1, <1>4, <1>16

-----------------------------------------------------------------------------
(* The order of names, and the search in a sorted list. *)
LEMMA FirstPlace ==
  ASSUME NEW t \in Seq(Int), NEW b, Count(t, b) = 1
  PROVE  MemChr(t, b, 1) \in 1 .. Len(t)
<1> DEFINE S == {i \in DOMAIN t : t[i] = b}
           I == {i \in 1 .. Len(t) : t[i] = b}
<1>1. Cardinality(S) = 1
  BY DEF Count, Quantify
<1>2. S # {}
  <2> HIDE DEF S
  <2> QED BY <1>1, FS_EmptySet
<1>3. I # {} /\ I \subseteq Int
  BY <1>2
<1>4. Min(I) \in I
  <2>1. 1 \in Int /\ \A i \in I : 1 <= i
    OBVIOUS
  <2> HIDE DEF I
  <2> QED BY <1>3, <2>1, MinExists
<1>5. MemChr(t, b, 1) = Min(I)
  BY <1>3 DEF MemChr, SelectInSubSeq
<1> QED BY <1>4, <1>5

LEMMA NamesTold ==
  ASSUME text \in Seq(Int)
  PROVE  SqueezeIsOrder
<1> SUFFICES ASSUME kind = "squeeze", Count(text, 0) = 1 PROVE SqueezeIsOrder
  BY DEF SqueezeIsOrder
<1> DEFINE cut == MemChr(text, 0, 1)
           x == SubSeq(text, 1, cut - 1)
           y == SubSeq(text, cut + 1, Len(text))
<1>1. cut \in 1 .. Len(text)
  BY FirstPlace
<1>2. x \in Seq(Int) /\ y \in Seq(Int)
  <2> HIDE DEF cut
  <2> QED BY <1>1
<1>3. ComparesAs(PlainOf(x), PlainOf(y), SqueezeCompare(x, y))
  <2> HIDE DEF x, y
  <2> QED BY <1>2, SqueezeTold
<1> HIDE DEF x, y
<1>4. /\ SqueezeCompare(x, y) = 0 <=> PlainOf(x) = PlainOf(y)
      /\ SqueezeCompare(x, y) < 0 <=> Before(PlainOf(x), PlainOf(y))
  BY <1>3 DEF ComparesAs
<1> QED BY <1>4 DEF SqueezeIsOrder, PlainOf, Before, x, y

Letters == 97 .. 122

LEMMA PlainLetter ==
  ASSUME NEW b \in 96 .. 122, NEW s, s = <<b>>
  PROVE  PlainOf(s) = IF b = 96 THEN <<>> ELSE s
<1>1. s \in Seq(Int) /\ Len(s) = 1 /\ s[1] = b
  OBVIOUS
<1>2. PICK P : PlainIs(s, 1, P)
  BY <1>1, PlainRun
<1>3. P[1] = Squeezed(s[1], P[1 - 1]) /\ P[0] = <<>> /\ P[1] = PlainOf(s)
  BY <1>2 DEF PlainIs
<1>4. P[1] = Squeezed(b, <<>>)
  <2>1. 1 - 1 = 0
    OBVIOUS
  <2> QED BY <1>1, <1>3, <2>1
<1>5. Squeezed(b, <<>>) = IF b = 96 THEN <<>> ELSE <<b>>
  BY DEF Squeezed, IsAlnum, IsAlpha, ToLower
<1> QED BY <1>3, <1>4, <1>5

LEMMA LettersCompared ==
  ASSUME NEW a \in Letters, NEW b \in 96 .. 105
  PROVE  /\ SqueezeCompare(<<b>>, <<a>>) \in Int
         /\ SqueezeCompare(<<b>>, <<a>>) = 0 <=> a = b
         /\ SqueezeCompare(<<b>>, <<a>>) < 0 <=> b < a
<1>1. ComparesAs(PlainOf(<<b>>), PlainOf(<<a>>), SqueezeCompare(<<b>>, <<a>>))
  <2>1. <<a>> \in Seq(Int) /\ <<b>> \in Seq(Int)
    BY DEF Letters
  <2> QED BY <2>1, SqueezeTold
<1>2. PlainOf(<<a>>) = <<a>>
  <2>1. a \in 96 .. 122 /\ a # 96
    BY DEF Letters
  <2> QED BY <2>1, PlainLetter
<1>2a. b \in 96 .. 122
  OBVIOUS
<1>3. CASE b = 96
  <2>1. PlainOf(<<b>>) = <<>>
    BY <1>2a, <1>3, PlainLetter
  <2>2. IsStrictPrefix(<<>>, <<a>>)
    BY DEF IsStrictPrefix, IsPrefix
  <2>3. Before(<<>>, <<a>>) /\ <<>> # <<a>> /\ a # b /\ b < a
    BY <1>3, <2>2 DEF Before, Letters
  <2> QED BY <1>1, <1>2, <2>1, <2>3 DEF ComparesAs
<1>4. CASE b # 96
  <2>1. PlainOf(<<b>>) = <<b>>
    BY <1>2a, <1>4, PlainLetter
  <2>2. <<b>> = <<a>> <=> a = b
    OBVIOUS
  <2>3. Before(<<b>>, <<a>>) <=> b < a
    <3> DEFINE s == <<b>>  t == <<a>>
    <3>1. /\ DOMAIN s = 1 .. 1 /\ DOMAIN t = 1 .. 1 /\ Len(s) = 1 /\ Len(t) = 1
          /\ s[1] = b /\ t[1] = a /\ s \in Seq(Int) /\ t \in Seq(Int)
      BY DEF Letters
    <3>2. ~IsStrictPrefix(s, t)
      <4> SUFFICES ASSUME IsPrefix(s, t) PROVE s = t
        BY DEF IsStrictPrefix
      <4>1. SubSeq(s, 1, Len(s)) = SubSeq(t, 1, Len(s))
        BY DEF IsPrefix
      <4> HIDE DEF s, t
      <4> QED BY <3>1, <4>1
    <3> HIDE DEF s, t
    <3>3. (\E i \in DOMAIN s \cap DOMAIN t : s[i] < t[i] /\ \A k \in 1 .. i - 1 : s[k] = t[k])
            <=> b < a
      <4>1. DOMAIN s \cap DOMAIN t = {1}
        BY <3>1
      <4>2. \A k \in 1 .. 1 - 1 : s[k] = t[k]
        OBVIOUS
      <4> QED BY <3>1, <4>1, <4>2
    <3> QED BY <3>2, <3>3 DEF Before, s, t
  <2> QED BY <1>1, <1>2, <2>1, <2>2, <2>3 DEF ComparesAs
<1> QED BY <1>3, <1>4

Ascends(n, t) == \A i, j \in 1 .. n : i < j => t[i] <= t[j]

LEMMA LettersAreInts == Letters \subseteq Int
BY DEF Letters

\* r is the place of b in the list t of one-letter names, or -1.
Found(t, b, r) ==
  IF \E k \in DOMAIN t : t[k] = b THEN r \in DOMAIN t /\ t[r] = b ELSE r = -1

LEMMA Halves ==
  ASSUME NEW n \in Nat, NEW i \in 1 .. n, NEW j \in 1 .. n
  PROVE  /\ (i + j) \div 2 \in 1 .. n
         /\ i + 1 < j => i < (i + j) \div 2 /\ (i + j) \div 2 < j
OBVIOUS

LEMMA NotBetween ==
  ASSUME NEW n \in Nat, NEW t \in [1 .. n -> Letters], NEW b \in 96 .. 105,
         Ascends(n, t),
         NEW i \in 0 .. n, NEW i2, i2 = i + 1,
         i = 0 \/ t[i] < b, i = n \/ b < t[i2], NEW r, r = -1
  PROVE  Found(t, b, r)
<1> SUFFICES ASSUME NEW k \in 1 .. n, t[k] = b PROVE FALSE
  BY DEF Found
<1>1. CASE k <= i
  <2>1. i \in 1 .. n
    BY <1>1
  <2>2. i # 0 /\ (k = i \/ k < i) /\ t[i] \in Letters /\ t[k] \in Letters
    BY <1>1, <2>1
  <2>3. t[i] \in Int /\ t[k] \in Int /\ b \in Int
    BY <2>2, LettersAreInts
  <2>4. k < i => t[k] <= t[i]
    BY <2>1 DEF Ascends
  <2> QED BY <2>2, <2>3, <2>4
<1>2. CASE k > i
  <2>1. i2 \in 1 .. n /\ i # n /\ (k = i2 \/ i2 < k)
    BY <1>2
  <2>2. t[i2] \in Letters /\ t[k] \in Letters
    BY <2>1
  <2>3. t[i2] \in Int /\ t[k] \in Int /\ b \in Int
    BY <2>2, LettersAreInts
  <2>4. i2 < k => t[i2] <= t[k]
    BY <2>1 DEF Ascends
  <2> QED BY <2>1, <2>3, <2>4
<1> QED BY <1>1, <1>2

LEMMA SearchTold ==
  ASSUME NEW n \in Nat \ {0}, NEW t \in [1 .. n -> Letters], NEW b \in 96 .. 105,
         Ascends(n, t),
         NEW alist, alist = [i \in 1 .. n |-> <<t[i]>>], Len(alist) = n, NEW s, s = <<b>>
  PROVE  Found(t, b, AliasSearch(alist, s))
<1> DEFINE D == (1 .. n) \X (1 .. n)
           Sign(i) == SqueezeCompare(s, alist[i])
           Mid(d) == (d[1] + d[2]) \div 2
           Done(d) == ~Apart(d[1], d[2])
           Stop == {d \in D : Done(d) \/ Sign(Mid(d)) = 0}
           Final(d) == IF Sign(d[1] + 1) = 0 THEN d[1] + 1 ELSE -1
           out == [d \in D |-> IF Done(d) THEN Final(d) ELSE Mid(d)]
           next == [d \in D |-> IF Sign(Mid(d)) > 0 THEN <<Mid(d), d[2]>>
                                ELSE <<d[1], Mid(d)>>]
           m == [d \in D |-> IF d[1] < d[2] THEN d[2] - d[1] ELSE 0]
           Is(f) ==
             f = [d \in D |->
                    IF Done(d) THEN Final(d)
                    ELSE IF Sign(Mid(d)) = 0 THEN Mid(d)
                    ELSE IF Sign(Mid(d)) > 0 THEN f[<<Mid(d), d[2]>>]
                    ELSE f[<<d[1], Mid(d)>>]]
           It == CHOOSE f : Is(f)
           r == AliasSearch(alist, s)
<1>1. /\ Sign(1) < 0 => r = -1
      /\ Sign(1) = 0 => r = 1
      /\ ~(Sign(1) < 0) /\ Sign(1) # 0 /\ Sign(n) > 0 => r = -1
      /\ ~(Sign(1) < 0) /\ Sign(1) # 0 /\ ~(Sign(n) > 0) /\ Sign(n) = 0 => r = n
      /\ ~(Sign(1) < 0) /\ Sign(1) # 0 /\ ~(Sign(n) > 0) /\ Sign(n) # 0
           => r = It[<<1, n>>]
  <2> DEFINE first == Sign(1)  last == Sign(n)  found == It[<<1, n>>]
  <2>1. r = IF first < 0 THEN -1 ELSE IF first = 0 THEN 1
            ELSE IF last > 0 THEN -1 ELSE IF last = 0 THEN n ELSE found
    BY SMTT(60) DEF AliasSearch
  <2> HIDE DEF first, last, found, r
  <2>2. /\ first < 0 => r = -1
        /\ first = 0 => r = 1
        /\ ~(first < 0) /\ first # 0 /\ last > 0 => r = -1
        /\ ~(first < 0) /\ first # 0 /\ ~(last > 0) /\ last = 0 => r = n
        /\ ~(first < 0) /\ first # 0 /\ ~(last > 0) /\ last # 0 => r = found
    BY <2>1
  <2> QED BY <2>2 DEF first, last, found
<1>2. ASSUME NEW i \in 1 .. n
      PROVE  /\ Sign(i) \in Int /\ t[i] \in Int /\ (Sign(i) = 0 <=> t[i] = b)
             /\ (Sign(i) < 0 <=> b < t[i]) /\ (Sign(i) > 0 <=> t[i] < b)
  <2>1. t[i] \in Letters /\ alist[i] = <<t[i]>>
    OBVIOUS
  <2>2. /\ Sign(i) \in Int /\ (Sign(i) = 0 <=> t[i] = b) /\ (Sign(i) < 0 <=> b < t[i])
    BY <2>1, LettersCompared
  <2> HIDE DEF Sign
  <2>3. t[i] \in Int
    BY <2>1, SMTT(30) DEF Letters
  <2> QED BY <2>2, <2>3
<1> HIDE DEF Sign
<1>3. n \in Nat /\ 1 \in 1 .. n /\ n \in 1 .. n /\ DOMAIN t = 1 .. n
  OBVIOUS
<1>4. ASSUME NEW d \in D
      PROVE  /\ d[1] \in 1 .. n /\ d[2] \in 1 .. n /\ Mid(d) \in 1 .. n
             /\ ~Done(d) => d[1] < Mid(d) /\ Mid(d) < d[2]
  <2>1. d[1] \in 1 .. n /\ d[2] \in 1 .. n
    OBVIOUS
  <2> QED BY <1>3, <2>1, Halves DEF Apart
<1>5. ASSUME NEW d \in D
      PROVE  next[d] \in D /\ m[d] \in Nat /\ (Done(d) \/ m[next[d]] < m[d])
  <2> DEFINE k == Mid(d)
  <2>1. /\ d[1] \in 1 .. n /\ d[2] \in 1 .. n /\ k \in 1 .. n
        /\ ~Done(d) => d[1] < k /\ k < d[2]
    BY <1>4
  <2>2. next[d] = <<k, d[2]>> \/ next[d] = <<d[1], k>>
    OBVIOUS
  <2> HIDE DEF k
  <2>3. <<k, d[2]>> \in D /\ <<d[1], k>> \in D
    BY <2>1
  <2>4. /\ m[d] = IF d[1] < d[2] THEN d[2] - d[1] ELSE 0
        /\ m[<<k, d[2]>>] = IF k < d[2] THEN d[2] - k ELSE 0
        /\ m[<<d[1], k>>] = IF d[1] < k THEN k - d[1] ELSE 0
    BY <2>3
  <2>5. next[d] \in D
    BY <2>2, <2>3
  <2> HIDE DEF D, m, next, Done
  <2>6. /\ m[d] \in Nat
        /\ ~Done(d) => m[<<k, d[2]>>] < m[d] /\ m[<<d[1], k>>] < m[d]
    BY <1>3, <2>1, <2>4
  <2> QED BY <2>2, <2>5, <2>6
<1>6. /\ out \in [D -> Int] /\ next \in [D -> D] /\ m \in [D -> Nat]
      /\ \A d \in D : d \in Stop \/ m[next[d]] < m[d]
  <2>1. ASSUME NEW d \in D PROVE out[d] \in Int
    <3>1. d[1] + 1 \in Int /\ Mid(d) \in Int /\ -1 \in Int
      BY <1>4
    <3> QED BY <3>1
  <2>2. \A d \in D : d \in Stop \/ m[next[d]] < m[d]
    BY <1>5
  <2>3. next = [d \in D |-> next[d]] /\ m = [d \in D |-> m[d]]
    OBVIOUS
  <2>4. next \in [D -> D] /\ m \in [D -> Nat]
    <3> HIDE DEF next, m, D
    <3> QED BY <1>5, <2>3
  <2> QED BY <2>1, <2>2, <2>4
<1>7. PICK f \in [D -> Int] : Rounds(D, Stop, out, next, f)
  <2> HIDE DEF D, Stop, out, next, m
  <2> QED BY <1>6, RoundsExist
<1>8. Is(f)
  <2>1. ASSUME NEW d \in D
        PROVE  f[d] = IF Done(d) THEN Final(d)
                      ELSE IF Sign(Mid(d)) = 0 THEN Mid(d)
                      ELSE IF Sign(Mid(d)) > 0 THEN f[<<Mid(d), d[2]>>]
                      ELSE f[<<d[1], Mid(d)>>]
    <3>1. f[d] = IF d \in Stop THEN out[d] ELSE f[next[d]]
      <4> HIDE DEF Stop, out, next, D
      <4> QED BY <1>7 DEF Rounds
    <3>2. next[d] = IF Sign(Mid(d)) > 0 THEN <<Mid(d), d[2]>> ELSE <<d[1], Mid(d)>>
      OBVIOUS
    <3>3. d \in Stop <=> Done(d) \/ Sign(Mid(d)) = 0
      OBVIOUS
    <3>4. out[d] = IF Done(d) THEN Final(d) ELSE Mid(d)
      OBVIOUS
    <3> HIDE DEF Stop, out, next, D, Done, Last, Mid
    <3> QED BY <3>1, <3>2, <3>3, <3>4
  <2> QED BY <2>1
<1>9. Is(It)
  BY <1>8
<1>10. \A d \in D : It[d] = IF Done(d) THEN Final(d)
                            ELSE IF Sign(Mid(d)) = 0 THEN Mid(d)
                            ELSE IF Sign(Mid(d)) > 0 THEN It[<<Mid(d), d[2]>>]
                            ELSE It[<<d[1], Mid(d)>>]
  <2> HIDE DEF It
  <2> QED BY <1>9
<1> HIDE DEF It
<1> DEFINE T == {d \in D : d[1] < d[2] /\ t[d[1]] < b /\ b < t[d[2]] => Found(t, b, It[d])}
<1>11. ASSUME NEW d \in D, \A e \in D : m[e] < m[d] => e \in T PROVE d \in T
  <2> SUFFICES ASSUME d[1] < d[2], t[d[1]] < b, b < t[d[2]]
               PROVE  Found(t, b, It[d])
    OBVIOUS
  <2> DEFINE k == Mid(d)
  <2>1. /\ d[1] \in 1 .. n /\ d[2] \in 1 .. n /\ k \in 1 .. n
        /\ ~Done(d) => d[1] < k /\ k < d[2]
    BY <1>4
  <2>2. CASE Done(d)
    <3> DEFINE i == d[1]
    <3>1. d[2] = i + 1 /\ i \in 0 .. n /\ t[i] < b /\ b < t[i + 1] /\ i + 1 \in 1 .. n
      BY <2>1, <2>2 DEF Apart
    <3>2. Sign(i + 1) # 0
      BY <1>2, <3>1
    <3>3. It[d] = -1
      BY <1>10, <2>2, <3>2
    <3> DEFINE i2 == i + 1
    <3>4. i2 = i + 1 /\ b < t[i2]
      BY <3>1
    <3> HIDE DEF i, i2
    <3> QED BY <1>3, <3>1, <3>3, <3>4, NotBetween
  <2>3. CASE ~Done(d) /\ Sign(k) = 0
    <3>1. It[d] = k
      BY <1>10, <2>3
    <3>2. t[k] = b
      BY <1>2, <2>1, <2>3
    <3> HIDE DEF k
    <3> QED BY <1>3, <2>1, <3>1, <3>2 DEF Found
  <2>4. CASE ~Done(d) /\ Sign(k) > 0
    <3> DEFINE e == <<k, d[2]>>
    <3>1. Sign(k) # 0 /\ t[k] < b
      BY <1>2, <2>1, <2>4
    <3>2. It[d] = It[e]
      BY <1>10, <2>4, <3>1
    <3>3. e \in D /\ e = next[d] /\ e[1] < e[2] /\ t[e[1]] < b /\ b < t[e[2]]
      BY <2>1, <2>4, <3>1
    <3>4. m[e] < m[d]
      BY <1>5, <2>4, <3>3
    <3> HIDE DEF e, m
    <3>5. e \in T
      BY <1>11, <3>3, <3>4
    <3> QED BY <3>2, <3>3, <3>5
  <2>5. CASE ~Done(d) /\ ~(Sign(k) > 0) /\ Sign(k) # 0
    <3> DEFINE e == <<d[1], k>>
    <3>1. b < t[k]
      <4>1. Sign(k) \in Int /\ (Sign(k) < 0 <=> b < t[k])
        BY <1>2, <2>1
      <4> QED BY <2>5, <4>1
    <3>2. It[d] = It[e]
      BY <1>10, <2>5
    <3>3. e \in D /\ e = next[d] /\ e[1] < e[2] /\ t[e[1]] < b /\ b < t[e[2]]
      BY <2>1, <2>5, <3>1
    <3>4. m[e] < m[d]
      BY <1>5, <2>5, <3>3
    <3> HIDE DEF e, m
    <3>5. e \in T
      BY <1>11, <3>3, <3>4
    <3> QED BY <3>2, <3>3, <3>5
  <2> QED BY <2>2, <2>3, <2>4, <2>5
<1>12. \A d \in D : d \in T
  <2> HIDE DEF T, m, D
  <2> QED BY <1>6, <1>11, HeightInduction
<1>13. CASE Sign(1) < 0
  <2>1. r = -1 /\ b < t[1]
    BY <1>1, <1>2, <1>3, <1>13
  <2>2. 0 \in 0 .. n /\ 1 = 0 + 1
    OBVIOUS
  <2>3. Found(t, b, r)
    <3> HIDE DEF r
    <3> QED BY <1>3, <2>1, <2>2, NotBetween
  <2> QED BY <2>3
<1>14. CASE Sign(1) = 0
  <2>1. r = 1 /\ t[1] = b
    BY <1>1, <1>2, <1>3, <1>14
  <2> QED BY <1>3, <2>1 DEF Found
<1>15. CASE ~(Sign(1) < 0) /\ Sign(1) # 0
  <2>1. t[1] < b
    <3>1. Sign(1) \in Int /\ (Sign(1) > 0 <=> t[1] < b)
      BY <1>2, <1>3
    <3> QED BY <1>15, <3>1
  <2>2. CASE Sign(n) > 0
    <3>1. r = -1
      BY <1>1, <1>15, <2>2
    <3>2. t[n] < b
      BY <1>2, <1>3, <2>2
    <3>3. n \in 0 .. n
      OBVIOUS
    <3> DEFINE i2 == n + 1
    <3>4. i2 = n + 1
      OBVIOUS
    <3>5. Found(t, b, r)
      <4> HIDE DEF r, i2
      <4> QED BY <1>3, <3>1, <3>2, <3>3, <3>4, NotBetween
    <3> QED BY <3>5
  <2>3. CASE ~(Sign(n) > 0) /\ Sign(n) = 0
    <3>1. r = n /\ t[n] = b
      BY <1>1, <1>2, <1>3, <1>15, <2>3
    <3> QED BY <1>3, <3>1 DEF Found
  <2>4. CASE ~(Sign(n) > 0) /\ Sign(n) # 0
    <3> DEFINE d == <<1, n>>
    <3>1. r = It[d]
      BY <1>1, <1>15, <2>4
    <3>2. b < t[n]
      <4>1. Sign(n) \in Int /\ (Sign(n) < 0 <=> b < t[n])
        BY <1>2, <1>3
      <4> QED BY <2>4, <4>1
    <3>3. n # 1
      BY <1>2, <1>3, <2>1, <3>2
    <3>4. d \in D /\ d[1] < d[2] /\ t[d[1]] < b /\ b < t[d[2]]
      BY <1>3, <2>1, <3>2, <3>3
    <3> HIDE DEF d
    <3> QED BY <1>12, <3>1, <3>4
  <2> QED BY <2>2, <2>3, <2>4
<1> QED BY <1>13, <1>14, <1>15

LEMMA SearchTells ==
  ASSUME kind = "alias" => text \in Seq(Letters)
  PROVE  SearchFinds
<1> DEFINE alist == [i \in DOMAIN text |-> <<text[i]>>]
           Right(b) == LET i == AliasSearch(alist, <<b>>)
                       IN IF b \in ToSet(text) THEN i > 0 /\ alist[i] = <<b>> ELSE i = -1
           Sorted == Ascends(Len(text), text)
<1>1. ASSUME kind = "alias", text # <<>>, Sorted, NEW b \in 96 .. 105 PROVE Right(b)
  <2> DEFINE s == <<b>>  i == AliasSearch(alist, s)  n == Len(text)
  <2>1. text \in Seq(Letters)
    BY <1>1
  <2>2. n \in Nat \ {0} /\ text \in [1 .. n -> Letters] /\ DOMAIN text = 1 .. n
    BY <1>1, <2>1
  <2>3. alist = [k \in 1 .. n |-> <<text[k]>>]
    BY <2>2
  <2>4. Len(alist) = n
    <3>1. \A k \in 1 .. n : <<text[k]>> \in Seq(Letters)
      <4>1. \A k \in 1 .. n : text[k] \in Letters
        BY <2>2
      <4> QED BY <4>1
    <3>2. [k \in 1 .. n |-> <<text[k]>>] \in [1 .. n -> Seq(Letters)]
      BY <3>1
    <3> HIDE DEF alist, n
    <3> QED BY <2>2, <2>3, <3>2
  <2>5. Found(text, b, i)
    <3>1. s = <<b>> /\ Sorted
      BY <1>1
    <3> HIDE DEF s, n, alist
    <3> QED BY <1>1, <2>2, <2>3, <2>4, <3>1, SearchTold
  <2>6. b \in ToSet(text) <=> \E k \in DOMAIN text : text[k] = b
    BY DEF ToSet
  <2>7. \A k \in DOMAIN text : k > 0 /\ (text[k] = b => alist[k] = <<b>>)
    BY <2>2
  <2> HIDE DEF i, alist, n
  <2>8. IF b \in ToSet(text) THEN i > 0 /\ alist[i] = <<b>> ELSE i = -1
    <3>1. CASE \E k \in DOMAIN text : text[k] = b
      BY <2>5, <2>6, <2>7, <3>1 DEF Found
    <3>2. CASE ~\E k \in DOMAIN text : text[k] = b
      BY <2>5, <2>6, <3>2 DEF Found
    <3> QED BY <3>1, <3>2
  <2> QED BY <2>8 DEF i, s
<1>2. kind = "alias" /\ text # <<>> /\ Sorted => \A b \in 96 .. 105 : Right(b)
  BY <1>1
<1> QED BY <1>2 DEF SearchFinds, IsSorted, Ascends
-----------------------------------------------------------------------------
(* UTF-8.  The scan takes its bytes one after the other. *)
Utf8States == [left : 0 .. 5, failures : Nat, utf8count : Int]
Utf8Run(s, base, x) ==
  /\ x \in [0 .. Len(s) -> Utf8States]
  /\ x[0] = base /\ x[Len(s)] = FoldLeft(Utf8Step, base, s)
  /\ \A k \in 1 .. Len(s) : x[k] = Utf8Step(x[k - 1], s[k])

LEMMA FollowType == \A b \in Byte : /\ Follow(b) \in 0 .. 5
                                    /\ Follow(b) > 0 <=> b \in 192 .. 253
  BY SMT DEF Follow, Byte

LEMMA SevenBit == \A b \in Byte : b < 128 => Follow(b) = 0 /\ ~IsContinuation(b)
  BY SMT DEF Follow, IsContinuation, Byte

LEMMA Utf8StepIs ==
  ASSUME NEW b \in Byte, NEW st \in Utf8States
  PROVE  /\ Utf8Step(st, b) \in Utf8States
         /\ Utf8Step(st, b).left = IF st.left = 0 THEN Follow(b)
                                   ELSE IF IsContinuation(b) THEN st.left - 1 ELSE 0
         /\ Utf8Step(st, b).failures
              = st.failures + IF \/ st.left = 0 /\ b >= 128 /\ Follow(b) = 0
                                 \/ st.left # 0 /\ ~IsContinuation(b) THEN 1 ELSE 0
         /\ Utf8Step(st, b).utf8count
              = st.utf8count + IF st.left = 0 THEN IF Follow(b) > 0 THEN 1 ELSE 0
                               ELSE IF IsContinuation(b) THEN 0 ELSE -1
<1> DEFINE l == st.left  f == st.failures  c == st.utf8count  y == Utf8Step(st, b)
           w == Follow(b)  more == IsContinuation(b)
           Rec(i, j, k) == [left |-> i, failures |-> j, utf8count |-> k]
<1>1. b \in Int /\ w \in 0 .. 5 /\ (b < 128 => w = 0)
  <2>1. b \in 0 .. 255
    BY DEF Byte
  <2> QED BY <2>1, FollowType
<1>2. l \in 0 .. 5 /\ f \in Nat /\ c \in Int /\ st = Rec(l, f, c)
  BY DEF Utf8States
<1>3. \A i, j, k : Rec(i, j, k).left = i /\ Rec(i, j, k).failures = j
                   /\ Rec(i, j, k).utf8count = k
  OBVIOUS
<1>4. \A i \in 0 .. 5, j \in Nat, k \in Int : Rec(i, j, k) \in Utf8States
  BY DEF Utf8States
<1> DEFINE Goal == /\ y \in Utf8States
                   /\ y.left = IF l = 0 THEN w ELSE IF more THEN l - 1 ELSE 0
                   /\ y.failures = f + IF \/ l = 0 /\ b >= 128 /\ w = 0
                                          \/ l # 0 /\ ~more THEN 1 ELSE 0
                   /\ y.utf8count = c + IF l = 0 THEN IF w > 0 THEN 1 ELSE 0
                                        ELSE IF more THEN 0 ELSE -1
<1> SUFFICES Goal
  OBVIOUS
<1>5. y = IF l = 0 THEN IF b < 128 THEN Rec(l, f, c)
                        ELSE IF w > 0 THEN Rec(w, f, c + 1) ELSE Rec(l, f + 1, c)
          ELSE IF more THEN Rec(l - 1, f, c) ELSE Rec(0, f + 1, c - 1)
  <2>1. \A i, j, k :
          Utf8Step(Rec(i, j, k), b)
            = IF i = 0 THEN IF b < 128 THEN Rec(i, j, k)
                            ELSE IF w > 0 THEN Rec(w, j, k + 1) ELSE Rec(i, j + 1, k)
              ELSE IF more THEN Rec(i - 1, j, k) ELSE Rec(0, j + 1, k - 1)
    <3> SUFFICES ASSUME NEW i, NEW j, NEW k
                 PROVE  Utf8Step(Rec(i, j, k), b)
                          = IF i = 0 THEN IF b < 128 THEN Rec(i, j, k)
                                          ELSE IF w > 0 THEN Rec(w, j, k + 1) ELSE Rec(i, j + 1, k)
                            ELSE IF more THEN Rec(i - 1, j, k) ELSE Rec(0, j + 1, k - 1)
      OBVIOUS
    <3> DEFINE r == Rec(i, j, k)
    <3>1. r.left = i /\ r.failures = j /\ r.utf8count = k
      OBVIOUS
    <3>2. /\ \A v : [r EXCEPT !.left = v] = Rec(v, j, k)
          /\ \A v : [r EXCEPT !.failures = v] = Rec(i, v, k)
      OBVIOUS
    <3>3. \A u, v : [r EXCEPT !.left = u, !.utf8count = v] = Rec(u, j, v)
      <4> SUFFICES ASSUME NEW u, NEW v PROVE [r EXCEPT !.left = u, !.utf8count = v] = Rec(u, j, v)
        OBVIOUS
      <4>1. [r EXCEPT !.left = u, !.utf8count = v] = [[r EXCEPT !.left = u] EXCEPT !.utf8count = v]
        OBVIOUS
      <4>2. [r EXCEPT !.left = u] = Rec(u, j, k)
        BY <3>2
      <4>3. [Rec(u, j, k) EXCEPT !.utf8count = v] = Rec(u, j, v)
        OBVIOUS
      <4> QED BY <4>1, <4>2, <4>3, Zenon
    <3> QED BY <3>1, <3>2, <3>3, Zenon DEF Utf8Step
  <2> HIDE DEF Rec, l, f, c, w, more
  <2>2. y = Utf8Step(Rec(l, f, c), b)
    BY <1>2
  <2> QED BY <2>1, <2>2
<1> HIDE DEF Rec, l, f, c, y, w, more
<1>7. CASE l = 0 /\ b < 128
  <2>1. y = Rec(l, f, c)
    BY <1>1, <1>5, <1>7
  <2>2. l \in 0 .. 5 /\ f \in Nat /\ c \in Int
    BY <1>1, <1>2, <1>7
  <2>3. y \in Utf8States /\ y.left = l /\ y.failures = f /\ y.utf8count = c
    BY <1>3, <1>4, <2>1, <2>2
  <2> QED BY <1>1, <1>2, <1>7, <2>3
<1>8. CASE l = 0 /\ ~(b < 128) /\ w > 0
  <2>1. y = Rec(w, f, c + 1)
    BY <1>1, <1>5, <1>8
  <2>2. w \in 0 .. 5 /\ f \in Nat /\ c + 1 \in Int
    BY <1>1, <1>2, <1>8
  <2>3. y \in Utf8States /\ y.left = w /\ y.failures = f /\ y.utf8count = c + 1
    BY <1>3, <1>4, <2>1, <2>2
  <2> QED BY <1>1, <1>2, <1>8, <2>3
<1>9. CASE l = 0 /\ ~(b < 128) /\ ~(w > 0)
  <2>1. y = Rec(l, f + 1, c)
    BY <1>1, <1>5, <1>9
  <2>2. l \in 0 .. 5 /\ f + 1 \in Nat /\ c \in Int
    BY <1>1, <1>2, <1>9
  <2>3. y \in Utf8States /\ y.left = l /\ y.failures = f + 1 /\ y.utf8count = c
    BY <1>3, <1>4, <2>1, <2>2
  <2> QED BY <1>1, <1>2, <1>9, <2>3
<1>10. CASE l # 0 /\ more
  <2>1. y = Rec(l - 1, f, c)
    BY <1>1, <1>5, <1>10
  <2>2. l - 1 \in 0 .. 5 /\ f \in Nat /\ c \in Int
    BY <1>1, <1>2, <1>10
  <2>3. y \in Utf8States /\ y.left = l - 1 /\ y.failures = f /\ y.utf8count = c
    BY <1>3, <1>4, <2>1, <2>2
  <2> QED BY <1>1, <1>2, <1>10, <2>3
<1>11. CASE l # 0 /\ ~more
  <2>1. y = Rec(0, f + 1, c - 1)
    BY <1>1, <1>5, <1>11
  <2>2. 0 \in 0 .. 5 /\ f + 1 \in Nat /\ c - 1 \in Int
    BY <1>1, <1>2, <1>11
  <2>3. y \in Utf8States /\ y.left = 0 /\ y.failures = f + 1 /\ y.utf8count = c - 1
    BY <1>3, <1>4, <2>1, <2>2
  <2> QED BY <1>1, <1>2, <1>11, <2>3
<1> QED BY <1>7, <1>8, <1>9, <1>10, <1>11

LEMMA Utf8Rounds ==
  ASSUME NEW s \in Seq(Byte), NEW base \in Utf8States
  PROVE  \E x : Utf8Run(s, base, x)
<1> DEFINE X == Utf8States  n == Len(s)  D == Byte
           Is(iter) ==
             iter = [z \in SUBSET DOMAIN s |->
                       IF z = {} THEN base ELSE Utf8Step(iter[z \ {Max(z)}], s[Max(z)])]
           It == CHOOSE iter : Is(iter)
           H == [p \in D \X X |-> Utf8Step(p[2], p[1])]
<1>1. FoldLeft(Utf8Step, base, s) = It[DOMAIN s]
  BY DEF FoldLeft, MapThenFoldSet
<1>2. n \in Nat /\ DOMAIN s = 1 .. n /\ (\A i \in 1 .. n : s[i] \in D) /\ base \in X
  OBVIOUS
<1>4. H \in [D \X X -> X] /\ \A b \in D, st \in X : H[<<b, st>>] = Utf8Step(st, b)
  BY Utf8StepIs
<1> HIDE DEF H, X, n, D
<1>5. PICK f \in [SUBSET DOMAIN s -> X] : FoldingOver(s, base, H, f)
  BY <1>2, <1>4, FoldOverExists
<1>6. Is(f)
  <2>1. ASSUME NEW z \in SUBSET DOMAIN s
        PROVE  f[z] = IF z = {} THEN base ELSE Utf8Step(f[z \ {Max(z)}], s[Max(z)])
    <3>1. f[z] = IF z = {} THEN base ELSE H[<<s[Max(z)], f[z \ {Max(z)}]>>]
      BY <1>5 DEF FoldingOver
    <3>2. z # {} => Max(z) \in DOMAIN s /\ z \ {Max(z)} \in SUBSET DOMAIN s
      BY <1>2, PlacesOf
    <3> QED BY <1>2, <1>4, <3>1, <3>2
  <2> QED BY <2>1
<1>7. Is(It)
  BY <1>6
<1>8. FoldedBy(s, base, H, X, It)
  <2> HIDE DEF It
  <2>1. \A z \in SUBSET DOMAIN s : z # {} => s[Max(z)] \in D
    BY <1>2, PlacesOf
  <2> QED BY <1>4, <1>7, <2>1 DEF FoldedBy
<1> HIDE DEF It
<1>9. PICK x \in [0 .. n -> X] : FoldRun(n, s, base, H, x, It[DOMAIN s])
  BY <1>2, <1>4, <1>8, FoldRounds
<1>10. \A k \in 1 .. n : x[k] = Utf8Step(x[k - 1], s[k])
  <2> SUFFICES ASSUME NEW k \in 1 .. n PROVE x[k] = Utf8Step(x[k - 1], s[k])
    OBVIOUS
  <2>1. k - 1 \in 0 .. n
    BY <1>2
  <2> QED BY <1>2, <1>4, <1>9, <2>1 DEF FoldRun
<1> QED BY <1>1, <1>9, <1>10 DEF FoldRun, X, n, Utf8Run

(* Places that a lead byte among the first k announces. *)
Reached(s, k, p) == \E j \in 1 .. k : s[j] \in 192 .. 253 /\ p \in j + 1 .. j + Follow(s[j])
Leads(s, k) == {j \in 1 .. k : s[j] \in 192 .. 253}
FineAt(s, p) == s[p] < 254 /\ (IsContinuation(s[p]) <=> Reached(s, Len(s), p))

(* Behind each byte: no failure means that all was right so far, and then the *)
(* announced places go on for as long as left says.                           *)
Utf8Told(s, base, st, k) ==
  /\ st.failures = 0 <=> \A p \in 1 .. k : FineAt(s, p)
  /\ st.failures = 0 =>
       /\ st.utf8count = base.utf8count + Cardinality(Leads(s, k))
       /\ \A p \in Nat : p > k => (Reached(s, k, p) <=> p <= k + st.left)

LEMMA LeadsGrow ==
  ASSUME NEW s, NEW k \in Nat
  PROVE  /\ Cardinality(Leads(s, k)) \in Nat
         /\ Cardinality(Leads(s, k + 1))
              = Cardinality(Leads(s, k)) + IF s[k + 1] \in 192 .. 253 THEN 1 ELSE 0
<1>1. IsFiniteSet(Leads(s, k)) /\ Cardinality(Leads(s, k)) \in Nat
  <2>1. IsFiniteSet(1 .. k) /\ Leads(s, k) \subseteq 1 .. k
    BY FS_Interval DEF Leads
  <2> QED BY <2>1, FS_Subset, FS_CardinalityType
<1>2. k + 1 \notin Leads(s, k)
  BY DEF Leads
<1>3. CASE s[k + 1] \in 192 .. 253
  <2>1. Leads(s, k + 1) = Leads(s, k) \cup {k + 1}
    BY <1>3 DEF Leads
  <2> QED BY <1>1, <1>2, <1>3, <2>1, FS_AddElement
<1>4. CASE s[k + 1] \notin 192 .. 253
  <2>1. Leads(s, k + 1) = Leads(s, k)
    BY <1>4 DEF Leads
  <2> QED BY <1>1, <1>4, <2>1
<1> QED BY <1>1, <1>3, <1>4

(* Only what stands before a place announces it. *)
LEMMA ReachedBefore ==
  ASSUME NEW s \in Seq(Byte), NEW k \in 0 .. Len(s) - 1
  PROVE  /\ Reached(s, Len(s), k + 1) <=> Reached(s, k, k + 1)
         /\ \A p \in Nat : p > k + 1 =>
              (Reached(s, k + 1, p) <=> \/ Reached(s, k, p)
                                        \/ /\ s[k + 1] \in 192 .. 253
                                           /\ p <= k + 1 + Follow(s[k + 1]))
<1>1. Len(s) \in Nat /\ (\A j \in 1 .. Len(s) : s[j] \in Byte /\ Follow(s[j]) \in 0 .. 5)
  <2>1. Len(s) \in Nat /\ \A j \in 1 .. Len(s) : s[j] \in Byte
    OBVIOUS
  <2> QED BY <2>1, FollowType
<1>2. 1 .. k \subseteq 1 .. Len(s) /\ 1 .. k + 1 = 1 .. k \cup {k + 1}
  BY <1>1
<1>3. Reached(s, Len(s), k + 1) <=> Reached(s, k, k + 1)
  BY <1>1, <1>2 DEF Reached
<1>4. ASSUME NEW p \in Nat, p > k + 1
      PROVE  Reached(s, k + 1, p) <=> \/ Reached(s, k, p)
                                      \/ /\ s[k + 1] \in 192 .. 253
                                         /\ p <= k + 1 + Follow(s[k + 1])
  <2>1. p \in k + 1 + 1 .. k + 1 + Follow(s[k + 1]) <=> p <= k + 1 + Follow(s[k + 1])
    <3>1. k \in Nat /\ k + 1 \in 1 .. Len(s)
      BY <1>1
    <3>2. Follow(s[k + 1]) \in 0 .. 5
      BY <1>1, <3>1
    <3> QED BY <1>4, <3>1, <3>2
  <2>2. Reached(s, k + 1, p) <=> \/ Reached(s, k, p)
                                 \/ /\ s[k + 1] \in 192 .. 253
                                    /\ p \in k + 1 + 1 .. k + 1 + Follow(s[k + 1])
    BY <1>2 DEF Reached
  <2> QED BY <2>1, <2>2
<1> QED BY <1>3, <1>4

LEMMA Utf8StepTells ==
  ASSUME NEW s \in Seq(Byte), NEW base \in Utf8States, NEW k \in 0 .. Len(s) - 1,
         NEW st \in Utf8States, Utf8Told(s, base, st, k)
  PROVE  Utf8Told(s, base, Utf8Step(st, s[k + 1]), k + 1)
<1> DEFINE b == s[k + 1]  y == Utf8Step(st, b)
           far(p) == Reached(s, k, p)
<1>1. k \in Nat /\ b \in Byte /\ Follow(b) \in 0 .. 5 /\ (Follow(b) > 0 <=> b \in 192 .. 253)
  <2>1. k \in Nat /\ b \in Byte
    OBVIOUS
  <2> QED BY <2>1, FollowType
<1>2. st.left \in 0 .. 5 /\ st.failures \in Nat /\ st.utf8count \in Int
      /\ st \in [left : Int, failures : Int, utf8count : Int] /\ base.utf8count \in Int
  BY DEF Utf8States
<1>3. FineAt(s, k + 1) <=> b < 254 /\ (IsContinuation(b) <=> far(k + 1))
  BY ReachedBefore DEF FineAt
<1>4. \A p \in Nat : p > k + 1 => (Reached(s, k + 1, p) <=>
                                      \/ far(p)
                                      \/ b \in 192 .. 253 /\ p <= k + 1 + Follow(b))
  BY ReachedBefore
<1>5. k \in Nat /\ 1 .. k + 1 = 1 .. k \cup {k + 1}
  OBVIOUS
<1>6. /\ Cardinality(Leads(s, k)) \in Nat
      /\ Cardinality(Leads(s, k + 1))
           = Cardinality(Leads(s, k)) + IF b \in 192 .. 253 THEN 1 ELSE 0
  BY <1>1, LeadsGrow
<1>7. CASE st.failures # 0
  <2>1. y.failures # 0
    <3>1. y.failures = st.failures + IF \/ st.left = 0 /\ b >= 128 /\ Follow(b) = 0
                                        \/ st.left # 0 /\ ~IsContinuation(b) THEN 1 ELSE 0
      BY <1>1, Utf8StepIs
    <3> QED BY <1>2, <1>7, <3>1
  <2>2. ~\A p \in 1 .. k : FineAt(s, p)
    BY <1>7 DEF Utf8Told
  <2> QED BY <1>5, <2>1, <2>2 DEF Utf8Told
<1>8. CASE st.failures = 0
  <2>1. /\ \A p \in 1 .. k : FineAt(s, p)
        /\ st.utf8count = base.utf8count + Cardinality(Leads(s, k))
        /\ \A p \in Nat : p > k => (far(p) <=> p <= k + st.left)
    BY <1>8 DEF Utf8Told
  <2>2. /\ y.left = IF st.left = 0 THEN Follow(b) ELSE IF IsContinuation(b) THEN st.left - 1 ELSE 0
        /\ y.failures = IF \/ st.left = 0 /\ b >= 128 /\ Follow(b) = 0
                           \/ st.left # 0 /\ ~IsContinuation(b) THEN 1 ELSE 0
        /\ y.utf8count = st.utf8count + IF st.left = 0 THEN IF Follow(b) > 0 THEN 1 ELSE 0
                                        ELSE IF IsContinuation(b) THEN 0 ELSE -1
    <3>1. /\ y.left = IF st.left = 0 THEN Follow(b) ELSE IF IsContinuation(b) THEN st.left - 1 ELSE 0
          /\ y.failures = st.failures + IF \/ st.left = 0 /\ b >= 128 /\ Follow(b) = 0
                                           \/ st.left # 0 /\ ~IsContinuation(b) THEN 1 ELSE 0
          /\ y.utf8count = st.utf8count + IF st.left = 0 THEN IF Follow(b) > 0 THEN 1 ELSE 0
                                          ELSE IF IsContinuation(b) THEN 0 ELSE -1
      BY <1>1, Utf8StepIs
    <3> QED BY <1>8, <3>1
  <2>3. IsContinuation(b) <=> b \in 128 .. 191
    BY DEF IsContinuation
  <2>4. b \in 0 .. 255
    BY <1>1 DEF Byte
  <2>5. far(k + 1) <=> st.left > 0
    BY <1>1, <1>2, <2>1
  <2> HIDE DEF y, b, far
  <2>6. y.failures = 0 <=> FineAt(s, k + 1)
    BY <1>1, <1>2, <1>3, <2>2, <2>3, <2>4, <2>5
  <2>7. (\A p \in 1 .. k + 1 : FineAt(s, p)) <=> FineAt(s, k + 1)
    BY <1>5, <2>1
  <2>8. y.failures = 0 =>
          y.utf8count = base.utf8count + Cardinality(Leads(s, k + 1))
    <3> DEFINE n == Cardinality(Leads(s, k))  m == Cardinality(Leads(s, k + 1))
               c == st.utf8count  d == base.utf8count  e == y.utf8count
               l == st.left  w == Follow(b)
    <3> SUFFICES ASSUME y.failures = 0 PROVE e = d + m
      OBVIOUS
    <3>1. n \in Nat /\ m = n + IF b \in 192 .. 253 THEN 1 ELSE 0
      BY <1>6
    <3>2. c \in Int /\ d \in Int /\ c = d + n
      BY <1>2, <2>1
    <3>3. e = c + IF l = 0 THEN IF w > 0 THEN 1 ELSE 0
                  ELSE IF IsContinuation(b) THEN 0 ELSE -1
      BY <2>2
    <3>4. w \in 0 .. 5 /\ (w > 0 <=> b \in 192 .. 253)
      BY <1>1
    <3>5. l # 0 => b \in 128 .. 191
      BY <1>2, <2>2, <2>3, <2>4
    <3> HIDE DEF n, m, c, d, e, l, w
    <3> QED BY <2>3, <2>4, <3>1, <3>2, <3>3, <3>4, <3>5
  <2>9. ASSUME y.failures = 0, NEW p \in Nat, p > k + 1
        PROVE  Reached(s, k + 1, p) <=> p <= k + 1 + y.left
    <3>1. Reached(s, k + 1, p) <=> far(p) \/ (b \in 192 .. 253 /\ p <= k + 1 + Follow(b))
      BY <1>4, <2>9
    <3>2. far(p) <=> p <= k + st.left
      BY <1>5, <2>1, <2>9
    <3> DEFINE l == st.left  w == Follow(b)  m == y.left
    <3>3. w \in 0 .. 5 /\ (w > 0 <=> b \in 192 .. 253) /\ l \in 0 .. 5
      BY <1>1, <1>2
    <3>4. m = IF l = 0 THEN w ELSE IF IsContinuation(b) THEN l - 1 ELSE 0
      BY <2>2
    <3>5. l # 0 => b \in 128 .. 191
      BY <1>2, <2>2, <2>3, <2>4, <2>9
    <3>6. p \in Nat /\ p > k + 1 /\ k \in Nat
      BY <1>5, <2>9
    <3> HIDE DEF l, w, m
    <3>7. CASE l = 0
      <4>1. ~far(p) /\ m = w
        BY <2>3, <2>4, <3>2, <3>3, <3>4, <3>6, <3>7 DEF l
      <4>2. Reached(s, k + 1, p) <=> w > 0 /\ p <= k + 1 + w
        BY <3>1, <3>3, <4>1 DEF w
      <4>3. w > 0 /\ p <= k + 1 + w <=> p <= k + 1 + m
        BY <3>3, <3>6, <4>1
      <4> QED BY <4>2, <4>3 DEF m
    <3>8. CASE l # 0
      <4>1. m = l - 1 /\ b \notin 192 .. 253
        BY <2>3, <2>4, <3>3, <3>4, <3>5, <3>8
      <4>2. Reached(s, k + 1, p) <=> p <= k + l
        BY <3>1, <3>2, <4>1 DEF l
      <4>3. p <= k + l <=> p <= k + 1 + m
        BY <3>3, <3>6, <4>1
      <4> QED BY <4>2, <4>3 DEF m
    <3> QED BY <3>7, <3>8
  <2> QED BY <2>6, <2>7, <2>8, <2>9 DEF Utf8Told, y, b
<1> QED BY <1>7, <1>8

LEMMA Utf8Tells ==
  ASSUME NEW s \in Seq(Byte), NEW base \in Utf8States, base.left = 0, base.failures = 0,
         NEW x, Utf8Run(s, base, x)
  PROVE  \A k \in 0 .. Len(s) : Utf8Told(s, base, x[k], k)
<1> DEFINE n == Len(s)  T == {k \in 0 .. n : Utf8Told(s, base, x[k], k)}
<1>1. n \in Nat
  OBVIOUS
<1>2. Utf8Told(s, base, x[0], 0)
  <2>1. x[0] = base /\ 1 .. 0 = {} /\ base.utf8count \in Int
    BY DEF Utf8Run, Utf8States
  <2>2. Leads(s, 0) = {} /\ Cardinality({}) = 0
    BY <2>1, FS_EmptySet DEF Leads
  <2>3. \A p : ~Reached(s, 0, p)
    BY <2>1 DEF Reached
  <2>4. \A p \in Nat : p > 0 => ~(p <= 0 + base.left)
    OBVIOUS
  <2>5. base.utf8count = base.utf8count + Cardinality(Leads(s, 0))
    <3> DEFINE d == base.utf8count  e == Cardinality(Leads(s, 0))
    <3>1. d \in Int /\ e = 0
      BY <2>1, <2>2
    <3> HIDE DEF d, e
    <3>2. d = d + e
      BY <3>1
    <3> QED BY <3>2 DEF d, e
  <2>6. Utf8Told(s, base, base, 0)
    BY <2>1, <2>3, <2>4, <2>5 DEF Utf8Told
  <2> QED BY <2>1, <2>6
<1>3. ASSUME NEW k \in 0 .. n - 1, Utf8Told(s, base, x[k], k)
      PROVE  Utf8Told(s, base, x[k + 1], k + 1)
  <2>1. k \in 0 .. n /\ k + 1 \in 1 .. n /\ (k + 1) - 1 = k
    BY <1>1
  <2>2. x[k] \in Utf8States /\ x[k + 1] = Utf8Step(x[k], s[k + 1])
    BY <2>1 DEF Utf8Run
  <2> QED BY <1>3, <2>2, Utf8StepTells
<1>4. 0 \in T /\ \A k \in 0 .. n - 1 : k \in T => k + 1 \in T
  BY <1>1, <1>2, <1>3
<1> HIDE DEF T
<1>5. \A k \in 0 .. n : k \in T
  BY <1>1, <1>4, UpTo
<1> QED BY <1>5 DEF T

(* A byte order mark is taken off, and has neither 0xfe nor 0xff. *)
LEMMA BehindMarkIs ==
  ASSUME NEW q \in Seq(Byte)
  PROVE  /\ BehindMark(q) \in Seq(Byte)
         /\ IsPrefix(BOM8, q) =>
              /\ Len(q) = Len(BehindMark(q)) + 3 /\ Len(BehindMark(q)) \in Nat
              /\ q[1] = 239 /\ q[2] = 187 /\ q[3] = 191
              /\ \A i \in 1 .. Len(BehindMark(q)) : BehindMark(q)[i] = q[i + 3]
         /\ ~IsPrefix(BOM8, q) => BehindMark(q) = q
<1>1. CASE ~IsPrefix(BOM8, q)
  BY <1>1 DEF BehindMark
<1>2. CASE IsPrefix(BOM8, q)
  <2> DEFINE n == Len(q)  s == SubSeq(q, 4, n)
  <2>1. Len(BOM8) = 3 /\ BOM8 \in Seq(Byte) /\ BOM8[1] = 239 /\ BOM8[2] = 187 /\ BOM8[3] = 191
    BY DEF BOM8, Byte
  <2>2. n \in Nat /\ n >= 3
    BY <1>2, <2>1 DEF IsPrefix
  <2>3. \A i \in 1 .. 3 : SubSeq(BOM8, 1, 3)[i] = BOM8[i] /\ SubSeq(q, 1, 3)[i] = q[i]
    BY <2>1, <2>2
  <2>4. SubSeq(BOM8, 1, 3) = SubSeq(q, 1, 3)
    BY <1>2, <2>1 DEF IsPrefix
  <2>5. q[1] = 239 /\ q[2] = 187 /\ q[3] = 191
    <3>1. 1 \in 1 .. 3 /\ 2 \in 1 .. 3 /\ 3 \in 1 .. 3
      OBVIOUS
    <3> QED BY <2>1, <2>3, <2>4, <3>1
  <2>6. s \in Seq(Byte) /\ Len(s) = n - 3 /\ \A i \in 1 .. n - 3 : s[i] = q[i + 3]
    <3>1. 4 \in 1 .. n + 1 /\ n \in 0 .. n
      BY <2>2
    <3>2. s \in Seq(Byte) /\ Len(s) = n - 4 + 1 /\ \A i \in 1 .. n - 4 + 1 : s[i] = q[4 + i - 1]
      <4>1. 4 \in Int /\ n \in Int /\ \A i \in 4 .. n : q[i] \in Byte
        BY <2>2
      <4>2. /\ s \in Seq(Byte) /\ Len(s) = IF 4 <= n THEN n - 4 + 1 ELSE 0
            /\ \A i \in 1 .. n - 4 + 1 : s[i] = q[4 + i - 1]
        BY <4>1, SubSeqProperties
      <4> HIDE DEF s
      <4> HIDE DEF n
      <4> QED BY <2>2, <4>2
    <3> HIDE DEF s
    <3>3. n - 4 + 1 = n - 3 /\ \A i \in 1 .. n - 3 : 4 + i - 1 = i + 3
      BY <2>2
    <3> QED BY <3>2, <3>3
  <2>7. BehindMark(q) = s
    BY <1>2 DEF BehindMark
  <2> HIDE DEF s, n
  <2>8. n = Len(s) + 3 /\ Len(s) \in Nat
    BY <2>2, <2>6
  <2> QED BY <1>2, <2>5, <2>6, <2>7, <2>8 DEF n
<1> QED BY <1>1, <1>2

LEMMA CountZero ==
  ASSUME NEW q \in Seq(Byte), NEW b
  PROVE  /\ Count(q, b) \in Nat
         /\ Count(q, b) = 0 <=> \A i \in DOMAIN q : q[i] # b
<1> DEFINE S == {i \in DOMAIN q : q[i] = b}
<1>1. IsFiniteSet(S)
  <2>1. IsFiniteSet(DOMAIN q)
    <3>1. Len(q) \in Nat /\ DOMAIN q = 1 .. Len(q)
      OBVIOUS
    <3>2. IsFiniteSet(1 .. Len(q))
      BY <3>1, FS_Interval
    <3> QED BY <3>1, <3>2
  <2> QED BY <2>1, FS_Subset
<1>2. Count(q, b) = Cardinality(S)
  BY DEF Count, Quantify
<1>3. Cardinality(S) \in Nat /\ (Cardinality(S) = 0 <=> S = {})
  BY <1>1, FS_CardinalityType, FS_EmptySet
<1> QED BY <1>2, <1>3

LEMMA BomBonusType ==
  ASSUME NEW size \in Nat, NEW q \in Nat
  PROVE  BomBonus(size, q) \in Nat
<1> DEFINE S == {k \in 1 .. 2 * size :
                   q * k <= size \/ (q * k - size) * (q * k - size) <= q * q * size}
<1>1. IsFiniteSet(1 .. 2 * size)
  <2>1. 1 \in Int /\ 2 * size \in Int
    OBVIOUS
  <2> QED BY <2>1, FS_Interval
<1>2. Cardinality(S) \in Nat
  <2>1. S \subseteq 1 .. 2 * size
    OBVIOUS
  <2> HIDE DEF S
  <2> QED BY <1>1, <2>1, FS_Subset, FS_CardinalityType
<1> QED BY <1>2 DEF BomBonus

(* What the strict test accepts, for every sample. *)
LEMMA Utf8ExactTold ==
  ASSUME text \in Seq(Byte), Options \subseteq OptionSets
  PROVE  Utf8Exact
<1> DEFINE bom == IsPrefix(BOM8, text)
           s == IF bom THEN SubSeq(text, 4, Len(text)) ELSE text
           Reach(i) == i + 1 .. i + Follow(s[i])
           lead == {i \in DOMAIN s : s[i] \in 192 .. 253}
           wellFormed == \A i \in DOMAIN s :
             /\ s[i] < 254
             /\ IsContinuation(s[i]) <=> \E j \in lead : i \in Reach(j)
           finished == \A i \in lead : Reach(i) \subseteq DOMAIN s
           bonus == IF bom THEN BomBonus(Len(text), 10) ELSE 0
           chars == Cardinality(lead) + bonus
           base == [left |-> 0, failures |-> 0, utf8count |-> bonus]
           end == Utf8Scan(text)
           n == Len(s)
<1>1. s = BehindMark(text)
  BY DEF BehindMark
<1>2. s \in Seq(Byte)
  BY <1>1, BehindMarkIs
<1>3. bonus \in Nat
  <2>1. Len(text) \in Nat /\ 10 \in Nat
    OBVIOUS
  <2>2. BomBonus(Len(text), 10) \in Nat
    BY <2>1, BomBonusType
  <2> QED BY <2>2
<1>4. /\ base \in Utf8States /\ base.left = 0 /\ base.failures = 0
      /\ base.utf8count = bonus
  <2> HIDE DEF bonus
  <2> QED BY <1>3 DEF Utf8States
<1>5. end = FoldLeft(Utf8Step, base, s)
  BY <1>1 DEF Utf8Scan
<1>6. n \in Nat /\ DOMAIN s = 1 .. n /\ n \in 0 .. n /\ (\A i \in 1 .. n : s[i] \in Byte)
  <2> HIDE DEF s
  <2> QED BY <1>2
<1> HIDE DEF s, base, bonus, bom, end
<1>7. PICK x : Utf8Run(s, base, x)
  BY <1>2, <1>4, Utf8Rounds
<1>8. end \in Utf8States /\ Utf8Told(s, base, end, n)
  <2>1. end = x[n] /\ x[n] \in Utf8States
    BY <1>5, <1>6, <1>7 DEF Utf8Run
  <2> QED BY <1>2, <1>4, <1>6, <1>7, <2>1, Utf8Tells
<1>9. lead = Leads(s, n)
  BY <1>6 DEF Leads
<1>10. \A p : Reached(s, n, p) <=> \E j \in lead : p \in Reach(j)
  BY <1>6 DEF Reached
<1>11. wellFormed <=> end.failures = 0
  BY <1>6, <1>8, <1>10 DEF Utf8Told, FineAt
<1>12. \A i \in 1 .. n : Follow(s[i]) \in 0 .. 5
  BY <1>6, FollowType
<1>13. /\ end.left \in 0 .. 5 /\ end.failures \in Nat /\ end.utf8count \in Int
  BY <1>8 DEF Utf8States
<1>14. Cardinality(lead) \in Nat
  BY <1>6, <1>9, LeadsGrow
<1>15. ASSUME end.failures = 0
       PROVE  end.utf8count = chars /\ (finished <=> end.left = 0)
  <2>1. /\ end.utf8count = bonus + Cardinality(lead)
        /\ \A p \in Nat : p > n => (Reached(s, n, p) <=> p <= n + end.left)
    BY <1>4, <1>8, <1>9, <1>15 DEF Utf8Told
  <2>2. end.utf8count = chars
    BY <1>3, <1>14, <2>1
  <2>3. ASSUME end.left = 0, NEW i \in lead, NEW p \in Reach(i), p \notin 1 .. n
        PROVE  FALSE
    <3>1. i \in 1 .. n /\ Follow(s[i]) \in 0 .. 5
      BY <1>6, <1>12
    <3>2. p \in Nat /\ p > n
      BY <1>6, <2>3, <3>1
    <3>3. Reached(s, n, p)
      BY <1>10
    <3> QED BY <1>6, <2>1, <2>3, <3>2, <3>3
  <2>4. ASSUME end.left # 0 PROVE ~finished
    <3>1. n + 1 \in Nat /\ n + 1 > n /\ n + 1 <= n + end.left
      BY <1>6, <1>13, <2>4
    <3>2. Reached(s, n, n + 1)
      BY <2>1, <3>1
    <3>3. PICK j \in lead : n + 1 \in Reach(j)
      BY <1>10, <3>2
    <3>4. n + 1 \notin DOMAIN s
      BY <1>6
    <3> QED BY <3>3, <3>4
  <2>5. finished <=> end.left = 0
    BY <1>6, <2>3, <2>4
  <2> QED BY <2>2, <2>5
<1>16. wellFormed => Count(text, 254) = 0 /\ Count(text, 255) = 0
  <2> SUFFICES ASSUME wellFormed PROVE \A i \in DOMAIN text : text[i] # 254 /\ text[i] # 255
    BY CountZero
  <2>1. \A i \in 1 .. n : s[i] # 254 /\ s[i] # 255
    BY <1>6 DEF Byte
  <2>2. CASE ~bom
    BY <1>1, <1>6, <2>1, <2>2, BehindMarkIs DEF bom
  <2>3. CASE bom
    <3>1. /\ Len(text) = n + 3 /\ text[1] = 239 /\ text[2] = 187 /\ text[3] = 191
          /\ \A i \in 1 .. n : s[i] = text[i + 3]
      BY <1>1, <2>3, BehindMarkIs DEF bom
    <3>2. DOMAIN text = 1 .. n + 3
      BY <3>1
    <3>3. ASSUME NEW i \in 1 .. n + 3 PROVE text[i] # 254 /\ text[i] # 255
      <4>1. CASE i \in 1 .. 3
        <5>1. i = 1 \/ i = 2 \/ i = 3
          BY <4>1
        <5> QED BY <3>1, <5>1
      <4>2. CASE i \notin 1 .. 3
        <5>1. i - 3 \in 1 .. n /\ (i - 3) + 3 = i
          BY <1>6, <4>2
        <5>2. s[i - 3] = text[i]
          BY <3>1, <5>1
        <5> QED BY <2>1, <5>1, <5>2
      <4> QED BY <4>1, <4>2
    <3> QED BY <3>2, <3>3
  <2> QED BY <2>2, <2>3
<1>17. ASSUME NEW o \in Options PROVE o.min_chars \in Nat /\ o.tolerance \in Nat
  <2>1. o.min_chars \in Nat /\ o.tolerance \in 0 .. 500
    BY DEF OptionSets
  <2>2. \A t \in 0 .. 500 : t \in Nat
    OBVIOUS
  <2> QED BY <2>1, <2>2, Zenon
<1> DEFINE E == EolSurface(BehindMark(text))
           Fails(o) == \/ Count(text, 254) > 0
                       \/ Count(text, 255) > 0
                       \/ end.failures > 0
                       \/ end.left # 0 /\ o.strict
                       \/ end.utf8count < o.min_chars
<1>18. ASSUME NEW o \in Options
       PROVE  IsValidUtf8(text, o) = IF Fails(o) THEN Refused ELSE Accepted({E})
  BY Zenon DEF IsValidUtf8, end
<1>19. Refused.accepted = FALSE /\ \A surface : Accepted(surface).accepted = TRUE
  BY DEF Refused, Accepted
<1>20. Count(text, 254) \in Nat /\ Count(text, 255) \in Nat
  BY CountZero
<1> HIDE DEF wellFormed, finished, chars, lead, Reach, E, Fails
<1>21. ASSUME NEW o \in Options
       PROVE  /\ IsValidUtf8(text, o).accepted
                   <=> /\ wellFormed /\ (o.strict => finished)
                       /\ chars >= o.min_chars
              /\ IsValidUtf8(text, o).accepted
                   => LooksLikeUtf8(text, o) = IsValidUtf8(text, o)
  <2> DEFINE yes == /\ wellFormed /\ (o.strict => finished)
                    /\ chars >= o.min_chars
  <2>1. o.min_chars \in Nat /\ o.tolerance \in Nat
    BY <1>17
  <2>2. CASE yes
    <3>1. IsValidUtf8(text, o) = Accepted({E})
      <4>1. end.failures = 0 /\ end.utf8count = chars /\ (o.strict => end.left = 0)
        BY <1>11, <1>15, <2>2
      <4>2. chars \in Int /\ chars >= o.min_chars
        BY <1>13, <2>2, <4>1
      <4>3. ~Fails(o)
        BY <1>16, <2>1, <2>2, <4>1, <4>2 DEF Fails
      <4> QED BY <1>18, <4>3
    <3>2. LooksLikeUtf8(text, o) = Accepted({E})
      <4>1. end.failures + (IF end.left # 0 /\ o.strict THEN 2 ELSE 0) = 0
        BY <1>11, <1>15, <2>2
      <4>2. ~(0 * 1000 > o.tolerance * end.utf8count)
        <5>1. end.utf8count \in Nat
          BY <1>11, <1>13, <1>15, <2>1, <2>2
        <5>2. \A a, c \in Nat : a * c >= 0 /\ ~(0 * 1000 > a * c)
          OBVIOUS
        <5> QED BY <2>1, <5>1, <5>2
      <4>3. {E} \cup {} = {E}
        OBVIOUS
      <4> DEFINE open == end.left # 0 /\ o.strict
                 failures == end.failures + IF open THEN 2 ELSE 0
      <4>4. LooksLikeUtf8(text, o)
              = IF failures * 1000 > o.tolerance * end.utf8count THEN Refused
                ELSE Accepted({E} \cup IF failures > 0 THEN {"bin"} ELSE {})
        BY Zenon DEF LooksLikeUtf8, end, E
      <4>5. failures = 0 /\ ~(0 > 0)
        BY <4>1
      <4> HIDE DEF failures
      <4> QED BY <4>2, <4>3, <4>4, <4>5, Zenon
    <3> QED BY <1>19, <2>2, <3>1, <3>2
  <2>3. CASE ~yes
    <3>1. IsValidUtf8(text, o) = Refused
      <4>1. CASE end.failures = 0
        <5>1. wellFormed /\ end.utf8count = chars /\ (finished <=> end.left = 0)
          BY <1>11, <1>15, <4>1
        <5>2. (end.left # 0 /\ o.strict) \/ ~(chars >= o.min_chars)
          BY <2>3, <5>1
        <5>3. chars \in Int
          BY <1>13, <5>1
        <5>4. Fails(o)
          BY <2>1, <5>1, <5>2, <5>3 DEF Fails
        <5> QED BY <1>18, <5>4
      <4>2. CASE end.failures # 0
        <5>1. Fails(o)
          BY <1>13, <4>2 DEF Fails
        <5> QED BY <1>18, <5>1
      <4> QED BY <4>1, <4>2
    <3> QED BY <1>19, <2>3, <3>1
  <2> QED BY <2>2, <2>3
<1> QED BY <1>21 DEF Utf8Exact, wellFormed, finished, chars, lead, Reach, s, bonus, bom

(* Two runs side by side: that of a text, and that of its end beginning anew *)
(* behind a 7bit character.                                                  *)
EndOf(s, i, t) ==
  i \in 0 .. Len(s) /\ Len(t) = Len(s) - i /\ \A k \in 1 .. Len(t) : t[k] = s[k + i]
Beside(x, i, z, n) ==
  \A m \in 0 .. n : /\ x[i + m].left = z[m].left
                    /\ x[i + m].failures = x[i].failures + z[m].failures
                    /\ x[i + m].utf8count = x[i].utf8count + z[m].utf8count

LEMMA SideBySide ==
  ASSUME NEW s \in Seq(Byte), NEW t \in Seq(Byte), NEW i, EndOf(s, i, t),
         NEW zero \in Utf8States, zero.failures = 0, zero.utf8count = 0,
         NEW x, Utf8Run(s, zero, x), NEW z, Utf8Run(t, zero, z), x[i].left = zero.left
  PROVE  Beside(x, i, z, Len(t))
<1> DEFINE Like(m) == /\ x[i + m].left = z[m].left
                      /\ x[i + m].failures = x[i].failures + z[m].failures
                      /\ x[i + m].utf8count = x[i].utf8count + z[m].utf8count
           n == Len(t)  T == {m \in 0 .. n : Like(m)}
<1>1. /\ n \in Nat /\ i \in Nat /\ Len(s) = n + i /\ i \in 0 .. Len(s)
      /\ \A k \in 1 .. n : t[k] = s[k + i]
  <2> DEFINE l == Len(s)
  <2>1. l \in Nat /\ n \in Nat /\ i \in 0 .. l /\ n = l - i
    BY DEF EndOf
  <2>2. \A k \in 1 .. n : t[k] = s[k + i]
    BY DEF EndOf
  <2> HIDE DEF l, n
  <2>3. i \in Nat /\ l = n + i
    BY <2>1
  <2> QED BY <2>1, <2>2, <2>3 DEF l
<1>2. \A m \in 0 .. n : /\ i + m \in 0 .. Len(s) /\ x[i + m] \in Utf8States
                        /\ z[m] \in Utf8States
  <2> SUFFICES ASSUME NEW m \in 0 .. n
               PROVE  i + m \in 0 .. Len(s) /\ x[i + m] \in Utf8States /\ z[m] \in Utf8States
    OBVIOUS
  <2>1. i + m \in 0 .. Len(s)
    BY <1>1
  <2> QED BY <2>1 DEF Utf8Run
<1>3. \A st \in Utf8States : st.left \in 0 .. 5 /\ st.failures \in Nat /\ st.utf8count \in Int
  BY DEF Utf8States
<1>4. x[i] \in Utf8States
  BY <1>1 DEF Utf8Run
<1>5. 0 \in T
  <2>1. z[0] = zero /\ i + 0 = i /\ 0 \in 0 .. n
    BY <1>1 DEF Utf8Run
  <2>2. x[i].failures \in Nat /\ x[i].utf8count \in Int
    BY <1>3, <1>4
  <2> QED BY <2>1, <2>2
<1>6. ASSUME NEW m \in 0 .. n - 1, Like(m) PROVE Like(m + 1)
  <2> DEFINE b == t[m + 1]  st == x[i + m]  sz == z[m]
             more == IsContinuation(b)
             w == Follow(b)
             fails(l) == IF \/ l = 0 /\ b >= 128 /\ w = 0
                            \/ l # 0 /\ ~more THEN 1 ELSE 0
             begun(l) == IF l = 0 THEN IF w > 0 THEN 1 ELSE 0
                         ELSE IF more THEN 0 ELSE -1
             goes(l) == IF l = 0 THEN w ELSE IF more THEN l - 1 ELSE 0
  <2>1. /\ m \in 0 .. n /\ m + 1 \in 1 .. n /\ (m + 1) - 1 = m /\ i + (m + 1) \in 1 .. Len(s)
        /\ (i + (m + 1)) - 1 = i + m /\ (m + 1) + i = i + (m + 1)
    <3>1. m \in Nat /\ m + 1 <= n
      BY <1>1
    <3> HIDE DEF n
    <3> QED BY <1>1, <3>1
  <2>2. b = s[i + (m + 1)] /\ b \in Byte
    BY <1>1, <2>1
  <2>3. st \in Utf8States /\ sz \in Utf8States
    BY <1>2, <2>1
  <2>4. z[m + 1] = Utf8Step(sz, b)
    BY <2>1 DEF Utf8Run
  <2>5. x[i + (m + 1)] = Utf8Step(st, b)
    <3>1. x[i + (m + 1)] = Utf8Step(x[(i + (m + 1)) - 1], s[i + (m + 1)])
      BY <2>1 DEF Utf8Run
    <3> QED BY <2>1, <2>2, <3>1
  <2>6. /\ z[m + 1].left = goes(sz.left)
        /\ z[m + 1].failures = sz.failures + fails(sz.left)
        /\ z[m + 1].utf8count = sz.utf8count + begun(sz.left)
    <3>1. /\ Utf8Step(sz, b).left = goes(sz.left)
          /\ Utf8Step(sz, b).failures = sz.failures + fails(sz.left)
          /\ Utf8Step(sz, b).utf8count = sz.utf8count + begun(sz.left)
      <4> HIDE DEF b, sz
      <4> QED BY <2>2, <2>3, Utf8StepIs
    <3> QED BY <2>4, <3>1
  <2>7. /\ x[i + (m + 1)].left = goes(st.left)
        /\ x[i + (m + 1)].failures = st.failures + fails(st.left)
        /\ x[i + (m + 1)].utf8count = st.utf8count + begun(st.left)
    <3>1. /\ Utf8Step(st, b).left = goes(st.left)
          /\ Utf8Step(st, b).failures = st.failures + fails(st.left)
          /\ Utf8Step(st, b).utf8count = st.utf8count + begun(st.left)
      <4> HIDE DEF b, st
      <4> QED BY <2>2, <2>3, Utf8StepIs
    <3> QED BY <2>5, <3>1
  <2>8. fails(sz.left) \in {0, 1} /\ begun(sz.left) \in {-1, 0, 1}
    OBVIOUS
  <2>9. /\ st.left = sz.left
        /\ st.failures = x[i].failures + sz.failures
        /\ st.utf8count = x[i].utf8count + sz.utf8count
    BY <1>6
  <2> HIDE DEF fails, begun, goes
  <2>10. x[i + (m + 1)].left = z[m + 1].left
    BY <2>6, <2>7, <2>9
  <2>11. x[i + (m + 1)].failures = x[i].failures + z[m + 1].failures
    <3> DEFINE a == x[i].failures  c == sz.failures  d == fails(sz.left)
    <3>1. a \in Nat /\ c \in Nat /\ d \in {0, 1}
      BY <1>3, <1>4, <2>3, <2>8
    <3>2. x[i + (m + 1)].failures = (a + c) + d /\ z[m + 1].failures = c + d
      BY <2>6, <2>7, <2>9
    <3> HIDE DEF a, c, d
    <3>3. (a + c) + d = a + (c + d)
      BY <3>1
    <3> QED BY <3>2, <3>3 DEF a
  <2>12. x[i + (m + 1)].utf8count = x[i].utf8count + z[m + 1].utf8count
    <3> DEFINE a == x[i].utf8count  c == sz.utf8count  d == begun(sz.left)
    <3>1. a \in Int /\ c \in Int /\ d \in {-1, 0, 1}
      BY <1>3, <1>4, <2>3, <2>8
    <3>2. x[i + (m + 1)].utf8count = (a + c) + d /\ z[m + 1].utf8count = c + d
      BY <2>6, <2>7, <2>9
    <3> HIDE DEF a, c, d
    <3>3. (a + c) + d = a + (c + d)
      BY <3>1
    <3> QED BY <3>2, <3>3 DEF a
  <2> QED BY <2>10, <2>11, <2>12
<1> HIDE DEF Like
<1>7. \A m \in 0 .. n - 1 : m \in T => m + 1 \in T
  BY <1>1, <1>6
<1> HIDE DEF T
<1>8. \A m \in 0 .. n : m \in T
  BY <1>1, <1>5, <1>7, UpTo
<1> QED BY <1>8 DEF T, Like, Beside

(* A text without a mark has none at its beginning. *)
LEMMA NoMarkInFront ==
  ASSUME NEW q \in Seq(Byte), NEW i \in 1 .. Len(q), ~IsPrefix(BOM8, q)
  PROVE  ~IsPrefix(BOM8, SubSeq(q, 1, i))
<1> DEFINE front == SubSeq(q, 1, i)
<1> SUFFICES ASSUME IsPrefix(BOM8, front) PROVE FALSE
  OBVIOUS
<1>1. Len(q) \in Nat /\ i \in Nat /\ i <= Len(q)
  OBVIOUS
<1>2. front \in Seq(Byte) /\ Len(front) = i /\ \A k \in 1 .. i : front[k] = q[k]
  BY <1>1
<1>3. Len(BOM8) = 3
  BY DEF BOM8
<1>4. 3 <= i /\ SubSeq(BOM8, 1, 3) = SubSeq(front, 1, 3)
  BY <1>2, <1>3 DEF IsPrefix
<1>5. SubSeq(front, 1, 3) = SubSeq(q, 1, 3)
  <2> HIDE DEF front
  <2>1. /\ SubSeq(front, 1, 3) = [k \in 1 .. 3 |-> front[k]]
        /\ SubSeq(q, 1, 3) = [k \in 1 .. 3 |-> q[k]]
    BY <1>1, <1>2, <1>4
  <2>2. \A k \in 1 .. 3 : front[k] = q[k]
    BY <1>1, <1>2, <1>4
  <2> QED BY <2>1, <2>2
<1> QED BY <1>1, <1>3, <1>4, <1>5 DEF IsPrefix

LEMMA Utf8DamageTold ==
  ASSUME text \in Seq(Byte)
  PROVE  DamageIsLocal
<1> SUFFICES ASSUME NEW i \in 1 .. Len(text), text[i] < 128, ~IsPrefix(BOM8, text),
                    ~IsPrefix(BOM8, SubSeq(text, i + 1, Len(text)))
             PROVE  LET all == Utf8Scan(text)
                        before == Utf8Scan(SubSeq(text, 1, i))
                        after == Utf8Scan(SubSeq(text, i + 1, Len(text)))
                    IN /\ all.failures = before.failures + after.failures
                       /\ all.utf8count = before.utf8count + after.utf8count
                       /\ all.left = after.left
  BY Zenon DEF DamageIsLocal
<1> DEFINE n == Len(text)  front == SubSeq(text, 1, i)  rest == SubSeq(text, i + 1, n)
           zero == [left |-> 0, failures |-> 0, utf8count |-> 0]
<1>1. n \in Nat /\ i \in Nat /\ i >= 1 /\ i <= n
  OBVIOUS
<1>2. front \in Seq(Byte) /\ Len(front) = i /\ \A k \in 1 .. i : front[k] = text[k]
  BY <1>1
<1>3. rest \in Seq(Byte) /\ Len(rest) = n - i /\ \A k \in 1 .. n - i : rest[k] = text[k + i]
  <2>1. i + 1 \in Int /\ n \in Int /\ \A k \in i + 1 .. n : text[k] \in Byte
    BY <1>1
  <2>2. /\ rest \in Seq(Byte) /\ Len(rest) = IF i + 1 <= n THEN n - (i + 1) + 1 ELSE 0
        /\ \A k \in 1 .. n - (i + 1) + 1 : rest[k] = text[(i + 1) + k - 1]
    BY <2>1, SubSeqProperties
  <2> HIDE DEF rest, n
  <2>3. /\ n - (i + 1) + 1 = n - i /\ (IF i + 1 <= n THEN n - (i + 1) + 1 ELSE 0) = n - i
        /\ \A k \in 1 .. n - i : (i + 1) + k - 1 = k + i
    BY <1>1
  <2> QED BY <2>2, <2>3
<1>4. zero \in Utf8States /\ zero.left = 0 /\ zero.failures = 0 /\ zero.utf8count = 0
  BY DEF Utf8States
<1>5. \A q \in Seq(Byte) : ~IsPrefix(BOM8, q) => Utf8Scan(q) = FoldLeft(Utf8Step, zero, q)
  BY DEF Utf8Scan, BehindMark
<1>6. ~IsPrefix(BOM8, front) /\ ~IsPrefix(BOM8, rest)
  BY <1>1, NoMarkInFront
<1> HIDE DEF front, rest, zero, n
<1>7. PICK x : Utf8Run(text, zero, x)
  BY <1>4, Utf8Rounds
<1>8. PICK y : Utf8Run(front, zero, y)
  BY <1>2, <1>4, Utf8Rounds
<1>9. PICK z : Utf8Run(rest, zero, z)
  BY <1>3, <1>4, Utf8Rounds
<1>10. Utf8Scan(text) = x[n] /\ Utf8Scan(front) = y[i] /\ Utf8Scan(rest) = z[n - i]
  BY <1>2, <1>3, <1>5, <1>6, <1>7, <1>8, <1>9 DEF Utf8Run, n
<1>11. \A k \in 0 .. i : y[k] = x[k]
  <2> DEFINE T == {k \in 0 .. i : y[k] = x[k]}
  <2>1. 0 \in T
    BY <1>1, <1>7, <1>8 DEF Utf8Run
  <2>2. ASSUME NEW k \in 0 .. i - 1, k \in T PROVE k + 1 \in T
    <3>1. k + 1 \in 1 .. i /\ k + 1 \in 1 .. n /\ (k + 1) - 1 = k /\ k + 1 \in 0 .. i
      BY <1>1
    <3>2. y[k + 1] = Utf8Step(y[(k + 1) - 1], front[k + 1])
      BY <1>2, <1>8, <3>1 DEF Utf8Run
    <3>3. x[k + 1] = Utf8Step(x[(k + 1) - 1], text[k + 1])
      BY <1>7, <3>1 DEF Utf8Run, n
    <3>4. y[(k + 1) - 1] = x[(k + 1) - 1]
      BY <2>2, <3>1
    <3> QED BY <1>2, <3>1, <3>2, <3>3, <3>4
  <2> HIDE DEF T
  <2>3. \A k \in 0 .. i : k \in T
    BY <1>1, <2>1, <2>2, UpTo
  <2> QED BY <2>3 DEF T
<1>12. x[i].left = 0 /\ x[i] \in Utf8States
  <2>1. i - 1 \in 0 .. n /\ i \in 1 .. n /\ i \in 0 .. n
    BY <1>1
  <2>2. x[i] = Utf8Step(x[i - 1], text[i]) /\ x[i - 1] \in Utf8States /\ x[i] \in Utf8States
    BY <1>7, <2>1 DEF Utf8Run, n
  <2>3. text[i] \in Byte
    OBVIOUS
  <2> DEFINE st == x[i - 1]  b == text[i]
  <2>4. Utf8Step(st, b).left = IF st.left = 0 THEN Follow(b)
                               ELSE IF IsContinuation(b) THEN st.left - 1 ELSE 0
    <3>1. st \in Utf8States /\ b \in Byte
      BY <2>2, <2>3
    <3> HIDE DEF st, b
    <3> QED BY <3>1, Utf8StepIs
  <2>5. ~IsContinuation(b) /\ Follow(b) = 0
    BY <2>3, SevenBit
  <2>6. Utf8Step(st, b).left = 0
    <3> HIDE DEF st, b
    <3> QED BY <2>4, <2>5
  <2> QED BY <2>2, <2>6
<1>13. Beside(x, i, z, Len(rest))
  <2>1. EndOf(text, i, rest)
    BY <1>1, <1>3 DEF n, EndOf
  <2>2. x[i].left = zero.left
    BY <1>4, <1>12
  <2> QED BY <1>3, <1>4, <1>7, <1>9, <2>1, <2>2, SideBySide
<1>14. i + (n - i) = n /\ n - i \in 0 .. Len(rest) /\ i \in 0 .. i
  BY <1>1, <1>3
<1> QED BY <1>10, <1>11, <1>13, <1>14 DEF front, rest, n, Beside
-----------------------------------------------------------------------------
(* The box-drawing filter.  What it blanks was no fill character before, and *)
(* is counted. *)
BoxStates == [buf : Seq(Byte), xout : Nat]
GoodBox(bd) == /\ bd.h1 \in 128 .. 255 /\ bd.h2 \in 128 .. 255
               /\ bd.isvbox \subseteq 128 .. 255
Overwritten(buf, S) == [j \in DOMAIN buf |-> IF j \in S THEN FillCharacter ELSE buf[j]]
Changed(t, buf) == {i \in DOMAIN t : buf[i] # t[i]}
BlankedFrom(t, st) ==
  /\ st \in BoxStates /\ Len(st.buf) = Len(t)
  /\ \A i \in DOMAIN t : st.buf[i] # t[i] => st.buf[i] = FillCharacter
  /\ st.xout = Cardinality(Changed(t, st.buf))

LEMMA OverwrittenType ==
  ASSUME NEW buf \in Seq(Byte), NEW S
  PROVE  Overwritten(buf, S) \in Seq(Byte) /\ Len(Overwritten(buf, S)) = Len(buf)
<1> DEFINE n == Len(buf)  o == Overwritten(buf, S)
<1>1. n \in Nat /\ DOMAIN buf = 1 .. n /\ \A j \in 1 .. n : buf[j] \in Byte
  OBVIOUS
<1>0. FillCharacter \in Byte
  BY DEF FillCharacter, Byte
<1>2. o \in [1 .. n -> Byte]
  <2> HIDE DEF n
  <2> QED BY <1>0, <1>1 DEF Overwritten
<1>3. \A f \in [1 .. n -> Byte] : f \in Seq(Byte) /\ Len(f) = n
  <2> HIDE DEF n
  <2> QED BY <1>1
<1> HIDE DEF o
<1> QED BY <1>2, <1>3 DEF o

LEMMA BlankMore ==
  ASSUME NEW t \in Seq(Byte), NEW st, BlankedFrom(t, st), NEW S \in SUBSET DOMAIN t,
         \A i \in S : st.buf[i] # FillCharacter,
         NEW new, new = [buf |-> Overwritten(st.buf, S), xout |-> st.xout + Cardinality(S)]
  PROVE  BlankedFrom(t, new)
<1> DEFINE n == Len(t)  C == Changed(t, st.buf)  D == Changed(t, new.buf)
<1>1. n \in Nat /\ DOMAIN t = 1 .. n
  OBVIOUS
<1>2. st.buf \in Seq(Byte) /\ st.xout \in Nat /\ Len(st.buf) = n /\ DOMAIN st.buf = 1 .. n
  <2>1. st.buf \in Seq(Byte) /\ st.xout \in Nat /\ Len(st.buf) = n
    BY DEF BlankedFrom, BoxStates
  <2> QED BY <2>1
<1>3. /\ new.buf = Overwritten(st.buf, S) /\ new.buf \in Seq(Byte) /\ Len(new.buf) = n
      /\ new.xout = st.xout + Cardinality(S)
  BY <1>2, OverwrittenType
<1>4. \A i \in 1 .. n : new.buf[i] = IF i \in S THEN FillCharacter ELSE st.buf[i]
  BY <1>2, <1>3 DEF Overwritten
<1>5. IsFiniteSet(C) /\ IsFiniteSet(S) /\ Cardinality(C) \in Nat /\ Cardinality(S) \in Nat
  <2>1. IsFiniteSet(1 .. n) /\ C \subseteq 1 .. n /\ S \subseteq 1 .. n
    BY <1>1, FS_Interval DEF Changed
  <2> QED BY <2>1, FS_Subset, FS_CardinalityType
<1>6. \A i \in DOMAIN t : st.buf[i] # t[i] => st.buf[i] = FillCharacter
  BY DEF BlankedFrom
<1>7. C \cap S = {}
  BY <1>6 DEF Changed
<1>8. D = C \cup S
  BY <1>1, <1>4, <1>6 DEF Changed
<1>9. Cardinality(D) = Cardinality(C) + Cardinality(S)
  <2>1. Cardinality(C \cup S) = Cardinality(C) + Cardinality(S) - Cardinality(C \cap S)
    BY <1>5, FS_Union
  <2>2. Cardinality({}) = 0
    BY FS_EmptySet
  <2> DEFINE c == Cardinality(C)  k == Cardinality(S)  u == Cardinality(C \cup S)
  <2>3. c \in Nat /\ k \in Nat /\ u = c + k - 0
    BY <1>5, <1>7, <2>1, <2>2
  <2>4. Cardinality(D) = u
    BY <1>8
  <2> HIDE DEF C, D, c, k, u
  <2>5. u = c + k
    BY <2>3
  <2> QED BY <2>4, <2>5 DEF c, k
<1>10. st.xout = Cardinality(C)
  BY DEF BlankedFrom
<1>11. new.xout = Cardinality(D) /\ new.xout \in Nat
  <2> HIDE DEF C, D
  <2> QED BY <1>3, <1>5, <1>9, <1>10
<1>12. new \in BoxStates
  <2>1. new = [buf |-> new.buf, xout |-> new.xout]
    BY <1>3
  <2> QED BY <1>3, <1>11, <2>1 DEF BoxStates
<1>13. \A i \in DOMAIN t : new.buf[i] # t[i] => new.buf[i] = FillCharacter
  BY <1>1, <1>4, <1>6
<1> QED BY <1>3, <1>11, <1>12, <1>13 DEF BlankedFrom

(* A run of one character, and the end of it. *)
LEMMA LineEndType ==
  ASSUME NEW buf \in Seq(Byte), NEW i \in 0 .. Len(buf)
  PROVE  LET n == LineEnd(buf, i)
         IN /\ n \in i + 1 .. Len(buf) + 1
            /\ \A k \in i .. n - 1 : buf[k] = buf[i]
            /\ n <= Len(buf) => buf[n] # buf[i]
<1> DEFINE l == Len(buf)  S == {k \in i + 1 .. l + 1 : k > l \/ buf[k] # buf[i]}
           n == LineEnd(buf, i)
<1>1. l \in Nat /\ i \in 0 .. l
  OBVIOUS
<1> HIDE DEF l
<1>2. l + 1 \in S /\ S \subseteq Int /\ S # {} /\ 0 \in Int /\ \A y \in S : 0 <= y
  <2>1. l + 1 \in S
    BY <1>1
  <2>2. S \subseteq Nat
    BY <1>1
  <2> HIDE DEF S
  <2> QED BY <2>1, <2>2
<1>3. n = Min(S)
  BY DEF LineEnd, l
<1>4. n \in S /\ \A y \in S : n <= y
  <2> HIDE DEF S
  <2>1. Min(S) \in S /\ \A y \in S : Min(S) <= y
    BY <1>2, MinExists
  <2> QED BY <1>3, <2>1
<1> HIDE DEF n
<1>5. ASSUME NEW k \in i .. n - 1 PROVE buf[k] = buf[i]
  <2>1. CASE k = i
    BY <2>1
  <2>2. CASE k # i
    <3>1. k \in i + 1 .. l + 1 /\ ~(n <= k)
      BY <1>1, <1>4, <2>2
    <3> QED BY <1>4, <3>1
  <2> QED BY <2>1, <2>2
<1>6. n \in i + 1 .. l + 1 /\ (n <= l => buf[n] # buf[i])
  BY <1>1, <1>4
<1> QED BY <1>5, <1>6 DEF n, l

(* One round of the loop over horizontal lines. *)
BoxPlaces == Nat \X BoxStates
LinesDone(d) == d[1] >= Len(d[2].buf)
LinesNext(bd, d) ==
  LET i == d[1]
      now == d[2]
      n == LineEnd(now.buf, i)
  IN IF now.buf[i] \notin {bd.h1, bd.h2} THEN <<i + 1, now>>
     ELSE IF n = i + 1 THEN <<n, now>>
     ELSE <<n, [buf |-> Overwritten(now.buf, i .. n - 1), xout |-> now.xout + n - i]>>

LEMMA LinesNextType ==
  ASSUME NEW bd, NEW d \in BoxPlaces, ~LinesDone(d)
  PROVE  /\ LinesNext(bd, d) \in BoxPlaces
         /\ LinesNext(bd, d)[1] > d[1] /\ Len(LinesNext(bd, d)[2].buf) = Len(d[2].buf)
<1> DEFINE i == d[1]  now == d[2]  n == LineEnd(now.buf, i)  l == Len(now.buf)
           new == [buf |-> Overwritten(now.buf, i .. n - 1), xout |-> now.xout + n - i]
           e == LinesNext(bd, d)
<1>1. i \in Nat /\ now \in BoxStates /\ d = <<i, now>>
  BY DEF BoxPlaces
<1>2. now.buf \in Seq(Byte) /\ now.xout \in Nat
  BY <1>1 DEF BoxStates
<1>3. l \in Nat /\ i < l
  BY <1>1, <1>2 DEF LinesDone
<1>4. n \in i + 1 .. l + 1
  <2>1. i \in 0 .. l
    BY <1>1, <1>3
  <2> HIDE DEF i, now
  <2> QED BY <1>2, <2>1, LineEndType
<1> HIDE DEF i, now, n, l
<1>5. n \in Nat /\ n > i /\ i + 1 \in Nat /\ i + 1 > i /\ now.xout + n - i \in Nat
  BY <1>1, <1>2, <1>3, <1>4
<1>6. new \in BoxStates /\ Len(new.buf) = l
  <2>1. Overwritten(now.buf, i .. n - 1) \in Seq(Byte) /\ Len(Overwritten(now.buf, i .. n - 1)) = l
    BY <1>2, OverwrittenType DEF l
  <2> QED BY <1>5, <2>1 DEF BoxStates
<1>7. Len(now.buf) = l
  BY DEF l
<1>8. e = IF now.buf[i] \notin {bd.h1, bd.h2} THEN <<i + 1, now>>
          ELSE IF n = i + 1 THEN <<n, now>> ELSE <<n, new>>
  BY DEF LinesNext, i, now, n
<1> HIDE DEF new, e
<1>9. e = <<i + 1, now>> \/ e = <<n, now>> \/ e = <<n, new>>
  BY <1>8
<1>10. e \in BoxPlaces /\ e[1] > i /\ Len(e[2].buf) = l
  BY <1>1, <1>5, <1>6, <1>7, <1>9 DEF BoxPlaces
<1> QED BY <1>10 DEF e, i, l, now

LEMMA LinesRun ==
  ASSUME NEW bd, NEW st \in BoxStates
  PROVE  \E f : /\ Horizontal(st, bd) = f[<<1, st>>]
                /\ \A d \in BoxPlaces : f[d] = IF LinesDone(d) THEN d[2] ELSE f[LinesNext(bd, d)]
<1> DEFINE D == BoxPlaces
           Stop == {d \in D : LinesDone(d)}
           out == [d \in D |-> d[2]]
           next == [d \in D |-> IF LinesDone(d) THEN d ELSE LinesNext(bd, d)]
           height(d) == Len(d[2].buf) - d[1]
           m == [d \in D |-> IF LinesDone(d) THEN 0 ELSE height(d)]
           Is(f) ==
             f = [p \in Nat \X [buf : Seq(Byte), xout : Nat] |->
                    LET i == p[1]
                        now == p[2]
                        n == LineEnd(now.buf, i)
                    IN IF i >= Len(now.buf) THEN now
                       ELSE IF now.buf[i] \notin {bd.h1, bd.h2} THEN f[<<i + 1, now>>]
                       ELSE IF n = i + 1 THEN f[<<n, now>>]
                       ELSE f[<<n, [buf |-> [j \in DOMAIN now.buf |->
                                               IF j \in i .. n - 1 THEN FillCharacter
                                               ELSE now.buf[j]],
                                    xout |-> now.xout + n - i]>>]]
           It == CHOOSE f : Is(f)
<1>1. Horizontal(st, bd) = It[<<1, st>>]
  BY DEF Horizontal
<1>2. D = Nat \X [buf : Seq(Byte), xout : Nat]
  BY DEF BoxPlaces, BoxStates
<1>3. \A d \in D : d[1] \in Nat /\ d[2] \in BoxStates /\ Len(d[2].buf) \in Nat
  <2> SUFFICES ASSUME NEW d \in D PROVE d[1] \in Nat /\ d[2] \in BoxStates /\ Len(d[2].buf) \in Nat
    OBVIOUS
  <2>1. d[1] \in Nat /\ d[2] \in BoxStates
    BY DEF BoxPlaces
  <2>2. d[2].buf \in Seq(Byte)
    BY <2>1 DEF BoxStates
  <2> QED BY <2>1, <2>2
<1>4. ASSUME NEW d \in D, ~LinesDone(d)
      PROVE  /\ LinesNext(bd, d) \in D /\ height(d) \in Nat /\ height(d) > 0
             /\ height(LinesNext(bd, d)) < height(d) /\ height(LinesNext(bd, d)) \in Int
  <2> DEFINE e == LinesNext(bd, d)  l == Len(d[2].buf)  i == d[1]
  <2>1. e \in D /\ e[1] > i /\ Len(e[2].buf) = l
    BY <1>4, LinesNextType
  <2>2. l \in Nat /\ i \in Nat /\ i < l
    BY <1>3, <1>4 DEF LinesDone
  <2>3. e[1] \in Nat
    BY <1>3, <2>1
  <2> HIDE DEF e, l, i
  <2>4. l - i \in Nat /\ l - i > 0 /\ l - e[1] < l - i /\ l - e[1] \in Int
    BY <2>1, <2>2, <2>3
  <2> QED BY <2>1, <2>4 DEF e, l, i
<1>5. out \in [D -> BoxStates] /\ next \in [D -> D] /\ m \in [D -> Nat]
  <2> HIDE DEF height, D
  <2> QED BY <1>3, <1>4
<1>6. \A d \in D : d \in Stop \/ m[next[d]] < m[d]
  <2> SUFFICES ASSUME NEW d \in D, ~LinesDone(d) PROVE m[next[d]] < m[d]
    OBVIOUS
  <2>1. /\ LinesNext(bd, d) \in D /\ height(d) \in Nat /\ height(d) > 0
        /\ height(LinesNext(bd, d)) < height(d) /\ height(LinesNext(bd, d)) \in Int
    BY <1>4
  <2>2. next[d] = LinesNext(bd, d) /\ m[d] = height(d)
    OBVIOUS
  <2>3. m[LinesNext(bd, d)] = IF LinesDone(LinesNext(bd, d)) THEN 0
                              ELSE height(LinesNext(bd, d))
    BY <2>1
  <2> HIDE DEF m, next, height, D
  <2> QED BY <2>1, <2>2, <2>3
<1> HIDE DEF Stop, out, next, height, m, D
<1>7. PICK f \in [D -> BoxStates] : Rounds(D, Stop, out, next, f)
  BY <1>5, <1>6, RoundsExist
<1>8. ASSUME NEW d \in D PROVE f[d] = IF LinesDone(d) THEN d[2] ELSE f[LinesNext(bd, d)]
  <2>1. f[d] = IF d \in Stop THEN out[d] ELSE f[next[d]]
    BY <1>7 DEF Rounds
  <2>2. /\ d \in Stop <=> LinesDone(d)
        /\ out[d] = d[2] /\ (~LinesDone(d) => next[d] = LinesNext(bd, d))
    BY DEF Stop, out, next
  <2> QED BY <2>1, <2>2
<1>9. \A g : Is(g) <=> g = [d \in D |-> IF LinesDone(d) THEN d[2] ELSE g[LinesNext(bd, d)]]
  <2> SUFFICES ASSUME NEW g
               PROVE  Is(g) <=> g = [d \in D |-> IF LinesDone(d) THEN d[2] ELSE g[LinesNext(bd, d)]]
    OBVIOUS
  <2>1. \A d \in D :
          (LET i == d[1]
               now == d[2]
               n == LineEnd(now.buf, i)
           IN IF i >= Len(now.buf) THEN now
              ELSE IF now.buf[i] \notin {bd.h1, bd.h2} THEN g[<<i + 1, now>>]
              ELSE IF n = i + 1 THEN g[<<n, now>>]
              ELSE g[<<n, [buf |-> [j \in DOMAIN now.buf |->
                                      IF j \in i .. n - 1 THEN FillCharacter
                                      ELSE now.buf[j]],
                           xout |-> now.xout + n - i]>>])
            = IF LinesDone(d) THEN d[2] ELSE g[LinesNext(bd, d)]
    BY Zenon DEF LinesDone, LinesNext, Overwritten
  <2> QED BY <1>2, <2>1, Zenon
<1>10. Is(f)
  <2>1. f = [d \in D |-> f[d]]
    BY <1>7
  <2>2. [d \in D |-> f[d]] = [d \in D |-> IF LinesDone(d) THEN d[2] ELSE f[LinesNext(bd, d)]]
    BY <1>8
  <2> HIDE DEF Is
  <2> QED BY <1>9, <2>1, <2>2
<1>11. Is(It)
  BY <1>10
<1> HIDE DEF It, Is
<1>12. It = [d \in D |-> IF LinesDone(d) THEN d[2] ELSE It[LinesNext(bd, d)]]
  BY <1>9, <1>11
<1>13. \A d \in D : It[d] = IF LinesDone(d) THEN d[2] ELSE It[LinesNext(bd, d)]
  BY <1>12
<1> QED BY <1>1, <1>13 DEF D

(* While lines are blanked, what is behind is done, what is ahead is untouched, *)
(* and no line goes on at the place reached.                                    *)
LinesTold(t, s, bd, d) ==
  /\ d \in BoxPlaces /\ BlankedFrom(t, d[2])
  /\ d[1] \in 1 .. Len(t) + 1
  /\ \A j \in 1 .. Len(t) : d[2].buf[j] = IF j < d[1] THEN Lines(s, bd)[j] ELSE s[j]
  /\ d[1] \in 2 .. Len(t) /\ s[d[1]] \in {bd.h1, bd.h2} => s[d[1] - 1] # s[d[1]]

LEMMA LinesAre ==
  ASSUME NEW s \in Seq(Byte), NEW bd
  PROVE  /\ Lines(s, bd) \in Seq(Byte) /\ Len(Lines(s, bd)) = Len(s)
         /\ \A j \in 1 .. Len(s) :
              Lines(s, bd)[j] = IF /\ s[j] \in {bd.h1, bd.h2}
                                   /\ \/ j > 1 /\ s[j - 1] = s[j]
                                      \/ j < Len(s) /\ s[j + 1] = s[j]
                                THEN FillCharacter ELSE s[j]
<1> DEFINE n == Len(s)
<1>1. n \in Nat /\ DOMAIN s = 1 .. n /\ (\A j \in 1 .. n : s[j] \in Byte)
  OBVIOUS
<1>2. FillCharacter \in Byte
  BY DEF FillCharacter, Byte
<1>3. \A f \in [1 .. n -> Byte] : f \in Seq(Byte) /\ Len(f) = n
  <2> HIDE DEF n
  <2> QED BY <1>1
<1> HIDE DEF n
<1>4. Lines(s, bd) \in [1 .. n -> Byte]
  BY <1>1, <1>2 DEF Lines
<1>5. \A j \in 1 .. n : Lines(s, bd)[j] = IF InLine(s, bd, j) THEN FillCharacter ELSE s[j]
  BY <1>1 DEF Lines
<1>6. ASSUME NEW j \in 1 .. n
      PROVE  InLine(s, bd, j) <=> /\ s[j] \in {bd.h1, bd.h2}
                                  /\ \/ j > 1 /\ s[j - 1] = s[j]
                                     \/ j < n /\ s[j + 1] = s[j]
  <2>1. (j > 1 <=> j - 1 \in 1 .. n) /\ (j < n <=> j + 1 \in 1 .. n)
    BY <1>1
  <2> QED BY <1>1, <2>1 DEF InLine
<1> QED BY <1>3, <1>4, <1>5, <1>6 DEF n

LEMMA GoodBoxes ==
  ASSUME NEW bd, GoodBox(bd)
  PROVE  /\ bd.h1 # FillCharacter /\ bd.h2 # FillCharacter /\ FillCharacter \notin bd.isvbox
         /\ IsSpace(FillCharacter) /\ FillCharacter \in Byte
         /\ \A b \in bd.isvbox : b \in Byte /\ b # FillCharacter /\ ~IsSpace(b)
<1>1. \A b \in 128 .. 255 : b \in Byte /\ b # FillCharacter /\ ~IsSpace(b)
  BY DEF FillCharacter, IsSpace, Byte, LF, CR
<1>2. IsSpace(FillCharacter) /\ FillCharacter \in Byte
  BY DEF FillCharacter, IsSpace, Byte
<1> QED BY <1>1, <1>2 DEF GoodBox

LEMMA LinesKept ==
  ASSUME NEW t \in Seq(Byte), NEW s \in Seq(Byte), Len(s) = Len(t), NEW bd, GoodBox(bd),
         NEW d, LinesTold(t, s, bd, d), ~LinesDone(d)
  PROVE  LinesTold(t, s, bd, LinesNext(bd, d))
<1> DEFINE i == d[1]  now == d[2]  l == Len(t)  n == LineEnd(now.buf, i)
           new == [buf |-> Overwritten(now.buf, i .. n - 1), xout |-> now.xout + n - i]
           e == LinesNext(bd, d)  h == Lines(s, bd)
           Goes(m, st) ==
             /\ m \in i + 1 .. l + 1 /\ e = <<m, st>> /\ BlankedFrom(t, st)
             /\ \A j \in 1 .. l : st.buf[j] = IF j < m THEN h[j] ELSE s[j]
             /\ m \in 2 .. l /\ s[m] \in {bd.h1, bd.h2} => s[m - 1] # s[m]
<1>1. l \in Nat /\ DOMAIN t = 1 .. l /\ Len(s) = l /\ (\A j \in 1 .. l : s[j] \in Byte)
  OBVIOUS
<1>2. d \in BoxPlaces /\ i \in Nat /\ now \in BoxStates /\ d = <<i, now>>
  BY DEF LinesTold, BoxPlaces
<1>3. BlankedFrom(t, now) /\ i \in 1 .. l + 1 /\ Len(now.buf) = l
  BY DEF LinesTold, BlankedFrom
<1>4. \A j \in 1 .. l : now.buf[j] = IF j < i THEN h[j] ELSE s[j]
  BY DEF LinesTold
<1>5. i \in 2 .. l /\ s[i] \in {bd.h1, bd.h2} => s[i - 1] # s[i]
  BY DEF LinesTold
<1>6. i < l
  BY <1>1, <1>2, <1>3 DEF LinesDone
<1>7. now.buf \in Seq(Byte) /\ now.xout \in Nat
  BY <1>2 DEF BoxStates
<1>8. \A j \in 1 .. l : h[j] = IF /\ s[j] \in {bd.h1, bd.h2}
                                  /\ \/ j > 1 /\ s[j - 1] = s[j]
                                     \/ j < l /\ s[j + 1] = s[j]
                               THEN FillCharacter ELSE s[j]
  <2>1. Len(s) = l
    OBVIOUS
  <2>2. \A j \in 1 .. Len(s) :
          Lines(s, bd)[j] = IF /\ s[j] \in {bd.h1, bd.h2}
                               /\ \/ j > 1 /\ s[j - 1] = s[j]
                                  \/ j < Len(s) /\ s[j + 1] = s[j]
                            THEN FillCharacter ELSE s[j]
    BY LinesAre
  <2> HIDE DEF l
  <2> QED BY <2>1, <2>2 DEF h
<1>9. e = IF now.buf[i] \notin {bd.h1, bd.h2} THEN <<i + 1, now>>
          ELSE IF n = i + 1 THEN <<n, now>> ELSE <<n, new>>
  BY DEF LinesNext
<1>10. e \in BoxPlaces
  BY <1>2, LinesNextType
<1>11. /\ n \in i + 1 .. l + 1 /\ (\A k \in i .. n - 1 : now.buf[k] = now.buf[i])
       /\ n <= l => now.buf[n] # now.buf[i]
  <2>1. i \in 0 .. Len(now.buf)
    BY <1>1, <1>3, <1>6
  <2> HIDE DEF i, now
  <2> QED BY <1>3, <1>7, <2>1, LineEndType
<1> HIDE DEF i, now, l, n, new, e, h
<1>12. \A k \in i .. l : k \in 1 .. l /\ now.buf[k] = s[k]
  BY <1>1, <1>2, <1>3, <1>4
<1>13. i \in 1 .. l /\ n \in Nat /\ i \in Nat
  BY <1>1, <1>2, <1>3, <1>6, <1>11
<1>14. now.buf[i] = s[i]
  BY <1>12, <1>13
<1>15. (\A k \in i .. n - 1 : s[k] = s[i]) /\ (n <= l => s[n] # s[i])
  BY <1>1, <1>11, <1>12, <1>13, <1>14
<1>16. ASSUME NEW m, NEW st, Goes(m, st)
       PROVE  LinesTold(t, s, bd, e)
  <2>1. m \in 1 .. l + 1
    BY <1>1, <1>13, <1>16
  <2>2. e[1] = m /\ e[2] = st
    BY <1>16
  <2> QED BY <1>10, <1>16, <2>1, <2>2 DEF LinesTold, l, h
<1> HIDE DEF Goes
<1>17. CASE s[i] \notin {bd.h1, bd.h2}
  <2>1. e = <<i + 1, now>>
    BY <1>9, <1>14, <1>17
  <2>2. i + 1 \in i + 1 .. l + 1
    BY <1>1, <1>6, <1>13
  <2>3. h[i] = s[i]
    BY <1>8, <1>13, <1>17
  <2>4. \A j \in 1 .. l : now.buf[j] = IF j < i + 1 THEN h[j] ELSE s[j]
    BY <1>4, <1>13, <2>3
  <2>5. i + 1 \in 2 .. l /\ s[i + 1] \in {bd.h1, bd.h2} => s[i + 1 - 1] # s[i + 1]
    <3>1. i + 1 - 1 = i
      BY <1>13
    <3> QED BY <1>17, <3>1
  <2>6. Goes(i + 1, now)
    BY <1>3, <2>1, <2>2, <2>4, <2>5 DEF Goes
  <2> QED BY <1>16, <2>6 DEF e
<1>18. CASE s[i] \in {bd.h1, bd.h2}
  <2>1. \A k \in 1 .. l : k > 1 /\ k = i => s[k - 1] # s[k]
    BY <1>1, <1>5, <1>13, <1>18
  <2>2. n \in 2 .. l /\ s[n] \in {bd.h1, bd.h2} => s[n - 1] # s[n]
    <3>1. n - 1 \in i .. n - 1
      BY <1>1, <1>11, <1>13
    <3> QED BY <1>1, <1>15, <3>1
  <2>3. CASE n = i + 1
    <3>1. e = <<n, now>>
      BY <1>9, <1>14, <1>18, <2>3
    <3>2. h[i] = s[i]
      <4>1. i < l => s[i + 1] # s[i]
        BY <1>1, <1>13, <1>15, <2>3
      <4> QED BY <1>8, <1>13, <2>1, <4>1
    <3>3. \A j \in 1 .. l : now.buf[j] = IF j < n THEN h[j] ELSE s[j]
      BY <1>4, <1>13, <2>3, <3>2
    <3>4. Goes(n, now)
      BY <1>3, <1>11, <2>2, <3>1, <3>3 DEF Goes
    <3> QED BY <1>16, <3>4 DEF e
  <2>4. CASE n # i + 1
    <3> DEFINE S == i .. n - 1
    <3>1. e = <<n, new>>
      BY <1>9, <1>14, <1>18, <2>4
    <3>2. S \in SUBSET DOMAIN t /\ S \subseteq i .. l
      BY <1>1, <1>11, <1>13
    <3>3. Cardinality(S) = n - i
      <4>1. i \in Int /\ n - 1 \in Int /\ ~(i > n - 1) /\ (n - 1) - i + 1 = n - i
        BY <1>1, <1>11, <1>13
      <4> QED BY <4>1, FS_Interval
    <3>4. \A k \in S : now.buf[k] = s[i] /\ now.buf[k] # FillCharacter
      <4>1. bd.h1 # FillCharacter /\ bd.h2 # FillCharacter
        BY GoodBoxes
      <4>2. s[i] # FillCharacter
        BY <1>18, <4>1
      <4> QED BY <1>11, <1>14, <4>2
    <3>5. new = [buf |-> Overwritten(now.buf, S), xout |-> now.xout + Cardinality(S)]
      <4>1. now.xout + n - i = now.xout + (n - i)
        BY <1>7, <1>13
      <4> QED BY <3>3, <4>1 DEF new
    <3>6. BlankedFrom(t, new)
      <4> HIDE DEF S
      <4> QED BY <1>3, <3>2, <3>4, <3>5, BlankMore
    <3>7. \A k \in S : h[k] = FillCharacter
      <4> SUFFICES ASSUME NEW k \in S PROVE h[k] = FillCharacter
        OBVIOUS
      <4>1. k \in 1 .. l /\ s[k] = s[i]
        BY <1>13, <1>15, <3>2
      <4>2. CASE k = n - 1
        <5>1. k - 1 \in S /\ k > 1
          BY <1>1, <1>11, <1>13, <2>4, <4>2
        <5>2. s[k - 1] = s[k]
          BY <1>15, <4>1, <5>1
        <5> QED BY <1>8, <1>18, <4>1, <5>1, <5>2
      <4>3. CASE k # n - 1
        <5>1. k + 1 \in S /\ k < l
          BY <1>1, <1>11, <1>13, <2>4, <4>1, <4>3
        <5>2. s[k + 1] = s[k]
          BY <1>15, <4>1, <5>1
        <5> QED BY <1>8, <1>18, <4>1, <5>1, <5>2
      <4> QED BY <4>2, <4>3
    <3>8. \A j \in 1 .. l : new.buf[j] = IF j \in S THEN FillCharacter ELSE now.buf[j]
      <4>1. DOMAIN now.buf = 1 .. l
        BY <1>3, <1>7
      <4> QED BY <3>5, <4>1 DEF Overwritten
    <3>9. \A j \in 1 .. l : new.buf[j] = IF j < n THEN h[j] ELSE s[j]
      <4> SUFFICES ASSUME NEW j \in 1 .. l
                   PROVE  new.buf[j] = IF j < n THEN h[j] ELSE s[j]
        OBVIOUS
      <4>1. CASE j \in S
        <5>1. j < n
          BY <1>1, <1>13, <4>1
        <5> QED BY <3>7, <3>8, <4>1, <5>1
      <4>2. CASE j \notin S
        <5>1. (j < i <=> j < n) /\ new.buf[j] = now.buf[j]
          BY <1>1, <1>11, <1>13, <3>8, <4>2
        <5> QED BY <1>4, <5>1
      <4> QED BY <4>1, <4>2
    <3>10. Goes(n, new)
      BY <1>11, <2>2, <3>1, <3>6, <3>9 DEF Goes
    <3> QED BY <1>16, <3>10 DEF e
  <2> QED BY <2>3, <2>4
<1> QED BY <1>17, <1>18 DEF e

LEMMA LinesEnd ==
  ASSUME NEW t \in Seq(Byte), NEW s \in Seq(Byte), Len(s) = Len(t), NEW bd,
         NEW d, LinesTold(t, s, bd, d), LinesDone(d)
  PROVE  d[2].buf = Lines(s, bd)
<1> DEFINE i == d[1]  b == d[2].buf  l == Len(t)  h == Lines(s, bd)
<1>1. l \in Nat /\ Len(s) = l
  OBVIOUS
<1>2. i \in 1 .. l + 1 /\ Len(b) = l /\ b \in Seq(Byte)
  <2>1. d[2] \in BoxStates /\ Len(b) = l /\ i \in 1 .. l + 1
    BY DEF LinesTold, BlankedFrom
  <2> QED BY <2>1 DEF BoxStates
<1>3. \A j \in 1 .. l : b[j] = IF j < i THEN h[j] ELSE s[j]
  BY DEF LinesTold
<1>4. i \in 2 .. l /\ s[i] \in {bd.h1, bd.h2} => s[i - 1] # s[i]
  BY DEF LinesTold
<1>5. i >= l
  BY <1>2 DEF LinesDone
<1>6. h \in Seq(Byte) /\ Len(h) = Len(s)
  BY LinesAre
<1>7. \A j \in 1 .. Len(s) : h[j] = IF /\ s[j] \in {bd.h1, bd.h2}
                                       /\ \/ j > 1 /\ s[j - 1] = s[j]
                                          \/ j < Len(s) /\ s[j + 1] = s[j]
                                    THEN FillCharacter ELSE s[j]
  BY LinesAre
<1> HIDE DEF l, h, b, i
<1>8. ASSUME NEW j \in 1 .. l PROVE b[j] = h[j]
  <2>1. CASE j < i
    BY <1>3, <2>1
  <2>2. CASE ~(j < i)
    <3>1. j = i /\ i = l
      BY <1>1, <1>2, <1>5, <2>2
    <3>2. ~(s[i] \in {bd.h1, bd.h2} /\ i > 1 /\ s[i - 1] = s[i]) /\ ~(i < l)
      BY <1>1, <1>2, <1>4, <3>1
    <3>3. h[i] = s[i]
      BY <1>1, <1>7, <3>1, <3>2
    <3> QED BY <1>3, <2>2, <3>1, <3>3
  <2> QED BY <2>1, <2>2
<1>9. b = h
  BY <1>1, <1>2, <1>6, <1>8, SeqEqual
<1> QED BY <1>9 DEF b, h

(* The loop blanks the lines, and these alone. *)
LEMMA HorizontalIs ==
  ASSUME NEW t \in Seq(Byte), NEW st, BlankedFrom(t, st), NEW bd, GoodBox(bd)
  PROVE  /\ Horizontal(st, bd).buf = Lines(st.buf, bd)
         /\ BlankedFrom(t, Horizontal(st, bd))
<1> DEFINE s == st.buf  D == BoxPlaces  l == Len(t)
           m == [d \in D |-> IF LinesDone(d) THEN 0 ELSE Len(d[2].buf) - d[1]]
<1>1. st \in BoxStates /\ s \in Seq(Byte) /\ Len(s) = l
  <2>1. st \in BoxStates /\ Len(s) = l
    BY DEF BlankedFrom
  <2> QED BY <2>1 DEF BoxStates
<1>2. PICK f : /\ Horizontal(st, bd) = f[<<1, st>>]
               /\ \A d \in D : f[d] = IF LinesDone(d) THEN d[2] ELSE f[LinesNext(bd, d)]
  BY <1>1, LinesRun
<1> DEFINE T == {d \in D : LinesTold(t, s, bd, d) =>
                             f[d].buf = Lines(s, bd) /\ BlankedFrom(t, f[d])}
<1>3. \A d \in D : d[1] \in Nat /\ Len(d[2].buf) \in Nat
  <2> SUFFICES ASSUME NEW d \in D PROVE d[1] \in Nat /\ Len(d[2].buf) \in Nat
    OBVIOUS
  <2>1. d[1] \in Nat /\ d[2] \in BoxStates
    BY DEF BoxPlaces
  <2>2. d[2].buf \in Seq(Byte)
    BY <2>1 DEF BoxStates
  <2> QED BY <2>1, <2>2
<1>4. \A d \in D : ~LinesDone(d) => d[1] < Len(d[2].buf)
  BY <1>3 DEF LinesDone
<1>5. m \in [D -> Nat]
  <2> HIDE DEF D
  <2> QED BY <1>3, <1>4
<1>6. ASSUME NEW d \in D, \A e \in D : m[e] < m[d] => e \in T PROVE d \in T
  <2> SUFFICES ASSUME LinesTold(t, s, bd, d)
               PROVE  f[d].buf = Lines(s, bd) /\ BlankedFrom(t, f[d])
    OBVIOUS
  <2>1. CASE LinesDone(d)
    <3>1. f[d] = d[2] /\ BlankedFrom(t, d[2])
      BY <1>2, <2>1 DEF LinesTold
    <3>2. d[2].buf = Lines(s, bd)
      <4> HIDE DEF s
      <4> QED BY <1>1, <2>1, LinesEnd
    <3> QED BY <3>1, <3>2
  <2>2. CASE ~LinesDone(d)
    <3> DEFINE e == LinesNext(bd, d)
    <3>1. e \in D /\ e[1] > d[1] /\ Len(e[2].buf) = Len(d[2].buf)
      BY <2>2, LinesNextType
    <3>2. LinesTold(t, s, bd, e)
      <4> HIDE DEF s
      <4> QED BY <1>1, <2>2, LinesKept
    <3>3. f[d] = f[e]
      BY <1>2, <2>2
    <3>4. m[e] < m[d]
      <4> DEFINE a == Len(d[2].buf)  i == d[1]  j == e[1]
      <4>1. a \in Nat /\ i \in Nat /\ j \in Nat /\ j > i /\ i < a
        BY <1>3, <1>4, <2>2, <3>1
      <4>2. m[e] = IF LinesDone(e) THEN 0 ELSE a - j
        BY <3>1
      <4>3. m[d] = a - i
        BY <2>2
      <4> HIDE DEF m, a, i, j, e
      <4> QED BY <4>1, <4>2, <4>3
    <3>5. e \in T
      <4> HIDE DEF T, m, e
      <4> QED BY <1>6, <3>1, <3>4
    <3> QED BY <3>2, <3>3, <3>5
  <2> QED BY <2>1, <2>2
<1>7. \A d \in D : d \in T
  <2> HIDE DEF D, T, m
  <2> QED BY <1>5, <1>6, HeightInduction
<1>8. <<1, st>> \in D /\ LinesTold(t, s, bd, <<1, st>>)
  <2>1. <<1, st>> \in D
    BY <1>1 DEF BoxPlaces
  <2>2. 1 \in 1 .. l + 1 /\ ~(1 \in 2 .. l) /\ \A j \in 1 .. l : ~(j < 1)
    <3>1. l \in Nat
      OBVIOUS
    <3> HIDE DEF l
    <3> QED BY <3>1
  <2>3. <<1, st>>[1] = 1 /\ <<1, st>>[2] = st
    OBVIOUS
  <2> QED BY <2>1, <2>2, <2>3 DEF LinesTold
<1> QED BY <1>2, <1>7, <1>8

(* One round of the loop over vertical characters, and all of them. *)
VerticalStep(bd, size, acc, i) ==
  IF /\ size > 1 /\ acc.buf[i] \in bd.isvbox
     /\ i = 1 \/ IsSpace(acc.buf[i - 1])
     /\ i = size \/ IsSpace(acc.buf[i + 1])
  THEN [buf |-> Overwritten(acc.buf, {i}), xout |-> acc.xout + 1]
  ELSE acc
SizedStates(n) == {st \in BoxStates : Len(st.buf) = n}
VerticalRun(bd, size, st, x) ==
  /\ x[0] = st /\ x[size] = Vertical(st, bd)
  /\ \A k \in 1 .. size : x[k] = VerticalStep(bd, size, x[k - 1], k)

LEMMA VerticalStepIs ==
  ASSUME NEW bd, NEW n \in Nat, NEW acc \in SizedStates(n), NEW i \in 1 .. n
  PROVE  /\ VerticalStep(bd, n, acc, i) \in SizedStates(n)
         /\ [acc.buf EXCEPT ![i] = FillCharacter] = Overwritten(acc.buf, {i})
<1> DEFINE o == Overwritten(acc.buf, {i})
<1>1. acc \in BoxStates /\ acc.buf \in Seq(Byte) /\ acc.xout \in Nat /\ Len(acc.buf) = n
  BY DEF SizedStates, BoxStates
<1>2. o \in Seq(Byte) /\ Len(o) = n
  BY <1>1, OverwrittenType
<1>3. [acc.buf EXCEPT ![i] = FillCharacter] = o
  <2>1. DOMAIN acc.buf = 1 .. n
    BY <1>1
  <2>2. acc.buf = [j \in 1 .. n |-> acc.buf[j]]
    BY <1>1, <2>1
  <2> QED BY <2>1, <2>2 DEF Overwritten
<1> HIDE DEF o
<1>4. [buf |-> o, xout |-> acc.xout + 1] \in SizedStates(n)
  BY <1>1, <1>2 DEF SizedStates, BoxStates
<1>5. VerticalStep(bd, n, acc, i) \in {acc, [buf |-> o, xout |-> acc.xout + 1]}
  BY DEF VerticalStep, o
<1> QED BY <1>3, <1>4, <1>5 DEF o

LEMMA VerticalRounds ==
  ASSUME NEW bd, NEW st \in BoxStates
  PROVE  \E x : VerticalRun(bd, Len(st.buf), st, x)
<1> DEFINE n == Len(st.buf)  X == SizedStates(n)  D == 1 .. n
           q == [i \in 1 .. n |-> i]
           Next1(acc, i) ==
             IF /\ n > 1 /\ acc.buf[i] \in bd.isvbox
                /\ i = 1 \/ IsSpace(acc.buf[i - 1])
                /\ i = n \/ IsSpace(acc.buf[i + 1])
             THEN [buf |-> [acc.buf EXCEPT ![i] = FillCharacter],
                   xout |-> acc.xout + 1]
             ELSE acc
           Is(iter) ==
             iter = [z \in SUBSET DOMAIN q |->
                       IF z = {} THEN st ELSE Next1(iter[z \ {Max(z)}], q[Max(z)])]
           It == CHOOSE iter : Is(iter)
           H == [p \in D \X X |-> Next1(p[2], p[1])]
<1>1. Vertical(st, bd) = It[DOMAIN q]
  BY DEF Vertical, FoldLeft, MapThenFoldSet
<1>2. n \in Nat /\ st \in X
  <2>1. st.buf \in Seq(Byte)
    BY DEF BoxStates
  <2> QED BY <2>1 DEF SizedStates
<1>3. DOMAIN q = 1 .. n /\ \A i \in 1 .. n : q[i] = i /\ q[i] \in D
  OBVIOUS
<1>4. ASSUME NEW acc \in X, NEW i \in D
      PROVE  Next1(acc, i) = VerticalStep(bd, n, acc, i) /\ Next1(acc, i) \in X
  <2>1. /\ VerticalStep(bd, n, acc, i) \in X
        /\ [acc.buf EXCEPT ![i] = FillCharacter] = Overwritten(acc.buf, {i})
    <3> HIDE DEF n
    <3> QED BY <1>2, VerticalStepIs
  <2> HIDE DEF n
  <2> QED BY <2>1 DEF VerticalStep
<1> HIDE DEF X, D, n, q, Next1
<1>5. H \in [D \X X -> X] /\ \A i \in D, acc \in X : H[<<i, acc>>] = Next1(acc, i)
  BY <1>4
<1> HIDE DEF H
<1>6. PICK f \in [SUBSET DOMAIN q -> X] : FoldingOver(q, st, H, f)
  BY <1>2, <1>3, <1>5, FoldOverExists
<1>7. Is(f)
  <2>1. ASSUME NEW z \in SUBSET DOMAIN q
        PROVE  f[z] = IF z = {} THEN st ELSE Next1(f[z \ {Max(z)}], q[Max(z)])
    <3>1. f[z] = IF z = {} THEN st ELSE H[<<q[Max(z)], f[z \ {Max(z)}]>>]
      BY <1>6 DEF FoldingOver
    <3>2. z # {} => Max(z) \in DOMAIN q /\ z \ {Max(z)} \in SUBSET DOMAIN q
      BY <1>2, <1>3, PlacesOf
    <3> QED BY <1>3, <1>5, <3>1, <3>2
  <2> QED BY <2>1
<1>8. Is(It)
  BY <1>7
<1>9. FoldedBy(q, st, H, X, It)
  <2> HIDE DEF It
  <2>1. \A z \in SUBSET DOMAIN q : z # {} => q[Max(z)] \in D
    BY <1>2, <1>3, PlacesOf
  <2> QED BY <1>5, <1>8, <2>1 DEF FoldedBy
<1> HIDE DEF It
<1>10. PICK x \in [0 .. n -> X] : FoldRun(n, q, st, H, x, It[DOMAIN q])
  BY <1>2, <1>3, <1>5, <1>9, FoldRounds
<1>11. \A k \in 1 .. n : x[k] = VerticalStep(bd, n, x[k - 1], k)
  <2> SUFFICES ASSUME NEW k \in 1 .. n PROVE x[k] = VerticalStep(bd, n, x[k - 1], k)
    OBVIOUS
  <2>1. k - 1 \in 0 .. n /\ k \in D
    BY <1>2 DEF D
  <2>2. x[k - 1] \in X /\ x[k] = H[<<k, x[k - 1]>>]
    BY <1>3, <1>10, <2>1 DEF FoldRun
  <2> QED BY <1>4, <1>5, <2>1, <2>2
<1>12. x[0] = st /\ x[n] = Vertical(st, bd)
  BY <1>1, <1>10 DEF FoldRun
<1>13. VerticalRun(bd, n, st, x)
  BY <1>11, <1>12 DEF VerticalRun
<1> QED BY <1>13 DEF n

(* Behind each place all is as the rules say of the buffer before the loop: a *)
(* character blanked on the left follows a space, and so did not stand there *)
(* beside a vertical one.                                                     *)
VerticalTold(t, h, bd, acc, k) ==
  /\ BlankedFrom(t, acc)
  /\ \A j \in 1 .. Len(t) :
       acc.buf[j] = IF j <= k /\ Isolated(h, bd, j) THEN FillCharacter ELSE h[j]

LEMMA VerticalKept ==
  ASSUME NEW t \in Seq(Byte), NEW h \in Seq(Byte), Len(h) = Len(t), NEW bd, GoodBox(bd),
         NEW k \in 1 .. Len(t), NEW acc, VerticalTold(t, h, bd, acc, k - 1)
  PROVE  VerticalTold(t, h, bd, VerticalStep(bd, Len(t), acc, k), k)
<1> DEFINE n == Len(t)  F == FillCharacter
           e == VerticalStep(bd, n, acc, k)
           new == [buf |-> Overwritten(acc.buf, {k}), xout |-> acc.xout + 1]
           goes == /\ n > 1 /\ acc.buf[k] \in bd.isvbox
                   /\ k = 1 \/ IsSpace(acc.buf[k - 1])
                   /\ k = n \/ IsSpace(acc.buf[k + 1])
<1>1. n \in Nat /\ DOMAIN t = 1 .. n /\ DOMAIN h = 1 .. n /\ Len(h) = n /\ k \in 1 .. n
  OBVIOUS
<1>2. BlankedFrom(t, acc) /\ acc \in BoxStates /\ Len(acc.buf) = n
  BY DEF VerticalTold, BlankedFrom
<1>3. acc.buf \in Seq(Byte) /\ acc.xout \in Nat /\ DOMAIN acc.buf = 1 .. n
  <2>1. acc.buf \in Seq(Byte) /\ acc.xout \in Nat
    BY <1>2 DEF BoxStates
  <2> QED BY <1>2, <2>1
<1>4. \A j \in 1 .. n : acc.buf[j] = IF j <= k - 1 /\ Isolated(h, bd, j) THEN F ELSE h[j]
  BY DEF VerticalTold
<1>5. e = IF goes THEN new ELSE acc
  BY DEF VerticalStep
<1>6. /\ \A b \in bd.isvbox : b # F /\ ~IsSpace(b)
      /\ IsSpace(F)
  BY GoodBoxes
<1> HIDE DEF n, F, e, new
<1>7. \A j \in 1 .. n : Isolated(h, bd, j) <=>
                          /\ n > 1 /\ h[j] \in bd.isvbox
                          /\ j = 1 \/ IsSpace(h[j - 1])
                          /\ j = n \/ IsSpace(h[j + 1])
  <2> SUFFICES ASSUME NEW j \in 1 .. n
               PROVE  Isolated(h, bd, j) <=>
                          /\ n > 1 /\ h[j] \in bd.isvbox
                          /\ j = 1 \/ IsSpace(h[j - 1])
                          /\ j = n \/ IsSpace(h[j + 1])
    OBVIOUS
  <2>1. (j = 1 <=> j - 1 \notin 1 .. n) /\ (j = n <=> j + 1 \notin 1 .. n)
    BY <1>1
  <2> QED BY <1>1, <2>1 DEF Isolated
<1>8. acc.buf[k] = h[k] /\ (k # n => acc.buf[k + 1] = h[k + 1])
  <2>1. ~(k <= k - 1) /\ ~(k + 1 <= k - 1) /\ (k # n => k + 1 \in 1 .. n)
    BY <1>1
  <2> QED BY <1>1, <1>4, <2>1
<1>9. goes <=> Isolated(h, bd, k)
  <2>1. CASE k = 1
    BY <1>1, <1>7, <1>8, <2>1
  <2>2. CASE k # 1
    <3>1. k - 1 \in 1 .. n /\ k - 1 <= k - 1 /\ k - 1 # n /\ (k - 1) + 1 = k
      BY <1>1, <2>2
    <3>2. CASE Isolated(h, bd, k - 1)
      <4>1. h[k - 1] \in bd.isvbox /\ IsSpace(h[k])
        BY <1>7, <3>1, <3>2
      <4>2. h[k] \notin bd.isvbox
        BY <1>6, <4>1
      <4> QED BY <1>1, <1>7, <1>8, <4>2
    <3>3. CASE ~Isolated(h, bd, k - 1)
      <4>1. acc.buf[k - 1] = h[k - 1]
        BY <1>4, <3>1, <3>3
      <4> QED BY <1>1, <1>7, <1>8, <2>2, <4>1
    <3> QED BY <3>2, <3>3
  <2> QED BY <2>1, <2>2
<1> HIDE DEF goes
<1>10. \A j \in 1 .. n : j <= k <=> j <= k - 1 \/ j = k
  BY <1>1
<1>11. CASE Isolated(h, bd, k)
  <2>1. e = new
    BY <1>5, <1>9, <1>11
  <2>2. acc.buf[k] # F
    BY <1>1, <1>6, <1>7, <1>8, <1>11
  <2>3. new = [buf |-> Overwritten(acc.buf, {k}), xout |-> acc.xout + Cardinality({k})]
    <3>1. Cardinality({k}) = 1
      BY FS_Singleton
    <3> QED BY <3>1 DEF new
  <2>4. BlankedFrom(t, new)
    <3>1. {k} \in SUBSET DOMAIN t /\ \A i \in {k} : acc.buf[i] # FillCharacter
      BY <1>1, <2>2 DEF F
    <3> QED BY <1>2, <2>3, <3>1, BlankMore
  <2>5. \A j \in 1 .. n : new.buf[j] = IF j = k THEN F ELSE acc.buf[j]
    BY <1>3, <2>3 DEF Overwritten, F
  <2>6. \A j \in 1 .. n : new.buf[j] = IF j <= k /\ Isolated(h, bd, j) THEN F ELSE h[j]
    BY <1>4, <1>10, <1>11, <2>5
  <2> QED BY <2>1, <2>4, <2>6 DEF VerticalTold, n, F, e
<1>12. CASE ~Isolated(h, bd, k)
  <2>1. e = acc
    BY <1>5, <1>9, <1>12
  <2>2. \A j \in 1 .. n : acc.buf[j] = IF j <= k /\ Isolated(h, bd, j) THEN F ELSE h[j]
    BY <1>4, <1>10, <1>12
  <2> QED BY <1>2, <2>1, <2>2 DEF VerticalTold, n, F, e
<1> QED BY <1>11, <1>12

(* A charset's filter: the buffer is as the rules say, and the count grows by *)
(* what was blanked.                                                          *)
LEMMA BoxdrawOutIs ==
  ASSUME NEW t \in Seq(Byte), NEW st, BlankedFrom(t, st), NEW bd, GoodBox(bd)
  PROVE  /\ FilterBoxdrawOut(st, bd).buf = Cleared(st.buf, bd)
         /\ BlankedFrom(t, FilterBoxdrawOut(st, bd))
<1> DEFINE n == Len(t)  mid == Horizontal(st, bd)  h == Lines(st.buf, bd)
           end == Vertical(mid, bd)
<1>1. st.buf \in Seq(Byte) /\ Len(st.buf) = n
  <2>1. st \in BoxStates /\ Len(st.buf) = n
    BY DEF BlankedFrom
  <2> QED BY <2>1 DEF BoxStates
<1>2. mid.buf = h /\ BlankedFrom(t, mid)
  BY HorizontalIs
<1>3. h \in Seq(Byte) /\ Len(h) = n
  BY <1>1, LinesAre
<1>4. n \in Nat /\ DOMAIN st.buf = 1 .. n /\ DOMAIN h = 1 .. n
  BY <1>1, <1>3
<1>5. mid \in BoxStates /\ Len(mid.buf) = n
  BY <1>2 DEF BlankedFrom
<1>6. FilterBoxdrawOut(st, bd) = end
  BY DEF FilterBoxdrawOut
<1> HIDE DEF mid, h, end
<1>7. PICK x : VerticalRun(bd, n, mid, x)
  BY <1>5, VerticalRounds
<1>8. x[0] = mid /\ x[n] = end
  BY <1>7 DEF VerticalRun, end
<1> DEFINE T == {k \in Nat : VerticalTold(t, h, bd, x[k], k)}
<1>9. 0 \in T
  <2>1. \A j \in 1 .. n : ~(j <= 0)
    BY <1>4
  <2> QED BY <1>2, <1>8, <2>1 DEF VerticalTold
<1>10. \A k \in 0 .. n - 1 : k \in T => k + 1 \in T
  <2> SUFFICES ASSUME NEW k \in 0 .. n - 1, VerticalTold(t, h, bd, x[k], k)
               PROVE  k + 1 \in Nat /\ VerticalTold(t, h, bd, x[k + 1], k + 1)
    OBVIOUS
  <2> DEFINE i == k + 1
  <2>1. i \in 1 .. n /\ i - 1 = k /\ i \in Nat
    BY <1>4
  <2>2. x[i] = VerticalStep(bd, n, x[i - 1], i)
    BY <1>7, <2>1 DEF VerticalRun
  <2> HIDE DEF i
  <2>3. VerticalTold(t, h, bd, x[i - 1], i - 1)
    BY <2>1
  <2>4. VerticalTold(t, h, bd, VerticalStep(bd, n, x[i - 1], i), i)
    BY <1>3, <2>1, <2>3, VerticalKept
  <2>5. VerticalTold(t, h, bd, x[i], i)
    BY <2>2, <2>4
  <2> QED BY <2>1, <2>5 DEF i
<1>11. VerticalTold(t, h, bd, end, n)
  <2>1. \A k \in 0 .. n : k \in T
    <3> HIDE DEF T
    <3> QED BY <1>4, <1>9, <1>10, UpTo
  <2>2. n \in T
    <3> HIDE DEF T
    <3> QED BY <1>4, <2>1
  <2> QED BY <1>8, <2>2
<1>12. BlankedFrom(t, end)
  BY <1>11 DEF VerticalTold
<1>13. end.buf \in Seq(Byte) /\ Len(end.buf) = n
  <2>1. end \in BoxStates /\ Len(end.buf) = n
    BY <1>12 DEF BlankedFrom
  <2> QED BY <2>1 DEF BoxStates
<1>14. \A j \in 1 .. n : end.buf[j] = IF Isolated(h, bd, j) THEN FillCharacter ELSE h[j]
  <2>1. \A j \in 1 .. n : j <= n
    BY <1>4
  <2> QED BY <1>11, <2>1 DEF VerticalTold
<1>15. Cleared(st.buf, bd) = [j \in 1 .. n |-> IF Isolated(h, bd, j) THEN FillCharacter ELSE h[j]]
  BY <1>4 DEF Cleared, h
<1>16. end.buf = [j \in 1 .. n |-> end.buf[j]]
  BY <1>13
<1>17. end.buf = Cleared(st.buf, bd)
  BY <1>14, <1>15, <1>16
<1> QED BY <1>6, <1>12, <1>17

LEMMA BoxTables == \A cs \in {"cp1125", "koi8u"} : GoodBox(BOXDRAW[cs])
<1>1. GoodBox(BOXDRAW["cp1125"])
  BY DEF BOXDRAW, GoodBox
<1>2. GoodBox(BOXDRAW["koi8u"])
  BY DEF BOXDRAW, GoodBox
<1> QED BY <1>1, <1>2

(* The filters in turn. *)
LEMMA BoxdrawIs ==
  ASSUME NEW t \in Seq(Byte)
  PROVE  \E x : /\ x[0] = [buf |-> t, xout |-> 0] /\ x[2] = FilterBoxdraw(t, BoxCharsets)
                /\ \A k \in 1 .. 2 :
                     x[k] = FilterBoxdrawOut(x[k - 1], BOXDRAW[BoxCharsets[k]])
                /\ \A k \in 0 .. 2 : BlankedFrom(t, x[k])
<1> DEFINE X == {st \in BoxStates : BlankedFrom(t, st)}  D == {"cp1125", "koi8u"}
           q == BoxCharsets  base == [buf |-> t, xout |-> 0]
           Next1(cs, st) == FilterBoxdrawOut(st, BOXDRAW[cs])
           Is(iter) ==
             iter = [z \in SUBSET DOMAIN q |->
                       IF z = {} THEN base ELSE Next1(q[Max(z)], iter[z \ {Max(z)}])]
           It == CHOOSE iter : Is(iter)
           H == [p \in D \X X |-> Next1(p[1], p[2])]
<1>1. FilterBoxdraw(t, BoxCharsets) = It[DOMAIN q]
  BY DEF FilterBoxdraw, FoldLeft, MapThenFoldSet
<1>2. DOMAIN q = 1 .. 2 /\ \A i \in 1 .. 2 : q[i] \in D
  BY DEF BoxCharsets
<1>3. base \in X
  <2>1. base \in BoxStates /\ base.buf = t /\ base.xout = 0
    BY DEF BoxStates
  <2>2. Changed(t, t) = {}
    BY DEF Changed
  <2>3. Cardinality({}) = 0
    BY FS_EmptySet
  <2> HIDE DEF base
  <2> QED BY <2>1, <2>2, <2>3 DEF BlankedFrom
<1>4. H \in [D \X X -> X] /\ \A cs \in D, st \in X : H[<<cs, st>>] = Next1(cs, st)
  <2>1. ASSUME NEW cs \in D, NEW st \in X PROVE Next1(cs, st) \in X
    <3>1. BlankedFrom(t, Next1(cs, st))
      BY BoxTables, BoxdrawOutIs
    <3> QED BY <3>1 DEF BlankedFrom
  <2> HIDE DEF X, D, Next1
  <2> QED BY <2>1
<1> HIDE DEF H, X, q, base, Next1, D
<1>5. PICK f \in [SUBSET DOMAIN q -> X] : FoldingOver(q, base, H, f)
  BY <1>2, <1>3, <1>4, FoldOverExists
<1>6. Is(f)
  <2>1. ASSUME NEW z \in SUBSET DOMAIN q
        PROVE  f[z] = IF z = {} THEN base ELSE Next1(q[Max(z)], f[z \ {Max(z)}])
    <3>1. f[z] = IF z = {} THEN base ELSE H[<<q[Max(z)], f[z \ {Max(z)}]>>]
      BY <1>5 DEF FoldingOver
    <3>2. z # {} => Max(z) \in DOMAIN q /\ z \ {Max(z)} \in SUBSET DOMAIN q
      BY <1>2, PlacesOf, ZenonT(60)
    <3> QED BY <1>2, <1>4, <3>1, <3>2
  <2> QED BY <2>1
<1>7. Is(It)
  BY <1>6
<1>8. FoldedBy(q, base, H, X, It)
  <2> HIDE DEF It
  <2>1. \A z \in SUBSET DOMAIN q : z # {} => q[Max(z)] \in D
    BY <1>2, PlacesOf
  <2> QED BY <1>4, <1>7, <2>1 DEF FoldedBy
<1> HIDE DEF It
<1>9. PICK x \in [0 .. 2 -> X] : FoldRun(2, q, base, H, x, It[DOMAIN q])
  BY <1>2, <1>3, <1>4, <1>8, FoldRounds
<1>10. \A k \in 1 .. 2 : x[k] = Next1(q[k], x[k - 1])
  <2> SUFFICES ASSUME NEW k \in 1 .. 2 PROVE x[k] = Next1(q[k], x[k - 1])
    OBVIOUS
  <2>1. k - 1 \in 0 .. 2 /\ q[k] \in D
    BY <1>2
  <2> QED BY <1>4, <1>9, <2>1 DEF FoldRun
<1>11. x[0] = base /\ x[2] = It[DOMAIN q]
  BY <1>9 DEF FoldRun
<1>12. \A k \in 0 .. 2 : BlankedFrom(t, x[k])
  BY <1>9 DEF X
<1> QED BY <1>1, <1>10, <1>11, <1>12 DEF Next1, q, base

LEMMA ClearedIs ==
  ASSUME NEW t \in Seq(Byte)
  PROVE  FoldLeft(LAMBDA s, cs : Cleared(s, BOXDRAW[cs]), t, BoxCharsets)
           = Cleared(Cleared(t, BOXDRAW[BoxCharsets[1]]), BOXDRAW[BoxCharsets[2]])
<1> DEFINE X == Seq(Byte)  D == {"cp1125", "koi8u"}  q == BoxCharsets
           Next1(cs, s) == Cleared(s, BOXDRAW[cs])
           Is(iter) ==
             iter = [z \in SUBSET DOMAIN q |->
                       IF z = {} THEN t ELSE Next1(q[Max(z)], iter[z \ {Max(z)}])]
           It == CHOOSE iter : Is(iter)
           H == [p \in D \X X |-> Next1(p[1], p[2])]
<1>1. FoldLeft(LAMBDA s, cs : Cleared(s, BOXDRAW[cs]), t, BoxCharsets) = It[DOMAIN q]
  BY DEF FoldLeft, MapThenFoldSet
<1>2. DOMAIN q = 1 .. 2 /\ \A i \in 1 .. 2 : q[i] \in D
  BY DEF BoxCharsets
<1>3. ASSUME NEW cs \in D, NEW s \in X PROVE Next1(cs, s) \in X
  <2>1. DOMAIN s = 1 .. Len(s) /\ Len(s) \in Nat
    OBVIOUS
  <2>2. \A j \in 1 .. Len(s) : Lines(s, BOXDRAW[cs])[j] \in Byte
    <3>1. Lines(s, BOXDRAW[cs]) \in Seq(Byte) /\ Len(Lines(s, BOXDRAW[cs])) = Len(s)
      BY LinesAre
    <3> QED BY <3>1
  <2>3. FillCharacter \in Byte
    BY DEF FillCharacter, Byte
  <2>4. Next1(cs, s) \in [1 .. Len(s) -> Byte]
    BY <2>1, <2>2, <2>3 DEF Cleared
  <2> QED BY <2>1, <2>4
<1>4. H \in [D \X X -> X] /\ \A cs \in D, s \in X : H[<<cs, s>>] = Next1(cs, s)
  <2> HIDE DEF X, D, Next1
  <2> QED BY <1>3
<1>5. t \in X
  OBVIOUS
<1> HIDE DEF H, X, q, Next1, D
<1>6. PICK f \in [SUBSET DOMAIN q -> X] : FoldingOver(q, t, H, f)
  BY <1>2, <1>4, <1>5, FoldOverExists
<1>7. Is(f)
  <2>1. ASSUME NEW z \in SUBSET DOMAIN q
        PROVE  f[z] = IF z = {} THEN t ELSE Next1(q[Max(z)], f[z \ {Max(z)}])
    <3>1. f[z] = IF z = {} THEN t ELSE H[<<q[Max(z)], f[z \ {Max(z)}]>>]
      BY <1>6 DEF FoldingOver
    <3>2. z # {} => Max(z) \in DOMAIN q /\ z \ {Max(z)} \in SUBSET DOMAIN q
      BY <1>2, PlacesOf, ZenonT(60)
    <3> QED BY <1>2, <1>4, <3>1, <3>2
  <2> QED BY <2>1
<1>8. Is(It)
  BY <1>7
<1>9. FoldedBy(q, t, H, X, It)
  <2> HIDE DEF It
  <2>1. \A z \in SUBSET DOMAIN q : z # {} => q[Max(z)] \in D
    BY <1>2, PlacesOf
  <2> QED BY <1>4, <1>8, <2>1 DEF FoldedBy
<1> HIDE DEF It
<1>10. PICK x \in [0 .. 2 -> X] : FoldRun(2, q, t, H, x, It[DOMAIN q])
  BY <1>2, <1>4, <1>5, <1>9, FoldRounds
<1>11. \A k \in 1 .. 2 : x[k] = Next1(q[k], x[k - 1])
  <2> SUFFICES ASSUME NEW k \in 1 .. 2 PROVE x[k] = Next1(q[k], x[k - 1])
    OBVIOUS
  <2>1. k - 1 \in 0 .. 2 /\ q[k] \in D
    BY <1>2
  <2> QED BY <1>4, <1>10, <2>1 DEF FoldRun
<1>12. x[0] = t /\ x[2] = It[DOMAIN q] /\ 1 \in 1 .. 2 /\ 2 \in 1 .. 2 /\ 1 - 1 = 0 /\ 2 - 1 = 1
  BY <1>10 DEF FoldRun
<1>13. x[1] = Next1(q[1], t) /\ x[2] = Next1(q[2], x[1])
  BY <1>11, <1>12
<1> QED BY <1>1, <1>12, <1>13 DEF Next1, q

LEMMA BoxdrawTold ==
  ASSUME NEW t \in Seq(Byte)
  PROVE  LET end == FilterBoxdraw(t, BoxCharsets)
         IN /\ end.buf = FoldLeft(LAMBDA s, cs : Cleared(s, BOXDRAW[cs]), t, BoxCharsets)
            /\ end.xout = Cardinality({i \in DOMAIN t : end.buf[i] # t[i]})
<1> DEFINE end == FilterBoxdraw(t, BoxCharsets)
           C(k, s) == Cleared(s, BOXDRAW[BoxCharsets[k]])
<1>1. PICK x : /\ x[0] = [buf |-> t, xout |-> 0] /\ x[2] = end
               /\ \A k \in 1 .. 2 :
                    x[k] = FilterBoxdrawOut(x[k - 1], BOXDRAW[BoxCharsets[k]])
               /\ \A k \in 0 .. 2 : BlankedFrom(t, x[k])
  BY BoxdrawIs
<1>2. \A k \in 1 .. 2 : GoodBox(BOXDRAW[BoxCharsets[k]])
  <2>1. \A k \in 1 .. 2 : BoxCharsets[k] \in {"cp1125", "koi8u"}
    BY DEF BoxCharsets
  <2> QED BY <2>1, BoxTables
<1> HIDE DEF end
<1>3. \A k \in 1 .. 2 : x[k].buf = C(k, x[k - 1].buf)
  <2> SUFFICES ASSUME NEW k \in 1 .. 2 PROVE x[k].buf = C(k, x[k - 1].buf)
    OBVIOUS
  <2>1. k - 1 \in 0 .. 2
    OBVIOUS
  <2>2. BlankedFrom(t, x[k - 1]) /\ GoodBox(BOXDRAW[BoxCharsets[k]])
    BY <1>1, <1>2, <2>1
  <2> QED BY <1>1, <2>2, BoxdrawOutIs
<1> HIDE DEF C
<1>4. 1 \in 1 .. 2 /\ 2 \in 1 .. 2 /\ 2 \in 0 .. 2 /\ 1 - 1 = 0 /\ 2 - 1 = 1
  OBVIOUS
<1>5. end.buf = C(2, C(1, t))
  <2>1. x[0].buf = t
    BY <1>1
  <2>2. x[1].buf = C(1, t) /\ x[2].buf = C(2, x[1].buf)
    BY <1>3, <1>4, <2>1
  <2> QED BY <1>1, <2>2
<1>6. BlankedFrom(t, end)
  BY <1>1, <1>4
<1>7. end.xout = Cardinality({i \in DOMAIN t : end.buf[i] # t[i]})
  BY <1>6 DEF BlankedFrom, Changed
<1>8. end.buf = FoldLeft(LAMBDA s, cs : Cleared(s, BOXDRAW[cs]), t, BoxCharsets)
  BY <1>5, ClearedIs DEF C
<1> QED BY <1>7, <1>8 DEF end
-----------------------------------------------------------------------------
(* Ratings give an order of all charsets in which none stands before a better *)
(* one, and every charset gets the number of its good pairs: for every list  *)
(* of ratings and every sample (lib/guess.c:715, lib/pair.c:158). *)
THEOREM RatingsAreAlwaysExact == Spec => []RatingsAreExact
<1>1. TextOK => RatingsAreExact
  <2> SUFFICES ASSUME TextOK PROVE RatingsAreExact
    OBVIOUS
  <2>1. kind \in DOMAIN Alphabet /\ text \in Seq(Alphabet[kind])
    BY DEF TextOK
  <2>2. kind = "order" => text \in Seq(Int)
    BY <2>1, TokensAssumption
  <2>3. OrderIsByRating
    BY <2>2, OrderTold
  <2>4. PairsAreCounted
    BY <2>1, PairsTold
  <2> QED BY <2>3, <2>4 DEF RatingsAreExact
<1> QED BY <1>1, TextIsTyped, PTL

(* Names of any length are ordered by their letters and digits, and the search *)
(* in a sorted list of any length finds a name exactly when it is there *)
(* (lib/encnames.c:389-496). *)
THEOREM NamesAreAlwaysFound == Spec => []NamesAreFound
<1>1. TextOK => NamesAreFound
  <2> SUFFICES ASSUME TextOK PROVE NamesAreFound
    OBVIOUS
  <2>1. kind \in DOMAIN Alphabet /\ text \in Seq(Alphabet[kind])
    BY DEF TextOK
  <2>2. kind = "squeeze" => text \in Seq(Int)
    <3>1. Byte \subseteq Int
      BY DEF Byte
    <3>2. "squeeze" \in DOMAIN Alphabet => Alphabet["squeeze"] \subseteq Int
      BY <3>1, TokensAssumption
    <3> QED BY <2>1, <3>2
  <2>3. kind = "alias" => text \in Seq(Letters)
    BY <2>1, TokensAssumption DEF Letters
  <2>4. SqueezeIsOrder
    BY <2>2, NamesTold DEF SqueezeIsOrder
  <2>5. SearchFinds
    BY <2>3, SearchTells
  <2> QED BY <2>4, <2>5 DEF NamesAreFound
<1> QED BY <1>1, TextIsTyped, PTL

(* Well-formed texts are accepted, others are not, and damage is local: for  *)
(* samples of every length.                                                 *)
THEOREM Utf8IsAlwaysExact == Spec => []Utf8IsExact
<1>1. ASSUME TextOK PROVE Utf8IsExact
  <2>1. CASE kind = "utf8"
    <3>1. text \in Seq(Byte)
      BY <1>1, <2>1, TokensAssumption DEF TextOK
    <3> QED BY <3>1, ScansAssumption, Utf8ExactTold, Utf8DamageTold DEF Utf8IsExact
  <2>2. CASE kind # "utf8"
    BY <2>2 DEF Utf8IsExact, Utf8Exact, DamageIsLocal
  <2> QED BY <2>1, <2>2
<1> QED BY <1>1, TextIsTyped, PTL

(* The box-drawing filter blanks the lines and the vertical characters between *)
(* whitespace, these alone, and returns their number over all charsets: for    *)
(* samples of every length (lib/filters.c:274-313).                            *)
THEOREM BoxdrawIsAlwaysExact == Spec => []BoxdrawExact
<1>1. ASSUME TextOK PROVE BoxdrawExact
  <2>1. CASE kind = "box"
    <3>1. text \in Seq(Byte)
      BY <1>1, <2>1, TokensAssumption DEF TextOK
    <3> QED BY <3>1, BoxdrawTold DEF BoxdrawExact
  <2>2. CASE kind # "box"
    BY <2>2 DEF BoxdrawExact
  <2> QED BY <2>1, <2>2
<1> QED BY <1>1, TextIsTyped, PTL
-----------------------------------------------------------------------------
-----------------------------------------------------------------------------
(* End of lines.  As many CR's as LF's, each LF behind a CR: then each CR is *)
(* in front of an LF. *)
LineEnds(s, b) == {i \in DOMAIN s : s[i] = b}

LEMMA LineEndsCounted ==
  ASSUME NEW X, NEW s \in Seq(X), NEW b
  PROVE  /\ Count(s, b) = Cardinality(LineEnds(s, b)) /\ Count(s, b) \in Nat
         /\ IsFiniteSet(LineEnds(s, b)) /\ LineEnds(s, b) \subseteq 1 .. Len(s)
         /\ (Count(s, b) = 0 <=> LineEnds(s, b) = {})
<1>1. DOMAIN s = 1 .. Len(s) /\ Len(s) \in Nat
  OBVIOUS
<1>2. Count(s, b) = Cardinality(LineEnds(s, b))
  BY DEF Count, Quantify, LineEnds
<1>3. IsFiniteSet(1 .. Len(s))
  BY <1>1, FS_Interval
<1>4. LineEnds(s, b) \subseteq 1 .. Len(s)
  BY <1>1 DEF LineEnds
<1>5. IsFiniteSet(LineEnds(s, b))
  BY <1>3, <1>4, FS_Subset
<1> QED BY <1>2, <1>4, <1>5, FS_CardinalityType, FS_EmptySet

LEMMA PairedUp ==
  ASSUME NEW n \in Nat, NEW A, A \subseteq 1 .. n, NEW B, B \subseteq 1 .. n,
         \A i \in B : i - 1 \in A
  PROVE  /\ Cardinality(A) = Cardinality(B) => B = {i + 1 : i \in A}
         /\ B = {i + 1 : i \in A} => Cardinality(A) = Cardinality(B)
<1> DEFINE f == [i \in B |-> i - 1]
<1>1. IsFiniteSet(1 .. n)
  BY FS_Interval
<1>2. IsFiniteSet(A) /\ IsFiniteSet(B)
  BY <1>1, FS_Subset
<1>3. \A i \in A \cup B : i \in Int
  OBVIOUS
<1>4. f \in [B -> A] /\ \A i, j \in B : f[i] = f[j] => i = j
  BY <1>3
<1>5. f \in Injection(B, A)
  BY <1>4 DEF Injection, IsInjective
<1>6. Cardinality(B) = Cardinality(A) <=> f \in Surjection(B, A)
  BY <1>2, <1>5, FS_Injection
<1>7. f \in Surjection(B, A) <=> \A a \in A : \E i \in B : f[i] = a
  BY <1>4 DEF Surjection
<1>8. \A i \in B : f[i] = i - 1
  OBVIOUS
<1> HIDE DEF f
<1>9. ASSUME \A a \in A : \E i \in B : f[i] = a PROVE B = {i + 1 : i \in A}
  <2>1. ASSUME NEW a \in A PROVE a + 1 \in B
    <3>1. PICK i \in B : f[i] = a
      BY <1>9
    <3>2. i = a + 1
      BY <1>3, <1>8, <3>1
    <3> QED BY <3>1, <3>2
  <2>2. ASSUME NEW i \in B PROVE i - 1 \in A /\ i = (i - 1) + 1
    BY <1>3
  <2> QED BY <2>1, <2>2
<1>10. ASSUME B = {i + 1 : i \in A} PROVE \A a \in A : \E i \in B : f[i] = a
  <2> SUFFICES ASSUME NEW a \in A PROVE a + 1 \in B /\ f[a + 1] = a
    OBVIOUS
  <2>1. a + 1 \in B /\ a \in Int
    BY <1>10, <1>3
  <2> QED BY <1>8, <2>1
<1> QED BY <1>6, <1>7, <1>9, <1>10

LEMMA EolTold == TextOK => EolIsTrue
<1> SUFFICES ASSUME TextOK, kind = "eol", text # <<>>
             PROVE  LET Places(b) == {i \in DOMAIN text : text[i] = b}
                        paired == Places(LF) = {i + 1 : i \in Places(CR)} /\ Places(CR) # {}
                    IN /\ paired => EolSurface(text) \in {"crlf", "bin"}
                       /\ EolSurface(text) = "crlf" /\ text[1] # LF => paired
  BY DEF EolIsTrue
<1> DEFINE A == LineEnds(text, CR)  B == LineEnds(text, LF)  n == Len(text)
           cr == Count(text, CR)  lf == Count(text, LF)
           behind == \A i \in 2 .. n : text[i] = LF => text[i - 1] = CR
           paired == B = {i + 1 : i \in A} /\ A # {}
<1>1. text \in Seq(Alphabet[kind])
  BY DEF TextOK
<1>2. n \in Nat /\ DOMAIN text = 1 .. n
  BY <1>1
<1>3. /\ cr = Cardinality(A) /\ cr \in Nat /\ A \subseteq 1 .. n /\ (cr = 0 <=> A = {})
      /\ lf = Cardinality(B) /\ lf \in Nat /\ B \subseteq 1 .. n /\ (lf = 0 <=> B = {})
  BY <1>1, LineEndsCounted
<1>4. A = {i \in 1 .. n : text[i] = CR} /\ B = {i \in 1 .. n : text[i] = LF}
  BY <1>2 DEF LineEnds
<1>5. EolSurface(text) = IF \E i \in DOMAIN text : text[i] < 32 /\ IsBinary(text[i]) THEN "bin"
                         ELSE IF cr = 0 THEN "lf" ELSE IF lf = 0 THEN "cr"
                         ELSE IF cr = lf /\ behind THEN "crlf" ELSE "mix"
  BY DEF EolSurface, EolOf
<1> HIDE DEF A, B, n, cr, lf
<1>6. ASSUME paired PROVE behind /\ cr = lf /\ cr # 0
  <2>1. \A i \in B : i - 1 \in A
    BY <1>2, <1>3, <1>6
  <2>2. cr = lf
    BY <1>2, <1>3, <1>6, <2>1, PairedUp
  <2>3. behind
    BY <1>2, <1>4, <2>1
  <2> QED BY <1>3, <1>6, <2>2, <2>3
<1>7. ASSUME behind, cr = lf, cr # 0, text[1] # LF PROVE paired
  <2>1. \A i \in B : i - 1 \in A
    <3> SUFFICES ASSUME NEW i \in B PROVE i - 1 \in A
      OBVIOUS
    <3>1. i \in 1 .. n /\ text[i] = LF /\ i # 1
      BY <1>4, <1>7
    <3>2. i \in 2 .. n /\ i - 1 \in 1 .. n
      BY <1>2, <3>1
    <3> QED BY <1>4, <1>7, <3>1, <3>2
  <2> QED BY <1>2, <1>3, <1>7, <2>1, PairedUp
<1> HIDE DEF behind
<1>8. paired => EolSurface(text) \in {"crlf", "bin"}
  BY <1>5, <1>6
<1>9. EolSurface(text) = "crlf" /\ text[1] # LF => paired
  BY <1>5, <1>7
<1> HIDE DEF paired
<1> QED BY <1>8, <1>9 DEF paired, A, B, LineEnds

-----------------------------------------------------------------------------
(* Quoted-printable.  What the helpers of both passes return. *)
EscapeAt(s, p, e) ==
  \/ e = 0 /\ \A i \in p .. Len(s) - 2 : s[i] # QP_ESCAPE
  \/ /\ e \in p .. Len(s) - 2 /\ s[e] = QP_ESCAPE
     /\ \A i \in p .. e - 1 : s[i] # QP_ESCAPE

LEMMA EscapeIs ==
  ASSUME NEW s, Len(s) \in Nat, NEW p \in Positions
  PROVE  /\ EscapeAt(s, p, Escape(s, p)) /\ Escape(s, p) \in Nat
         /\ \A e : EscapeAt(s, p, e) => Escape(s, p) = e
<1> DEFINE n == Len(s)  I == {i \in p .. n : s[i] = QP_ESCAPE}
           m == IF I # {} THEN Min(I) ELSE 0
<1>1. MemChr(s, QP_ESCAPE, p) = m
  BY DEF MemChr, SelectInSubSeq
<1>2. Escape(s, p) = IF m + 2 <= n THEN m ELSE 0
  BY <1>1 DEF Escape
<1>3. n \in Nat /\ p \in Nat /\ p > 0
  BY DEF Positions
<1> HIDE DEF n
<1>4. \/ m = 0 /\ \A i \in p .. n : s[i] # QP_ESCAPE
      \/ /\ m \in p .. n /\ s[m] = QP_ESCAPE
         /\ \A i \in p .. n : s[i] = QP_ESCAPE => m <= i
  <2>1. CASE I = {}
    BY <2>1
  <2>2. CASE I # {}
    <3>1. I \subseteq Int /\ 0 \in Int /\ \A y \in I : 0 <= y
      BY <1>3
    <3>2. m \in I /\ \A y \in I : m <= y
      <4> HIDE DEF I
      <4> QED BY <2>2, <3>1, MinExists
    <3> HIDE DEF m
    <3> QED BY <3>2
  <2> QED BY <2>1, <2>2
<1> HIDE DEF m
<1> DEFINE E == Escape(s, p)
<1>5. E = IF m + 2 <= n THEN m ELSE 0
  BY <1>2
<1> HIDE DEF E
<1>6. \/ E = 0 /\ \A i \in p .. n - 2 : s[i] # QP_ESCAPE
      \/ /\ E \in p .. n - 2 /\ s[E] = QP_ESCAPE
         /\ \A i \in p .. E - 1 : s[i] # QP_ESCAPE
  BY <1>3, <1>4, <1>5
<1>7. ASSUME NEW e, \/ e = 0 /\ \A i \in p .. n - 2 : s[i] # QP_ESCAPE
                    \/ /\ e \in p .. n - 2 /\ s[e] = QP_ESCAPE
                       /\ \A i \in p .. e - 1 : s[i] # QP_ESCAPE
      PROVE  E = e
  <2>1. CASE e = 0 \/ E = 0
    BY <1>3, <1>6, <1>7, <2>1
  <2>2. CASE e # 0 /\ E # 0
    <3>1. e \in p .. n - 2 /\ E \in p .. n - 2 /\ s[e] = QP_ESCAPE /\ s[E] = QP_ESCAPE
      BY <1>6, <1>7, <2>2
    <3>2. e \notin p .. E - 1 /\ E \notin p .. e - 1
      BY <1>6, <1>7, <2>2, <3>1
    <3> QED BY <1>3, <3>1, <3>2
  <2> QED BY <2>1, <2>2
<1>8. E \in Nat
  BY <1>3, <1>6
<1> QED BY <1>6, <1>7, <1>8 DEF EscapeAt, E, n

EolsTo(s, p, q) ==
  /\ q \in p .. Len(s) + 1
  /\ \A i \in p .. q - 1 : IsEol(s[i])
  /\ q <= Len(s) => ~IsEol(s[q])

LEMMA AfterEolsIs ==
  ASSUME NEW s, Len(s) \in Nat, NEW p \in Positions, p <= Len(s) + 1
  PROVE  /\ EolsTo(s, p, AfterEols(s, p))
         /\ \A q : EolsTo(s, p, q) => AfterEols(s, p) = q
<1> DEFINE n == Len(s)  I == {i \in p .. n + 1 : i > n \/ ~IsEol(s[i])}
           m == AfterEols(s, p)
<1>1. m = Min(I)
  BY DEF AfterEols
<1>2. n \in Nat /\ p \in Nat /\ p > 0 /\ p <= n + 1
  BY DEF Positions
<1> HIDE DEF n
<1>3. n + 1 \in I
  BY <1>2
<1>4. I # {} /\ I \subseteq Int /\ 0 \in Int /\ \A y \in I : 0 <= y
  <2>1. I \subseteq p .. n + 1
    OBVIOUS
  <2>2. \A y \in p .. n + 1 : y \in Int /\ 0 <= y
    BY <1>2
  <2> HIDE DEF I
  <2> QED BY <1>3, <2>1, <2>2
<1>5. m \in I /\ \A y \in I : m <= y
  <2> HIDE DEF I, m
  <2> QED BY <1>1, <1>4, MinExists
<1> HIDE DEF m
<1>6. /\ m \in p .. n + 1 /\ \A i \in p .. m - 1 : IsEol(s[i])
      /\ m <= n => ~IsEol(s[m])
  BY <1>2, <1>5
<1>7. ASSUME NEW q, q \in p .. n + 1, \A i \in p .. q - 1 : IsEol(s[i]),
             q <= n => ~IsEol(s[q])
      PROVE  m = q
  <2>1. m \notin p .. q - 1 /\ q \notin p .. m - 1
    <3>1. ASSUME m \in p .. q - 1 PROVE FALSE
      <4>1. m <= n
        BY <1>2, <1>6, <1>7, <3>1
      <4> QED BY <1>6, <1>7, <3>1, <4>1
    <3>2. ASSUME q \in p .. m - 1 PROVE FALSE
      <4>1. q <= n
        BY <1>2, <1>6, <1>7, <3>2
      <4> QED BY <1>6, <1>7, <3>2, <4>1
    <3> QED BY <3>1, <3>2
  <2> QED BY <1>2, <1>6, <1>7, <2>1
<1> QED BY <1>6, <1>7 DEF EolsTo, m, n

(* Moving down is a copy, and what is behind stays. *)
LEMMA MovedIs ==
  ASSUME NEW buf \in Seq(Byte), NEW p0 \in Positions, NEW from \in Positions,
         NEW size \in Nat, from + size <= Len(buf) + 1
  PROVE  LET new == Moved(buf, p0, from, size)
         IN /\ new \in Seq(Byte) /\ Len(new) = Len(buf)
            /\ \A i \in 1 .. Len(buf) :
                 new[i] = IF i \in p0 .. p0 + size - 1 THEN buf[from + i - p0] ELSE buf[i]
<1> DEFINE n == Len(buf)  new == Moved(buf, p0, from, size)
<1>1. n \in Nat /\ DOMAIN buf = 1 .. n /\ \A i \in 1 .. n : buf[i] \in Byte
  OBVIOUS
<1>2. p0 \in Nat /\ p0 > 0 /\ from \in Nat /\ from > 0 /\ from + size <= n + 1
  BY DEF Positions
<1>3. \A f \in [1 .. n -> Byte] : f \in Seq(Byte) /\ Len(f) = n
  <2> HIDE DEF n
  <2> QED BY <1>1
<1> HIDE DEF n
<1>4. new = [i \in 1 .. n |-> IF i \in p0 .. p0 + size - 1 THEN buf[from + i - p0] ELSE buf[i]]
  BY <1>1 DEF Moved
<1>5. \A i \in 1 .. n : i \in p0 .. p0 + size - 1 => from + i - p0 \in 1 .. n
  BY <1>1, <1>2
<1>6. new \in [1 .. n -> Byte]
  BY <1>1, <1>4, <1>5
<1>7. \A i \in 1 .. n :
        new[i] = IF i \in p0 .. p0 + size - 1 THEN buf[from + i - p0] ELSE buf[i]
  BY <1>4
<1> HIDE DEF new
<1>8. new \in Seq(Byte) /\ Len(new) = n
  BY <1>3, <1>6
<1> QED BY <1>7, <1>8 DEF new, n

(* One round of the counting pass. *)
ScanPlaces == Positions \X Nat \X Nat
ScanDone(s, d) ==
  LET e == Escape(s, d[1])
  IN e = 0 \/ (~IsEol(s[e + 1]) /\ ~(IsHex(s[e + 1]) /\ IsHex(s[e + 2])))
ScanOut(s, d) ==
  IF Escape(s, d[1]) = 0 THEN [ok |-> TRUE, qpcount |-> d[2], reduce |-> d[3]]
  ELSE [ok |-> FALSE, qpcount |-> 0, reduce |-> 0]
ScanNext(s, d) ==
  LET e == Escape(s, d[1])
      q == AfterEols(s, e + 1)
  IN IF IsEol(s[e + 1]) THEN <<q, d[2], d[3] + q - e>> ELSE <<e + 3, d[2] + 1, d[3] + 2>>

LEMMA ScanNextType ==
  ASSUME NEW s, Len(s) \in Nat, NEW d \in ScanPlaces, Escape(s, d[1]) # 0
  PROVE  /\ ScanNext(s, d) \in ScanPlaces
         /\ ScanNext(s, d)[1] > d[1] /\ d[1] <= Len(s)
<1> DEFINE n == Len(s)  p == d[1]  e == Escape(s, p)  q == AfterEols(s, e + 1)
<1>1. p \in Positions /\ d[2] \in Nat /\ d[3] \in Nat
  BY DEF ScanPlaces
<1>2. EscapeAt(s, p, e)
  BY <1>1, EscapeIs
<1>3. e \in p .. n - 2
  BY <1>2 DEF EscapeAt
<1>4. p \in Nat /\ p > 0 /\ n \in Nat /\ e \in Nat /\ e > 0 /\ e >= p /\ e <= n - 2
  <2>1. p \in Nat /\ p > 0 /\ n \in Nat
    BY <1>1 DEF Positions
  <2> HIDE DEF p, e, n
  <2> QED BY <1>3, <2>1
<1> HIDE DEF p, e, n, q
<1>5. e + 1 \in Positions /\ e + 1 <= n + 1
  BY <1>4 DEF Positions
<1>6. EolsTo(s, e + 1, q)
  BY <1>5, AfterEolsIs DEF q, n
<1>7. q \in e + 1 .. n + 1
  BY <1>6 DEF EolsTo, n
<1>8. /\ q \in Positions /\ e + 3 \in Positions /\ q > p /\ e + 3 > p
      /\ d[3] + q - e \in Nat /\ d[2] + 1 \in Nat /\ d[3] + 2 \in Nat
  BY <1>1, <1>4, <1>7, SMTT(30) DEF Positions
<1> DEFINE r == ScanNext(s, d)
<1>9. r = <<q, d[2], d[3] + q - e>> \/ r = <<e + 3, d[2] + 1, d[3] + 2>>
  BY DEF ScanNext, q, e, p
<1> HIDE DEF r
<1>10. r \in ScanPlaces /\ r[1] > p
  BY <1>1, <1>8, <1>9 DEF ScanPlaces
<1>11. p <= n
  BY <1>4
<1> QED BY <1>10, <1>11 DEF r, p, n

LEMMA ScanRun ==
  ASSUME NEW s, Len(s) \in Nat
  PROVE  \E f : /\ QpScan(s) = f[<<1, 0, 0>>]
                /\ \A d \in ScanPlaces :
                     f[d] = IF ScanDone(s, d) THEN ScanOut(s, d) ELSE f[ScanNext(s, d)]
<1> DEFINE D == ScanPlaces  n == Len(s)
           Stop == {d \in D : ScanDone(s, d)}
           out == [d \in D |-> ScanOut(s, d)]
           R == {ScanOut(s, d) : d \in D}
           next == [d \in D |-> IF ScanDone(s, d) THEN d ELSE ScanNext(s, d)]
           m == [d \in D |-> IF d[1] > n THEN 0 ELSE n + 1 - d[1]]
           Is(f) ==
             f = [d \in Positions \X Nat \X Nat |->
                    LET e == Escape(s, d[1])
                        q == AfterEols(s, e + 1)
                    IN IF e = 0 THEN [ok |-> TRUE, qpcount |-> d[2], reduce |-> d[3]]
                       ELSE IF IsEol(s[e + 1]) THEN f[<<q, d[2], d[3] + q - e>>]
                       ELSE IF IsHex(s[e + 1]) /\ IsHex(s[e + 2])
                            THEN f[<<e + 3, d[2] + 1, d[3] + 2>>]
                       ELSE [ok |-> FALSE, qpcount |-> 0, reduce |-> 0]]
           It == CHOOSE f : Is(f)
<1>1. QpScan(s) = It[<<1, 0, 0>>]
  BY DEF QpScan
<1>2. D = Positions \X Nat \X Nat
  BY DEF ScanPlaces
<1>3. \A d \in D : d[1] \in Nat /\ d[1] > 0
  BY DEF ScanPlaces, Positions
<1>4. ASSUME NEW d \in D, ~ScanDone(s, d)
      PROVE  ScanNext(s, d) \in D /\ ScanNext(s, d)[1] > d[1] /\ d[1] <= n
  BY <1>4, ScanNextType DEF ScanDone
<1>5. out \in [D -> R] /\ next \in [D -> D] /\ m \in [D -> Nat]
  <2>1. m \in [D -> Nat]
    <3> HIDE DEF D
    <3>1. n \in Nat
      OBVIOUS
    <3> HIDE DEF n
    <3> QED BY <1>3, <3>1
  <2> HIDE DEF D, n
  <2> QED BY <1>4, <2>1
<1>6. \A d \in D : d \in Stop \/ m[next[d]] < m[d]
  <2> SUFFICES ASSUME NEW d \in D, ~ScanDone(s, d) PROVE m[next[d]] < m[d]
    OBVIOUS
  <2> DEFINE e == ScanNext(s, d)
  <2>1. e \in D /\ e[1] > d[1] /\ d[1] <= n
    BY <1>4
  <2>2. next[d] = e
    OBVIOUS
  <2>3. n \in Nat /\ d[1] \in Nat /\ e[1] \in Nat
    BY <1>3, <2>1
  <2> HIDE DEF e, D, n, next
  <2>4. m[e] = IF e[1] > n THEN 0 ELSE n + 1 - e[1]
    BY <2>1
  <2>5. m[d] = IF d[1] > n THEN 0 ELSE n + 1 - d[1]
    OBVIOUS
  <2> HIDE DEF m
  <2> QED BY <2>1, <2>2, <2>3, <2>4, <2>5
<1> HIDE DEF Stop, out, next, m, D, R, n
<1>7. PICK f \in [D -> R] : Rounds(D, Stop, out, next, f)
  BY <1>5, <1>6, RoundsExist
<1>8. ASSUME NEW d \in D PROVE f[d] = IF ScanDone(s, d) THEN ScanOut(s, d) ELSE f[ScanNext(s, d)]
  <2>1. f[d] = IF d \in Stop THEN out[d] ELSE f[next[d]]
    BY <1>7 DEF Rounds
  <2>2. /\ d \in Stop <=> ScanDone(s, d)
        /\ out[d] = ScanOut(s, d) /\ (~ScanDone(s, d) => next[d] = ScanNext(s, d))
    BY DEF Stop, out, next
  <2> QED BY <2>1, <2>2
<1>9. \A g : Is(g) <=> g = [d \in D |-> IF ScanDone(s, d) THEN ScanOut(s, d)
                                        ELSE g[ScanNext(s, d)]]
  <2> SUFFICES ASSUME NEW g
               PROVE  Is(g) <=> g = [d \in D |-> IF ScanDone(s, d) THEN ScanOut(s, d)
                                                 ELSE g[ScanNext(s, d)]]
    OBVIOUS
  <2>1. \A d \in D :
          (LET e == Escape(s, d[1])
               q == AfterEols(s, e + 1)
           IN IF e = 0 THEN [ok |-> TRUE, qpcount |-> d[2], reduce |-> d[3]]
              ELSE IF IsEol(s[e + 1]) THEN g[<<q, d[2], d[3] + q - e>>]
              ELSE IF IsHex(s[e + 1]) /\ IsHex(s[e + 2])
                   THEN g[<<e + 3, d[2] + 1, d[3] + 2>>]
              ELSE [ok |-> FALSE, qpcount |-> 0, reduce |-> 0])
            = IF ScanDone(s, d) THEN ScanOut(s, d) ELSE g[ScanNext(s, d)]
    BY Zenon DEF ScanDone, ScanOut, ScanNext
  <2> QED BY <1>2, <2>1, Zenon
<1>10. Is(f)
  <2>1. f = [d \in D |-> f[d]]
    BY <1>7
  <2>2. [d \in D |-> f[d]] = [d \in D |-> IF ScanDone(s, d) THEN ScanOut(s, d)
                                          ELSE f[ScanNext(s, d)]]
    BY <1>8
  <2> HIDE DEF Is
  <2> QED BY <1>9, <2>1, <2>2
<1>11. Is(It)
  BY <1>10
<1> HIDE DEF It, Is
<1>12. It = [d \in D |-> IF ScanDone(s, d) THEN ScanOut(s, d) ELSE It[ScanNext(s, d)]]
  BY <1>9, <1>11, SMTT(30)
<1>13. \A d \in D : It[d] = IF ScanDone(s, d) THEN ScanOut(s, d) ELSE It[ScanNext(s, d)]
  BY <1>12
<1> QED BY <1>1, <1>13 DEF D

(* One round of the decoding pass. *)
DecodePlaces == Seq(Byte) \X Positions \X Positions
DecodeDone(d) == Escape(d[1], d[3]) = 0
DecodeOut(n, d) ==
  [buf |-> Moved(d[1], d[2], d[3], n + 1 - d[3]), size |-> d[2] + n - d[3]]
DecodedByte(x, y) == (16 * HexValue(x) + HexValue(y)) % 256
DecodeNext(d) ==
  LET e == Escape(d[1], d[3])
      at == d[2] + e - d[3]
      kept == Moved(d[1], d[2], d[3], e - d[3])
  IN IF IsEol(kept[e + 1]) THEN <<kept, at, AfterEols(kept, e + 1)>>
     ELSE <<[kept EXCEPT ![at] = DecodedByte(kept[e + 1], kept[e + 2])], at + 1, e + 3>>

LEMMA DecodedIsByte == \A x, y : DecodedByte(x, y) \in Byte
<1> TAKE x, y
<1>1. HexValue(x) \in Int /\ HexValue(y) \in Int
  BY DEF HexValue
<1>2. \A a, b \in Int : (16 * a + b) % 256 \in 0 .. 255
  OBVIOUS
<1> QED BY <1>1, <1>2 DEF DecodedByte, Byte

(* What a round makes of the buffer: in front of p0 nothing changes, then    *)
(* what stood from p2 to the escape and the byte that was decoded; and if p0 *)
(* is not beyond p2, what is behind the escape stays.                       *)
RoundOf(n, buf, p0, p2, e, new, r0, r2) ==
  LET at == p0 + e - p2
  IN /\ new \in Seq(Byte) /\ Len(new) = n /\ r0 \in Positions /\ r2 \in Positions
     /\ r2 > p2
     /\ p0 <= p2 =>
          /\ r0 <= r2
          /\ \A i \in e + 1 .. n : new[i] = buf[i]
          /\ \A i \in 1 .. n : i < at =>
               new[i] = IF i < p0 THEN buf[i] ELSE buf[p2 + i - p0]
          /\ IsEol(buf[e + 1]) => r0 = at /\ EolsTo(buf, e + 1, r2)
          /\ ~IsEol(buf[e + 1]) =>
               /\ r0 = at + 1 /\ r2 = e + 3
               /\ new[at] = DecodedByte(buf[e + 1], buf[e + 2])

LEMMA DecodeNextIs ==
  ASSUME NEW d \in DecodePlaces, ~DecodeDone(d)
  PROVE  LET e == Escape(d[1], d[3])  r == DecodeNext(d)
         IN /\ RoundOf(Len(d[1]), d[1], d[2], d[3], e, r[1], r[2], r[3])
            /\ r \in DecodePlaces /\ d[3] <= Len(d[1]) /\ Len(d[1]) \in Nat
<1> DEFINE buf == d[1]  p0 == d[2]  p2 == d[3]  n == Len(buf)
           e == Escape(buf, p2)  at == p0 + e - p2
           kept == Moved(buf, p0, p2, e - p2)
           byte == DecodedByte(kept[e + 1], kept[e + 2])
           coded == [kept EXCEPT ![at] = byte]
           q == AfterEols(kept, e + 1)
           r == DecodeNext(d)
<1>1. buf \in Seq(Byte) /\ p0 \in Positions /\ p2 \in Positions /\ n \in Nat
  BY DEF DecodePlaces
<1>2. e # 0 /\ EscapeAt(buf, p2, e)
  BY <1>1, EscapeIs DEF DecodeDone
<1>3. e \in p2 .. n - 2
  BY <1>2 DEF EscapeAt
<1>4. p0 \in Nat /\ p0 > 0 /\ p2 \in Nat /\ p2 > 0
  BY <1>1 DEF Positions
<1>5. DOMAIN kept = 1 .. n /\ kept \in Seq(Byte) /\ Len(kept) = n
      /\ \A i \in 1 .. n : /\ kept[i] \in Byte
                           /\ kept[i] = IF i \in p0 .. at - 1 THEN buf[p2 + i - p0] ELSE buf[i]
  <2> DEFINE size == e - p2
  <2>1. size \in Nat /\ p2 + size <= n + 1 /\ at = p0 + size
    <3> HIDE DEF e, p0, p2, n
    <3> QED BY <1>1, <1>3, <1>4
  <2> HIDE DEF size, e, p0, p2, at, buf
  <2>2. /\ Moved(buf, p0, p2, size) \in Seq(Byte) /\ Len(Moved(buf, p0, p2, size)) = n
        /\ \A i \in 1 .. n : Moved(buf, p0, p2, size)[i]
             = IF i \in p0 .. p0 + size - 1 THEN buf[p2 + i - p0] ELSE buf[i]
    BY <1>1, <2>1, MovedIs
  <2>3. kept = Moved(buf, p0, p2, size)
    BY DEF size
  <2> HIDE DEF kept
  <2>4. kept \in Seq(Byte) /\ Len(kept) = n
    BY <2>2, <2>3
  <2>5. DOMAIN kept = 1 .. n /\ \A i \in 1 .. n : kept[i] \in Byte
    <3>1. DOMAIN kept = 1 .. Len(kept) /\ \A i \in 1 .. Len(kept) : kept[i] \in Byte
      BY <2>4
    <3> HIDE DEF n
    <3> QED BY <2>4, <3>1, Zenon
  <2>6. \A i \in 1 .. n : kept[i] = IF i \in p0 .. at - 1 THEN buf[p2 + i - p0] ELSE buf[i]
    <3>1. \A i \in 1 .. n :
            kept[i] = IF i \in p0 .. p0 + size - 1 THEN buf[p2 + i - p0] ELSE buf[i]
      BY <2>2, <2>3, Zenon
    <3>2. p0 + size - 1 = at - 1
      BY <1>4, <2>1
    <3>3. p0 .. p0 + size - 1 = p0 .. at - 1
      BY <3>2
    <3> HIDE DEF n, size
    <3>4. TAKE i \in 1 .. n
    <3>5. kept[i] = IF i \in p0 .. p0 + size - 1 THEN buf[p2 + i - p0] ELSE buf[i]
      BY <3>1
    <3> QED BY <3>3, <3>5
  <2> HIDE DEF n
  <2> QED BY <2>4, <2>5, <2>6
<1>6. r = IF IsEol(kept[e + 1]) THEN <<kept, at, q>> ELSE <<coded, at + 1, e + 3>>
  BY DEF DecodeNext
<1> HIDE DEF r
<1>7. DOMAIN coded = 1 .. n /\ byte \in Byte
      /\ \A i \in 1 .. n : coded[i] = IF i = at THEN byte ELSE kept[i]
  <2> HIDE DEF kept, at, e, n
  <2> QED BY <1>5, DecodedIsByte
<1>8. coded \in Seq(Byte) /\ Len(coded) = n
  <2>1. coded \in [1 .. n -> Byte]
    <3> HIDE DEF kept, at, e, n, byte
    <3> QED BY <1>5, <1>7
  <2> HIDE DEF coded, n
  <2> QED BY <1>1, <2>1
<1> HIDE DEF kept, coded, byte, q, e, p0, p2, n
<1>9. e + 1 \in Positions /\ e + 1 <= n + 1 /\ e \in Nat
  BY <1>1, <1>3, <1>4 DEF Positions
<1>10. EolsTo(kept, e + 1, q)
  BY <1>5, <1>9, <1>1, AfterEolsIs DEF q
<1>11. q \in e + 1 .. n + 1
  BY <1>5, <1>10 DEF EolsTo
<1>12. at \in Positions /\ at + 1 \in Positions /\ e + 3 \in Positions /\ q \in Positions
       /\ q > p2 /\ e + 3 > p2
  BY <1>1, <1>3, <1>4, <1>11 DEF Positions
<1>13. r[1] \in Seq(Byte) /\ Len(r[1]) = n /\ r[2] \in Positions /\ r[3] \in Positions
       /\ r[3] > p2 /\ r \in DecodePlaces
  BY <1>5, <1>6, <1>8, <1>12 DEF DecodePlaces
<1>14. ASSUME p0 <= p2
       PROVE /\ r[2] <= r[3]
             /\ \A i \in e + 1 .. n : r[1][i] = buf[i]
             /\ \A i \in 1 .. n : i < at =>
                  r[1][i] = IF i < p0 THEN buf[i] ELSE buf[p2 + i - p0]
             /\ IsEol(buf[e + 1]) => r[2] = at /\ EolsTo(buf, e + 1, r[3])
             /\ ~IsEol(buf[e + 1]) =>
                  /\ r[2] = at + 1 /\ r[3] = e + 3
                  /\ r[1][at] = DecodedByte(buf[e + 1], buf[e + 2])
  <2>1. at <= e /\ at \in 1 .. n
    BY <1>1, <1>3, <1>4, <1>14
  <2>2. \A i \in e + 1 .. n : i \in 1 .. n /\ kept[i] = buf[i]
    BY <1>1, <1>5, <1>9, <2>1, <1>4
  <2>3. \A i \in 1 .. n : i < at =>
          kept[i] = IF i < p0 THEN buf[i] ELSE buf[p2 + i - p0]
    BY <1>1, <1>5, <1>9, <2>1, <1>4
  <2>4. e + 1 \in e + 1 .. n /\ e + 2 \in e + 1 .. n
    BY <1>1, <1>3, <1>9
  <2>5. kept[e + 1] = buf[e + 1] /\ byte = DecodedByte(buf[e + 1], buf[e + 2])
    BY <2>2, <2>4 DEF byte
  <2>6. CASE IsEol(buf[e + 1])
    <3>1. r[1] = kept /\ r[2] = at /\ r[3] = q
      BY <1>6, <2>5, <2>6
    <3>2. EolsTo(buf, e + 1, q)
      BY <1>10, <1>5, <2>2, <1>11, <1>1, <1>9 DEF EolsTo, n
    <3>3. at <= q
      BY <2>1, <1>11, <1>9, <1>1
    <3> HIDE DEF at
    <3> QED BY <2>2, <2>3, <2>6, <3>1, <3>2, <3>3
  <2>7. CASE ~IsEol(buf[e + 1])
    <3>1. r[1] = coded /\ r[2] = at + 1 /\ r[3] = e + 3
      BY <1>6, <2>5, <2>7
    <3>2. at \in Nat /\ e \in Nat
      BY <2>1, <1>9, <1>1
    <3> HIDE DEF at
    <3>3. at + 1 <= e + 3
      BY <2>1, <3>2
    <3>4. \A i \in e + 1 .. n : coded[i] = buf[i]
      BY <1>7, <2>1, <2>2, <3>2, <1>1
    <3>5. \A i \in 1 .. n : i < at => coded[i] = kept[i]
      BY <1>7, <3>2, <1>1
    <3>6. coded[at] = byte
      BY <1>7, <2>1
    <3> QED BY <2>3, <2>5, <2>7, <3>1, <3>3, <3>4, <3>5, <3>6
  <2> QED BY <2>6, <2>7
<1>15. p2 <= n
  BY <1>1, <1>3, <1>4
<1>16. RoundOf(n, buf, p0, p2, e, r[1], r[2], r[3])
  BY <1>13, <1>14 DEF RoundOf
<1> QED BY <1>1, <1>13, <1>15, <1>16 DEF r, buf, p0, p2, e, n

LEMMA DecodeRun ==
  ASSUME NEW s
  PROVE  \E f : /\ QpDecode(s) = f[<<s, 1, 1>>]
                /\ \A d \in DecodePlaces :
                     f[d] = IF DecodeDone(d) THEN DecodeOut(Len(s), d) ELSE f[DecodeNext(d)]
<1> DEFINE D == DecodePlaces
           height(d) == IF d[3] > Len(d[1]) THEN 0 ELSE Len(d[1]) + 1 - d[3]
           Stop == {d \in D : DecodeDone(d)}
           out == [d \in D |-> DecodeOut(Len(s), d)]
           R == {DecodeOut(Len(s), d) : d \in D}
           next == [d \in D |-> IF DecodeDone(d) THEN d ELSE DecodeNext(d)]
           m == [d \in D |-> height(d)]
           Body(f, d) ==
             LET buf == d[1]
                 p0 == d[2]
                 p2 == d[3]
                 e == Escape(buf, p2)
                 at == p0 + e - p2
                 kept == Moved(buf, p0, p2, e - p2)
                 byte == (16 * HexValue(kept[e + 1]) + HexValue(kept[e + 2])) % 256
             IN IF e = 0
                THEN [buf |-> Moved(buf, p0, p2, Len(s) + 1 - p2), size |-> p0 + Len(s) - p2]
                ELSE IF IsEol(kept[e + 1])
                     THEN f[<<kept, at, AfterEols(kept, e + 1)>>]
                ELSE f[<<[kept EXCEPT ![at] = byte], at + 1, e + 3>>]
           Is(f) == f = [d \in Seq(Byte) \X Positions \X Positions |-> Body(f, d)]
           It == CHOOSE f : Is(f)
<1>1. QpDecode(s) = It[<<s, 1, 1>>]
  BY DEF QpDecode
<1>2. D = Seq(Byte) \X Positions \X Positions
  BY DEF DecodePlaces
<1>3. \A d \in D : d[3] \in Nat /\ d[3] > 0 /\ Len(d[1]) \in Nat /\ height(d) \in Nat
  <2> SUFFICES ASSUME NEW d \in D
               PROVE  d[3] \in Nat /\ d[3] > 0 /\ Len(d[1]) \in Nat /\ height(d) \in Nat
    OBVIOUS
  <2>1. d[1] \in Seq(Byte) /\ d[3] \in Nat /\ d[3] > 0
    BY DEF DecodePlaces, Positions
  <2>2. Len(d[1]) \in Nat
    BY <2>1
  <2> QED BY <2>1, <2>2
<1>4. ASSUME NEW d \in D, ~DecodeDone(d)
      PROVE  DecodeNext(d) \in D /\ height(DecodeNext(d)) < height(d)
  <2> DEFINE e == DecodeNext(d)  l == Len(d[1])
  <2>1. /\ RoundOf(l, d[1], d[2], d[3], Escape(d[1], d[3]), e[1], e[2], e[3])
        /\ e \in D /\ d[3] <= l
    BY <1>4, DecodeNextIs
  <2>2. Len(e[1]) = l /\ e[3] > d[3]
    BY <2>1 DEF RoundOf
  <2>3. d[3] \in Nat /\ e[3] \in Nat /\ l \in Nat
    BY <1>3, <2>1
  <2> HIDE DEF e, l, D
  <2>4. (IF e[3] > l THEN 0 ELSE l + 1 - e[3]) < l + 1 - d[3]
    BY <2>1, <2>2, <2>3
  <2>5. height(e) = (IF e[3] > l THEN 0 ELSE l + 1 - e[3]) /\ height(d) = l + 1 - d[3]
    BY <2>1, <2>2, <2>3 DEF l
  <2> HIDE DEF height
  <2> QED BY <2>1, <2>4, <2>5 DEF e
<1>5. out \in [D -> R] /\ next \in [D -> D] /\ m \in [D -> Nat]
  <2> HIDE DEF D, height
  <2> QED BY <1>3, <1>4
<1>6. \A d \in D : d \in Stop \/ m[next[d]] < m[d]
  <2> SUFFICES ASSUME NEW d \in D, ~DecodeDone(d) PROVE m[next[d]] < m[d]
    OBVIOUS
  <2>1. DecodeNext(d) \in D /\ height(DecodeNext(d)) < height(d)
    BY <1>4
  <2>2. next[d] = DecodeNext(d) /\ m[d] = height(d)
    OBVIOUS
  <2>3. m[DecodeNext(d)] = height(DecodeNext(d))
    BY <2>1
  <2> HIDE DEF m, next, height, D
  <2> QED BY <2>1, <2>2, <2>3
<1> HIDE DEF Stop, out, next, m, height, D, R
<1>7. PICK f \in [D -> R] : Rounds(D, Stop, out, next, f)
  BY <1>5, <1>6, RoundsExist
<1>8. ASSUME NEW d \in D PROVE f[d] = IF DecodeDone(d) THEN DecodeOut(Len(s), d) ELSE f[DecodeNext(d)]
  <2>1. f[d] = IF d \in Stop THEN out[d] ELSE f[next[d]]
    BY <1>7 DEF Rounds
  <2>2. /\ d \in Stop <=> DecodeDone(d)
        /\ out[d] = DecodeOut(Len(s), d) /\ (~DecodeDone(d) => next[d] = DecodeNext(d))
    BY DEF Stop, out, next
  <2> QED BY <2>1, <2>2
<1>9. \A g : Is(g) <=> g = [d \in D |-> IF DecodeDone(d) THEN DecodeOut(Len(s), d)
                                        ELSE g[DecodeNext(d)]]
  <2> SUFFICES ASSUME NEW g
               PROVE  Is(g) <=> g = [d \in D |-> IF DecodeDone(d) THEN DecodeOut(Len(s), d)
                                                 ELSE g[DecodeNext(d)]]
    OBVIOUS
  <2>1. \A d \in D : Body(g, d) = IF DecodeDone(d) THEN DecodeOut(Len(s), d)
                                 ELSE g[DecodeNext(d)]
    BY Zenon DEF DecodeDone, DecodeOut, DecodeNext, DecodedByte
  <2> HIDE DEF Body
  <2> QED BY <1>2, <2>1, Zenon
<1> HIDE DEF Body
<1>10. Is(f)
  <2>1. f = [d \in D |-> f[d]]
    BY <1>7
  <2>2. [d \in D |-> f[d]] = [d \in D |-> IF DecodeDone(d) THEN DecodeOut(Len(s), d)
                                          ELSE f[DecodeNext(d)]]
    BY <1>8
  <2> HIDE DEF Is
  <2>3. f = [d \in D |-> IF DecodeDone(d) THEN DecodeOut(Len(s), d)
                         ELSE f[DecodeNext(d)]]
    BY <2>1, <2>2
  <2> QED BY <1>9, <2>3
<1>11. Is(It)
  <2> HIDE DEF Is
  <2> QED BY <1>10
<1> HIDE DEF It, Is
<1>12. It = [d \in D |-> IF DecodeDone(d) THEN DecodeOut(Len(s), d) ELSE It[DecodeNext(d)]]
  BY <1>9, <1>11
<1>13. \A d \in D : It[d] = IF DecodeDone(d) THEN DecodeOut(Len(s), d) ELSE It[DecodeNext(d)]
  BY <1>12
<1> QED BY <1>1, <1>13 DEF D

(* Both passes find the same escapes: what is ahead of p2 is untouched, and   *)
(* p0 is behind p2 by what was saved so far.                                 *)
InStep(s, d, r) ==
  /\ d \in DecodePlaces /\ r \in Nat /\ Len(d[1]) = Len(s)
  /\ d[2] = d[3] - r /\ \A i \in d[3] .. Len(s) : d[1][i] = s[i]

LEMMA SameEscape ==
  ASSUME NEW s \in Seq(Byte), NEW d \in DecodePlaces, Len(d[1]) = Len(s),
         \A i \in d[3] .. Len(s) : d[1][i] = s[i]
  PROVE  Escape(d[1], d[3]) = Escape(s, d[3])
<1> DEFINE buf == d[1]  p == d[3]  e == Escape(s, p)  n == Len(s)
<1>1. p \in Positions /\ n \in Nat /\ p \in Nat /\ Len(buf) = n
  BY DEF DecodePlaces, Positions
<1>2. EscapeAt(s, p, e)
  BY <1>1, EscapeIs
<1>3. EscapeAt(buf, p, e)
  <2> HIDE DEF e, p, n, buf
  <2>1. \A i \in p .. n : buf[i] = s[i]
    BY DEF p, n, buf
  <2>2. Len(s) = n
    BY DEF n
  <2>3. \A i \in p .. n - 2 : i \in p .. n
    BY <1>1
  <2>4. e \in p .. n - 2 => \A i \in p .. e - 1 : i \in p .. n
    BY <1>1
  <2> QED BY <1>1, <1>2, <2>1, <2>2, <2>3, <2>4 DEF EscapeAt
<1>4. Escape(buf, p) = e
  <2> HIDE DEF e
  <2> QED BY <1>1, <1>3, EscapeIs
<1> QED BY <1>4

LEMMA StayInStep ==
  ASSUME NEW s \in Seq(Byte), NEW d, NEW c \in Nat, NEW r, InStep(s, d, r),
         ~ScanDone(s, <<d[3], c, r>>)
  PROVE  LET x == ScanNext(s, <<d[3], c, r>>)  y == DecodeNext(d)
         IN /\ ~DecodeDone(d) /\ y[3] > d[3] /\ y[3] = x[1] /\ x[2] \in Nat
            /\ x = <<x[1], x[2], x[3]>> /\ InStep(s, y, x[3])
<1> DEFINE buf == d[1]  p0 == d[2]  p2 == d[3]  n == Len(s)
           e == Escape(s, p2)  q == AfterEols(s, e + 1)
           a == <<p2, c, r>>  x == ScanNext(s, a)  y == DecodeNext(d)
<1>1. /\ d \in DecodePlaces /\ r \in Nat /\ Len(buf) = n /\ n \in Nat
      /\ p0 = p2 - r /\ \A i \in p2 .. n : buf[i] = s[i]
  BY DEF InStep
<1>2. p0 \in Nat /\ p0 > 0 /\ p2 \in Positions /\ p2 \in Nat /\ p2 > 0
  BY <1>1 DEF DecodePlaces, Positions
<1>3. Escape(buf, p2) = e
  BY <1>1, SameEscape
<1>4. a \in ScanPlaces /\ a[1] = p2 /\ a[2] = c /\ a[3] = r
  BY <1>1, <1>2 DEF ScanPlaces
<1> HIDE DEF a
<1>5. e # 0 /\ (IsEol(s[e + 1]) \/ (IsHex(s[e + 1]) /\ IsHex(s[e + 2])))
  BY <1>4 DEF ScanDone, a
<1>6. EscapeAt(s, p2, e)
  BY <1>1, <1>2, EscapeIs
<1>7. e \in p2 .. n - 2 /\ e \in Nat
  BY <1>2, <1>5, <1>6 DEF EscapeAt
<1>8. x \in ScanPlaces
  BY <1>1, <1>4, <1>5, ScanNextType
<1>9. x = IF IsEol(s[e + 1]) THEN <<q, c, r + q - e>> ELSE <<e + 3, c + 1, r + 2>>
  BY <1>4 DEF ScanNext
<1>10. ~DecodeDone(d)
  BY <1>3, <1>5 DEF DecodeDone
<1>11. RoundOf(n, buf, p0, p2, e, y[1], y[2], y[3]) /\ y \in DecodePlaces
  BY <1>1, <1>3, <1>10, DecodeNextIs
<1> HIDE DEF x, y, q, e, p0, p2, n, buf
<1>12. p0 <= p2 /\ p0 + e - p2 = e - r
  BY <1>1, <1>2, <1>7
<1>13. /\ y[3] > p2 /\ Len(y[1]) = n /\ \A i \in e + 1 .. n : y[1][i] = buf[i]
       /\ IsEol(buf[e + 1]) => y[2] = e - r /\ EolsTo(buf, e + 1, y[3])
       /\ ~IsEol(buf[e + 1]) => y[2] = (e - r) + 1 /\ y[3] = e + 3
  BY <1>11, <1>12 DEF RoundOf
<1>14. \A i \in e + 1 .. n : i \in p2 .. n
  BY <1>1, <1>2, <1>7
<1>15. e + 1 \in e + 1 .. n /\ buf[e + 1] = s[e + 1]
  BY <1>1, <1>7, <1>14
<1>16. y[3] \in Nat /\ e < y[3]
  <2>1. y[3] \in Nat
    BY <1>11 DEF DecodePlaces, Positions
  <2>2. IsEol(buf[e + 1]) => y[3] \in e + 1 .. n + 1
    BY <1>1, <1>13 DEF EolsTo
  <2> QED BY <1>1, <1>7, <1>13, <2>1, <2>2, SMTT(30)
<1>17. y[3] = x[1] /\ x[2] \in Nat /\ x = <<x[1], x[2], x[3]>> /\ x[3] \in Nat
       /\ y[2] = y[3] - x[3]
  <2>1. CASE IsEol(s[e + 1])
    <3>1. EolsTo(buf, e + 1, y[3]) /\ y[2] = e - r /\ x = <<q, c, r + q - e>>
      BY <1>9, <1>13, <1>15, <2>1
    <3>2. EolsTo(s, e + 1, y[3])
      <4>1. y[3] \in e + 1 .. n + 1
        BY <1>1, <3>1 DEF EolsTo
      <4>2. \A i \in e + 1 .. n : buf[i] = s[i]
        BY <1>1, <1>14
      <4>3. \A i \in e + 1 .. y[3] - 1 : i \in e + 1 .. n
        BY <1>1, <1>7, <4>1
      <4>4. y[3] <= n => y[3] \in e + 1 .. n
        BY <1>1, <1>7, <4>1
      <4>5. Len(s) = n
        BY DEF n
      <4> QED BY <1>1, <3>1, <4>1, <4>2, <4>3, <4>4, <4>5 DEF EolsTo
    <3>3. e + 1 \in Positions /\ e + 1 <= Len(s) + 1 /\ Len(s) \in Nat
      BY <1>1, <1>7 DEF Positions, n
    <3>4. q = y[3]
      BY <3>2, <3>3, AfterEolsIs DEF q
    <3>5. x[1] = q /\ x[2] = c /\ x[3] = r + q - e /\ x = <<x[1], x[2], x[3]>>
      BY <3>1
    <3> QED BY <1>1, <1>7, <1>16, <3>1, <3>4, <3>5
  <2>2. CASE ~IsEol(s[e + 1])
    <3>1. y[2] = (e - r) + 1 /\ y[3] = e + 3 /\ x = <<e + 3, c + 1, r + 2>>
      BY <1>9, <1>13, <1>15, <2>2
    <3>2. x[1] = e + 3 /\ x[2] = c + 1 /\ x[3] = r + 2 /\ x = <<x[1], x[2], x[3]>>
      BY <3>1
    <3> QED BY <1>1, <1>7, <3>1, <3>2
  <2> QED BY <2>1, <2>2
<1>18. \A i \in y[3] .. n : y[1][i] = s[i]
  <2> SUFFICES ASSUME NEW i \in y[3] .. n PROVE y[1][i] = s[i]
    OBVIOUS
  <2>1. i \in e + 1 .. n
    BY <1>1, <1>7, <1>16
  <2> QED BY <1>1, <1>13, <1>14, <2>1
<1>19. InStep(s, y, x[3])
  BY <1>11, <1>13, <1>17, <1>18 DEF InStep, n
<1> QED BY <1>10, <1>13, <1>17, <1>19 DEF x, y, a, p2

LEMMA SizeTold ==
  ASSUME NEW s \in Seq(Byte), QpScan(s).ok
  PROVE  QpDecode(s).size = Len(s) - QpScan(s).reduce
<1> DEFINE D == DecodePlaces  n == Len(s)
           height(d) == IF d[3] > n THEN 0 ELSE n + 1 - d[3]
           m == [d \in D |-> height(d)]
<1>0. n \in Nat
  OBVIOUS
<1>1. PICK f : /\ QpScan(s) = f[<<1, 0, 0>>]
               /\ \A d \in ScanPlaces :
                    f[d] = IF ScanDone(s, d) THEN ScanOut(s, d) ELSE f[ScanNext(s, d)]
  BY <1>0, ScanRun
<1>2. PICK g : /\ QpDecode(s) = g[<<s, 1, 1>>]
               /\ \A d \in DecodePlaces :
                    g[d] = IF DecodeDone(d) THEN DecodeOut(n, d) ELSE g[DecodeNext(d)]
  BY DecodeRun
<1> HIDE DEF n
<1> DEFINE Agree(d) ==
             \A c, r \in Nat : InStep(s, d, r) /\ f[<<d[3], c, r>>].ok
                               => g[d].size = n - f[<<d[3], c, r>>].reduce
           T == {d \in D : Agree(d)}
<1>3. \A d \in D : d[3] \in Nat /\ d[3] \in Positions
  BY DEF DecodePlaces, Positions
<1>4. m \in [D -> Nat]
  <2> HIDE DEF D
  <2> QED BY <1>0, <1>3
<1>5. ASSUME NEW d \in D, \A y \in D : m[y] < m[d] => y \in T PROVE Agree(d)
  <2> SUFFICES ASSUME NEW c \in Nat, NEW r \in Nat, InStep(s, d, r), f[<<d[3], c, r>>].ok
               PROVE  g[d].size = n - f[<<d[3], c, r>>].reduce
    OBVIOUS
  <2> DEFINE a == <<d[3], c, r>>  x == ScanNext(s, a)  y == DecodeNext(d)
  <2>1. a \in ScanPlaces /\ a[3] = r /\ a[1] = d[3]
    BY <1>3 DEF ScanPlaces
  <2>2. f[a] = IF ScanDone(s, a) THEN ScanOut(s, a) ELSE f[x]
    BY <1>1, <2>1
  <2>3. g[d] = IF DecodeDone(d) THEN DecodeOut(n, d) ELSE g[y]
    BY <1>2
  <2>4. CASE ScanDone(s, a)
    <3>1. ScanOut(s, a).ok
      BY <2>2, <2>4
    <3>2. Escape(s, a[1]) = 0
      BY <3>1 DEF ScanOut
    <3>3. Escape(d[1], d[3]) = 0
      BY <2>1, <3>2, SameEscape DEF InStep
    <3>4. f[a].reduce = r
      BY <2>1, <2>2, <2>4, <3>2 DEF ScanOut
    <3>5. g[d].size = d[2] + n - d[3]
      BY <2>3, <3>3 DEF DecodeDone, DecodeOut
    <3>6. d[2] = d[3] - r
      BY DEF InStep
    <3> QED BY <1>0, <1>3, <3>4, <3>5, <3>6
  <2>5. CASE ~ScanDone(s, a)
    <3>1. /\ ~DecodeDone(d) /\ y[3] > d[3] /\ y[3] = x[1] /\ x[2] \in Nat
          /\ x = <<x[1], x[2], x[3]>> /\ InStep(s, y, x[3])
      BY <2>5, StayInStep
    <3>2. y \in D /\ x[3] \in Nat
      BY <3>1 DEF InStep
    <3>3. x = <<y[3], x[2], x[3]>> /\ f[a] = f[x] /\ g[d] = g[y]
      BY <2>2, <2>3, <2>5, <3>1
    <3>4. m[y] < m[d]
      <4>1. d[3] <= n
        <5>1. Escape(d[1], d[3]) # 0
          BY <3>1 DEF DecodeDone
        <5>2. d[3] <= Len(d[1])
          BY <3>1, DecodeNextIs
        <5> QED BY <5>2 DEF InStep, n
      <4>2. m[y] = height(y) /\ m[d] = height(d)
        BY <3>2
      <4>3. d[3] \in Nat /\ y[3] \in Nat
        BY <1>3, <3>2
      <4> HIDE DEF m, y, D
      <4> QED BY <1>0, <3>1, <4>1, <4>2, <4>3, SMTT(30)
    <3>5. y \in T
      BY <1>5, <3>2, <3>4
    <3> HIDE DEF x, y, a
    <3>6. f[x].ok
      BY <3>3 DEF a
    <3>7. g[y].size = n - f[x].reduce
      BY <3>1, <3>2, <3>3, <3>5, <3>6
    <3> QED BY <3>3, <3>7 DEF a
  <2> QED BY <2>4, <2>5
<1>6. \A d \in D : d \in T
  <2>1. \A d \in D : (\A y \in D : m[y] < m[d] => y \in T) => d \in T
    <3> HIDE DEF Agree, m
    <3> QED BY <1>5
  <2> HIDE DEF T, m, D
  <2> QED BY <1>4, <2>1, HeightInduction
<1> DEFINE d == <<s, 1, 1>>
<1>7. d \in D /\ d[1] = s /\ d[2] = 1 /\ d[3] = 1
  BY DEF DecodePlaces, Positions
<1>8. InStep(s, d, 0)
  BY <1>7 DEF InStep
<1>9. Agree(d)
  <2>1. d \in T
    <3> HIDE DEF T, d, D
    <3> QED BY <1>6, <1>7
  <2> HIDE DEF Agree, d, D
  <2> QED BY <2>1
<1>10. f[<<d[3], 0, 0>>] = QpScan(s) /\ g[d] = QpDecode(s)
  BY <1>1, <1>2, <1>7
<1> HIDE DEF d
<1>11. 0 \in Nat /\ f[<<d[3], 0, 0>>].ok
  BY <1>10
<1>12. g[d].size = n - f[<<d[3], 0, 0>>].reduce
  BY <1>8, <1>9, <1>11
<1> QED BY <1>10, <1>12 DEF n

(* How joined sequences lie one behind the other. *)
JoinedBy(n, q, J) ==
  /\ J[0] = <<>> /\ \A k \in 1 .. n : J[k] = J[k - 1] \o q[k]

LEMMA JoinRun ==
  ASSUME NEW X, NEW n \in Nat, NEW q \in Seq(Seq(X)), Len(q) = n
  PROVE  \E J \in [0 .. n -> Seq(X)] : JoinedBy(n, q, J) /\ Join(q) = J[n]
<1>1. DOMAIN q = 1 .. n /\ \A i \in 1 .. n : q[i] \in Seq(X)
  OBVIOUS
<1>2. CASE n = 0
  <2> DEFINE J == [k \in 0 .. n |-> <<>>]
  <2>1. q = <<>>
    BY <1>2
  <2>2. Join(q) = <<>>
    BY <1>2, <2>1 DEF Join, FlattenSeq
  <2>3. J \in [0 .. n -> Seq(X)] /\ J[0] = <<>> /\ J[n] = <<>> /\ 1 .. n = {}
    BY <1>2
  <2> QED BY <2>2, <2>3 DEF JoinedBy
<1>3. CASE n # 0
  <2> DEFINE Is(f) == f = [i \in 1 .. Len(q) |-> IF i = 1 THEN q[i] ELSE f[i - 1] \o q[i]]
             It == CHOOSE f : Is(f)
             H == [p \in (1 .. n) \X Seq(X) |-> p[2] \o q[p[1]]]
             J == [k \in 0 .. n |-> IF k = 0 THEN <<>> ELSE It[k]]
  <2>1. Join(q) = It[n]
    BY <1>3 DEF Join, FlattenSeq
  <2>2. H \in [(1 .. n) \X Seq(X) -> Seq(X)]
    <3> SUFFICES ASSUME NEW p \in (1 .. n) \X Seq(X) PROVE p[2] \o q[p[1]] \in Seq(X)
      OBVIOUS
    <3>1. p[2] \in Seq(X) /\ q[p[1]] \in Seq(X)
      BY <1>1
    <3> QED BY <3>1
  <2>3. \A i \in 1 .. n, x \in Seq(X) : H[<<i, x>>] = x \o q[i]
    OBVIOUS
  <2> HIDE DEF H
  <2>4. <<>> \in Seq(X)
    OBVIOUS
  <2>5. PICK g \in [0 .. n -> Seq(X)] : Looping(n, <<>>, H, g)
    BY <2>2, <2>4, LoopExists
  <2>6. Is([i \in 1 .. n |-> g[i]])
    <3> DEFINE f == [i \in 1 .. n |-> g[i]]
    <3>1. ASSUME NEW i \in 1 .. n PROVE f[i] = IF i = 1 THEN q[i] ELSE f[i - 1] \o q[i]
      <4>1. i \in 0 .. n /\ i # 0 /\ i - 1 \in 0 .. n
        OBVIOUS
      <4>2. g[i - 1] \in Seq(X)
        BY <4>1
      <4>3. g[i] = g[i - 1] \o q[i]
        BY <2>3, <2>5, <4>1, <4>2 DEF Looping
      <4>4. CASE i = 1
        <5>1. g[i - 1] = <<>>
          BY <2>5, <4>4 DEF Looping
        <5> QED BY <1>1, <4>3, <4>4, <5>1
      <4>5. CASE i # 1
        <5>1. i - 1 \in 1 .. n
          BY <4>5
        <5> QED BY <4>3, <4>5, <5>1
      <4> QED BY <4>4, <4>5
    <3>2. f = [i \in 1 .. n |-> f[i]]
      OBVIOUS
    <3> HIDE DEF f
    <3> QED BY <3>1, <3>2 DEF f
  <2>7. Is(It)
    <3> HIDE DEF Is
    <3> QED BY <2>6
  <2> HIDE DEF It
  <2>8. \A i \in 1 .. n : It[i] = IF i = 1 THEN q[i] ELSE It[i - 1] \o q[i]
    BY <2>7
  <2>9. J[0] = <<>> /\ J[n] = It[n]
    BY <1>3
  <2>10. \A k \in 1 .. n : J[k] = J[k - 1] \o q[k]
    <3> SUFFICES ASSUME NEW k \in 1 .. n PROVE J[k] = J[k - 1] \o q[k]
      OBVIOUS
    <3>1. J[k] = It[k]
      OBVIOUS
    <3>2. CASE k = 1
      <4>1. J[k - 1] = <<>>
        BY <3>2
      <4>2. q[k] = <<>> \o q[k]
        BY <1>1
      <4> QED BY <2>8, <3>1, <3>2, <4>1, <4>2
    <3>3. CASE k # 1
      <4>1. J[k - 1] = It[k - 1]
        BY <3>3
      <4> QED BY <2>8, <3>1, <3>3, <4>1
    <3> QED BY <3>2, <3>3
  <2>11. DOMAIN J = 0 .. n /\ J = [k \in 0 .. n |-> J[k]]
    OBVIOUS
  <2> HIDE DEF J
  <2> DEFINE T == {k \in Nat : J[k] \in Seq(X)}
  <2>12. 0 \in T
    BY <2>4, <2>9
  <2>13. \A k \in 0 .. n - 1 : k \in T => k + 1 \in T
    <3> SUFFICES ASSUME NEW k \in 0 .. n - 1, J[k] \in Seq(X) PROVE J[k + 1] \in Seq(X)
      OBVIOUS
    <3>1. k + 1 \in 1 .. n /\ (k + 1) - 1 = k
      OBVIOUS
    <3>2. J[k + 1] = J[k] \o q[k + 1]
      BY <2>10, <3>1
    <3> QED BY <1>1, <3>1, <3>2
  <2>14. \A k \in 0 .. n : k \in T
    <3> HIDE DEF T
    <3> QED BY <2>12, <2>13, UpTo
  <2>15. J \in [0 .. n -> Seq(X)]
    BY <2>11, <2>14
  <2> QED BY <2>1, <2>9, <2>10, <2>15 DEF JoinedBy
<1> QED BY <1>2, <1>3

LEMMA ConcatIs ==
  ASSUME NEW X, NEW a \in Seq(X), NEW b \in Seq(X)
  PROVE  /\ Len(a \o b) = Len(a) + Len(b)
         /\ \A i \in 1 .. Len(a) : (a \o b)[i] = a[i]
         /\ \A i \in 1 .. Len(b) : (a \o b)[Len(a) + i] = b[i]
OBVIOUS

(* What was joined first is in front in all that follows. *)
JoinedIn(X, n, q, J) ==
  /\ n \in Nat /\ q \in Seq(Seq(X)) /\ Len(q) = n /\ J \in [0 .. n -> Seq(X)]
  /\ JoinedBy(n, q, J)
InPlace(n, q, J, k) ==
  /\ Len(J[k]) = Len(J[k - 1]) + Len(q[k]) /\ Len(J[k]) <= Len(J[n])
  /\ \A i \in 1 .. Len(q[k]) : J[n][Len(J[k - 1]) + i] = q[k][i]

LEMMA JoinPlaces ==
  ASSUME NEW X, NEW n, NEW q, NEW J, JoinedIn(X, n, q, J), NEW k \in 1 .. n
  PROVE  InPlace(n, q, J, k)
<1> SUFFICES ASSUME n \in Nat, q \in Seq(Seq(X)), Len(q) = n, J \in [0 .. n -> Seq(X)],
                    JoinedBy(n, q, J)
             PROVE  /\ Len(J[k]) = Len(J[k - 1]) + Len(q[k]) /\ Len(J[k]) <= Len(J[n])
                    /\ \A i \in 1 .. Len(q[k]) : J[n][Len(J[k - 1]) + i] = q[k][i]
  BY DEF JoinedIn, InPlace
<1>1. \A i \in 1 .. n : q[i] \in Seq(X) /\ i - 1 \in 0 .. n /\ i \in 0 .. n
  OBVIOUS
<1>2. \A i \in 1 .. n : J[i] = J[i - 1] \o q[i]
  BY DEF JoinedBy
<1> DEFINE InFront(j) == Len(J[k]) <= Len(J[j]) /\ \A i \in 1 .. Len(J[k]) : J[j][i] = J[k][i]
           T == {c \in Nat : InFront(k + c)}
<1>3. 0 \in T
  <2>1. k + 0 = k /\ J[k] \in Seq(X)
    OBVIOUS
  <2>2. Len(J[k]) \in Nat
    BY <2>1
  <2> QED BY <2>1, <2>2
<1>4. ASSUME NEW c \in 0 .. (n - k) - 1, InFront(k + c) PROVE InFront(k + (c + 1))
  <2> DEFINE j == k + c
  <2>1. j + 1 \in 1 .. n /\ (j + 1) - 1 = j /\ j \in 0 .. n /\ k + (c + 1) = j + 1
        /\ j \in Nat
    OBVIOUS
  <2> HIDE DEF j
  <2>2. J[j] \in Seq(X) /\ q[j + 1] \in Seq(X) /\ J[k] \in Seq(X)
    BY <1>1, <2>1
  <2>3. J[j + 1] = J[j] \o q[j + 1]
    BY <1>2, <2>1
  <2>4. Len(J[k]) \in Nat /\ Len(J[j]) \in Nat /\ Len(q[j + 1]) \in Nat
    BY <2>2
  <2>5. Len(J[j + 1]) = Len(J[j]) + Len(q[j + 1])
        /\ \A i \in 1 .. Len(J[j]) : J[j + 1][i] = J[j][i]
    <3> DEFINE a == J[j]  b == q[j + 1]
    <3>1. a \in Seq(X) /\ b \in Seq(X) /\ J[j + 1] = a \o b
      BY <2>2, <2>3
    <3> HIDE DEF a, b
    <3>2. Len(a \o b) = Len(a) + Len(b) /\ \A i \in 1 .. Len(a) : (a \o b)[i] = a[i]
      BY <3>1, ConcatIs
    <3>3. Len(J[j + 1]) = Len(a) + Len(b) /\ \A i \in 1 .. Len(a) : J[j + 1][i] = a[i]
      BY <3>1, <3>2, Zenon
    <3> QED BY <3>3 DEF a, b
  <2>6. InFront(j)
    BY <1>4 DEF j
  <2>7. Len(J[k]) <= Len(J[j + 1])
    <3>1. Len(J[k]) <= Len(J[j]) /\ Len(J[j + 1]) = Len(J[j]) + Len(q[j + 1])
      BY <2>5, <2>6
    <3>2. \A x, y, z \in Nat : x <= y => x <= y + z
      OBVIOUS
    <3> QED BY <2>4, <3>1, <3>2
  <2>8. ASSUME NEW i \in 1 .. Len(J[k]) PROVE J[j + 1][i] = J[k][i]
    <3>1. i \in 1 .. Len(J[j])
      BY <2>4, <2>6
    <3> QED BY <2>5, <2>6, <3>1
  <2> QED BY <2>1, <2>7, <2>8
<1>5. \A c \in 0 .. n - k : c \in T
  <2>1. n - k \in Nat
    OBVIOUS
  <2>2. \A c \in 0 .. (n - k) - 1 : c \in T => c + 1 \in T
    <3> HIDE DEF InFront
    <3> QED BY <1>4
  <2> HIDE DEF T
  <2> QED BY <1>3, <2>1, <2>2, UpTo
<1>6. InFront(n)
  <2>1. n - k \in 0 .. n - k /\ k + (n - k) = n
    OBVIOUS
  <2> HIDE DEF InFront
  <2> QED BY <1>5, <2>1
<1>7. J[k - 1] \in Seq(X) /\ q[k] \in Seq(X) /\ J[k] = J[k - 1] \o q[k]
  BY <1>1, <1>2
<1>8. Len(J[k - 1]) \in Nat /\ Len(q[k]) \in Nat
  BY <1>7
<1>9. Len(J[k]) = Len(J[k - 1]) + Len(q[k])
      /\ \A i \in 1 .. Len(q[k]) : J[k][Len(J[k - 1]) + i] = q[k][i]
  BY <1>7
<1>10. ASSUME NEW i \in 1 .. Len(q[k]) PROVE J[n][Len(J[k - 1]) + i] = q[k][i]
  <2>1. Len(J[k - 1]) + i \in 1 .. Len(J[k])
    BY <1>8, <1>9
  <2> QED BY <1>6, <1>9, <2>1
<1> QED BY <1>6, <1>9, <1>10

(* A text of tokens, its encoding s and its meaning u: the first k tokens    *)
(* are encoded by the first L[k] bytes and mean the first M[k].              *)
OneToken(t, s, u, l, l2, m, m2) ==
  \/ t \in Byte /\ l2 = l + 1 /\ m2 = m + 1 /\ s[l + 1] = t /\ u[m + 1] = t
  \/ /\ t = 257 /\ l2 = l + 3 /\ m2 = m + 1
     /\ s[l + 1] = QP_ESCAPE /\ s[l + 2] = 67 /\ s[l + 3] = 51 /\ u[m + 1] = 195
  \/ /\ t = 258 /\ l2 = l + 3 /\ m2 = m
     /\ s[l + 1] = QP_ESCAPE /\ s[l + 2] = CR /\ s[l + 3] = LF
  \/ t = 259 /\ l2 = l + 2 /\ m2 = m /\ s[l + 1] = QP_ESCAPE /\ s[l + 2] = LF
EncodedAs(n, t, s, u, L, M) ==
  /\ L \in [0 .. n -> Nat] /\ M \in [0 .. n -> Nat] /\ s \in Seq(Byte) /\ u \in Seq(Byte)
  /\ L[0] = 0 /\ M[0] = 0 /\ L[n] = Len(s) /\ M[n] = Len(u)
  /\ \A k \in 1 .. n : /\ OneToken(t[k], s, u, L[k - 1], L[k], M[k - 1], M[k])
                       /\ L[k] <= L[n] /\ M[k] <= M[n]

LEMMA EncodedIs ==
  ASSUME NEW t \in Seq(Byte \cup 257 .. 259)
  PROVE  \E L, M : EncodedAs(Len(t), t, Join([i \in DOMAIN t |-> QpToken(t[i])]),
                             Join([i \in DOMAIN t |-> QpMeans(t[i])]), L, M)
<1> DEFINE n == Len(t)  q == [i \in DOMAIN t |-> QpToken(t[i])]
           w == [i \in DOMAIN t |-> QpMeans(t[i])]
<1>1. n \in Nat /\ DOMAIN t = 1 .. n /\ \A i \in 1 .. n : t[i] \in Byte \cup 257 .. 259
  OBVIOUS
<1>2. /\ 61 \in Byte /\ 67 \in Byte /\ 51 \in Byte /\ 195 \in Byte /\ CR \in Byte /\ LF \in Byte
      /\ 257 \notin Byte /\ 258 \notin Byte /\ 259 \notin Byte /\ QP_ESCAPE = 61
  BY DEF Byte, CR, LF, QP_ESCAPE
<1>3. \A b \in Byte : /\ QpToken(b) = <<b>> /\ QpMeans(b) = <<b>>
                      /\ <<b>> \in Seq(Byte) /\ Len(<<b>>) = 1
  <2> TAKE b \in Byte
  <2>1. b # 257 /\ b # 258 /\ b # 259
    BY <1>2
  <2> QED BY <2>1 DEF QpToken, QpMeans
<1>4. /\ QpToken(257) = <<61, 67, 51>> /\ QpMeans(257) = <<195>>
      /\ QpToken(258) = <<61, CR, LF>> /\ QpMeans(258) = <<>>
      /\ QpToken(259) = <<61, LF>> /\ QpMeans(259) = <<>>
  BY DEF QpToken, QpMeans
<1>5. /\ <<61, 67, 51>> \in Seq(Byte) /\ <<195>> \in Seq(Byte) /\ <<61, CR, LF>> \in Seq(Byte)
      /\ <<>> \in Seq(Byte) /\ <<61, LF>> \in Seq(Byte)
      /\ Len(<<61, 67, 51>>) = 3 /\ Len(<<195>>) = 1 /\ Len(<<61, CR, LF>>) = 3
      /\ Len(<<>>) = 0 /\ Len(<<61, LF>>) = 2
  BY <1>2
<1>23. /\ <<61, 67, 51>> \in Seq(Byte) /\ <<195>> \in Seq(Byte) /\ <<61, CR, LF>> \in Seq(Byte)
       /\ <<>> \in Seq(Byte) /\ <<61, LF>> \in Seq(Byte)
  BY <1>5
<1>24. /\ QpToken(257) \in Seq(Byte) /\ QpMeans(257) \in Seq(Byte)
       /\ QpToken(258) \in Seq(Byte) /\ QpMeans(258) \in Seq(Byte)
       /\ QpToken(259) \in Seq(Byte) /\ QpMeans(259) \in Seq(Byte)
  <2>1. QpToken(257) \in Seq(Byte) /\ QpMeans(257) \in Seq(Byte)
    BY <1>2 DEF QpToken, QpMeans
  <2>2. QpToken(258) \in Seq(Byte) /\ QpMeans(258) \in Seq(Byte)
    <3>1. QpToken(258) = <<61, CR, LF>> /\ QpMeans(258) = <<>>
      BY <1>4
    <3> DEFINE c == <<61, CR, LF>>
    <3>2. c \in Seq(Byte) /\ QpToken(258) = c
      BY <1>23, <3>1
    <3> HIDE DEF c
    <3>3. QpToken(258) \in Seq(Byte)
      BY <3>2
    <3>4. QpMeans(258) \in Seq(Byte)
      BY DEF QpMeans
    <3> QED BY <3>3, <3>4
  <2>3. QpToken(259) \in Seq(Byte) /\ QpMeans(259) \in Seq(Byte)
    BY <1>2 DEF QpToken, QpMeans
  <2> QED BY <2>1, <2>2, <2>3
<1>20. /\ \A x, a, b, c : x = <<a, b, c>> => x[1] = a /\ x[2] = b /\ x[3] = c
       /\ \A x, a, b : x = <<a, b>> => x[1] = a /\ x[2] = b
       /\ \A x, a : x = <<a>> => x[1] = a
  OBVIOUS
<1>21. 1 \in 1 .. 1 /\ 1 \in 1 .. 2 /\ 2 \in 1 .. 2 /\ 1 \in 1 .. 3 /\ 2 \in 1 .. 3 /\ 3 \in 1 .. 3
  OBVIOUS
<1>22. \A i \in Nat : i + 0 = i
  OBVIOUS
<1>6. \A i \in 1 .. n : t[i] \in Byte \/ t[i] = 257 \/ t[i] = 258 \/ t[i] = 259
  BY <1>1
<1> HIDE DEF n
<1>7. \A i \in 1 .. n : QpToken(t[i]) \in Seq(Byte) /\ QpMeans(t[i]) \in Seq(Byte)
  <2> TAKE i \in 1 .. n
  <2>1. CASE t[i] \in Byte
    BY <1>3, <2>1
  <2>2. CASE t[i] = 257
    BY <1>24, <2>2, Zenon
  <2>3. CASE t[i] = 258
    BY <1>24, <2>3, Zenon
  <2>4. CASE t[i] = 259
    BY <1>24, <2>4, Zenon
  <2> QED BY <1>6, <2>1, <2>2, <2>3, <2>4
<1>8. /\ q \in [1 .. n -> Seq(Byte)] /\ w \in [1 .. n -> Seq(Byte)]
      /\ \A i \in 1 .. n : q[i] = QpToken(t[i]) /\ w[i] = QpMeans(t[i])
  BY <1>1, <1>7
<1> HIDE DEF q, w
<1>9. q \in Seq(Seq(Byte)) /\ Len(q) = n /\ w \in Seq(Seq(Byte)) /\ Len(w) = n
  BY <1>1, <1>8
<1>10. PICK J \in [0 .. n -> Seq(Byte)] : JoinedBy(n, q, J) /\ Join(q) = J[n]
  BY <1>1, <1>9, JoinRun
<1>11. PICK K \in [0 .. n -> Seq(Byte)] : JoinedBy(n, w, K) /\ Join(w) = K[n]
  BY <1>1, <1>9, JoinRun
<1> DEFINE s == Join(q)  u == Join(w)
           L == [k \in 0 .. n |-> Len(J[k])]  M == [k \in 0 .. n |-> Len(K[k])]
<1>12. 0 \in 0 .. n /\ n \in 0 .. n
  BY <1>1
<1>13. s \in Seq(Byte) /\ u \in Seq(Byte) /\ L[n] = Len(s) /\ M[n] = Len(u)
  BY <1>10, <1>11, <1>12
<1>14. L[0] = 0 /\ M[0] = 0
  <2>1. J[0] = <<>> /\ K[0] = <<>>
    BY <1>10, <1>11 DEF JoinedBy
  <2> QED BY <1>5, <1>12, <2>1
<1>15. L \in [0 .. n -> Nat] /\ M \in [0 .. n -> Nat]
  <2>1. \A x \in Seq(Byte) : Len(x) \in Nat
    OBVIOUS
  <2>2. \A k \in 0 .. n : J[k] \in Seq(Byte) /\ K[k] \in Seq(Byte)
    OBVIOUS
  <2> QED BY <2>1, <2>2
<1>16. ASSUME NEW k \in 1 .. n
       PROVE  /\ L[k] = L[k - 1] + Len(q[k]) /\ L[k] <= L[n]
              /\ \A i \in 1 .. Len(q[k]) : s[L[k - 1] + i] = q[k][i]
  <2>1. /\ Len(J[k]) = Len(J[k - 1]) + Len(q[k]) /\ Len(J[k]) <= Len(J[n])
        /\ \A i \in 1 .. Len(q[k]) : J[n][Len(J[k - 1]) + i] = q[k][i]
    <3>1. JoinedIn(Byte, n, q, J)
      BY <1>1, <1>9, <1>10 DEF JoinedIn
    <3>2. InPlace(n, q, J, k)
      BY <3>1, JoinPlaces
    <3> HIDE DEF L, M, s, u
    <3> QED BY <3>2, Zenon DEF InPlace
  <2>2. k \in 0 .. n /\ k - 1 \in 0 .. n
    BY <1>1
  <2>3. L[k] = Len(J[k]) /\ L[k - 1] = Len(J[k - 1]) /\ L[n] = Len(J[n]) /\ s = J[n]
    BY <1>10, <1>12, <2>2
  <2> HIDE DEF L, s
  <2> QED BY <2>1, <2>3, Zenon
<1>17. ASSUME NEW k \in 1 .. n
       PROVE  /\ M[k] = M[k - 1] + Len(w[k]) /\ M[k] <= M[n]
              /\ \A i \in 1 .. Len(w[k]) : u[M[k - 1] + i] = w[k][i]
  <2>1. /\ Len(K[k]) = Len(K[k - 1]) + Len(w[k]) /\ Len(K[k]) <= Len(K[n])
        /\ \A i \in 1 .. Len(w[k]) : K[n][Len(K[k - 1]) + i] = w[k][i]
    <3>1. JoinedIn(Byte, n, w, K)
      BY <1>1, <1>9, <1>11 DEF JoinedIn
    <3>2. InPlace(n, w, K, k)
      BY <3>1, JoinPlaces
    <3> HIDE DEF L, M, s, u
    <3> QED BY <3>2, Zenon DEF InPlace
  <2>2. k \in 0 .. n /\ k - 1 \in 0 .. n
    BY <1>1
  <2>3. M[k] = Len(K[k]) /\ M[k - 1] = Len(K[k - 1]) /\ M[n] = Len(K[n]) /\ u = K[n]
    BY <1>11, <1>12, <2>2
  <2> HIDE DEF M, u
  <2> QED BY <2>1, <2>3, Zenon
<1> HIDE DEF L, M, s, u
<1>18. ASSUME NEW k \in 1 .. n
       PROVE  OneToken(t[k], s, u, L[k - 1], L[k], M[k - 1], M[k])
  <2> DEFINE l == L[k - 1]  m == M[k - 1]  x == q[k]  y == w[k]
  <2>1. l \in Nat /\ m \in Nat
    <3>1. k - 1 \in 0 .. n
      BY <1>1
    <3> QED BY <1>15, <3>1
  <2>2. /\ L[k] = l + Len(x) /\ M[k] = m + Len(y) /\ x = QpToken(t[k]) /\ y = QpMeans(t[k])
        /\ \A i \in 1 .. Len(x) : s[l + i] = x[i]
        /\ \A i \in 1 .. Len(y) : u[m + i] = y[i]
    BY <1>8, <1>16, <1>17
  <2> HIDE DEF l, m, x, y
  <2>3. CASE t[k] \in Byte
    <3>1. Len(x) = 1 /\ Len(y) = 1 /\ x[1] = t[k] /\ y[1] = t[k] /\ 1 \in 1 .. 1
      BY <1>3, <2>2, <2>3
    <3> QED BY <2>2, <2>3, <3>1 DEF OneToken, l, m
  <2>4. CASE t[k] = 257
    <3>1. x = <<61, 67, 51>> /\ y = <<195>>
      BY <1>4, <2>2, <2>4, Zenon
    <3>2. Len(x) = 3 /\ x[1] = 61 /\ x[2] = 67 /\ x[3] = 51 /\ Len(y) = 1 /\ y[1] = 195
      BY <1>5, <1>20, <3>1, Zenon
    <3>3. L[k] = l + 3 /\ M[k] = m + 1
      BY <2>2, <3>2
    <3>4. s[l + 1] = 61 /\ s[l + 2] = 67 /\ s[l + 3] = 51
      <4>1. s[l + 1] = x[1] /\ s[l + 2] = x[2] /\ s[l + 3] = x[3]
        BY <1>21, <2>2, <3>2
      <4> QED BY <3>2, <4>1
    <3>5. u[m + 1] = 195
      BY <1>21, <2>2, <3>2
    <3> QED BY <1>2, <2>4, <3>3, <3>4, <3>5, Zenon DEF OneToken, l, m
  <2>5. CASE t[k] = 258
    <3>1. x = <<61, CR, LF>> /\ y = <<>>
      BY <1>4, <2>2, <2>5, Zenon
    <3>2. Len(x) = 3 /\ x[1] = 61 /\ x[2] = CR /\ x[3] = LF /\ Len(y) = 0
      BY <1>5, <1>20, <3>1, Zenon
    <3>3. L[k] = l + 3 /\ M[k] = m
      BY <1>22, <2>1, <2>2, <3>2, Zenon
    <3>4. s[l + 1] = 61 /\ s[l + 2] = CR /\ s[l + 3] = LF
      BY <1>21, <2>2, <3>2, ZenonT(60)
    <3> QED BY <1>2, <2>5, <3>3, <3>4, Zenon DEF OneToken, l, m
  <2>6. CASE t[k] = 259
    <3>1. x = <<61, LF>> /\ y = <<>>
      BY <1>4, <2>2, <2>6, Zenon
    <3>2. Len(x) = 2 /\ x[1] = 61 /\ x[2] = LF /\ Len(y) = 0
      BY <1>5, <1>20, <3>1, Zenon
    <3>3. L[k] = l + 2 /\ M[k] = m
      BY <1>22, <2>1, <2>2, <3>2, Zenon
    <3>4. s[l + 1] = 61 /\ s[l + 2] = LF
      BY <1>21, <2>2, <3>2, ZenonT(60)
    <3> QED BY <1>2, <2>6, <3>3, <3>4, Zenon DEF OneToken, l, m
  <2> QED BY <1>6, <2>3, <2>4, <2>5, <2>6
<1>19. EncodedAs(n, t, s, u, L, M)
  BY <1>13, <1>14, <1>15, <1>16, <1>17, <1>18 DEF EncodedAs
<1> QED BY <1>19 DEF n, s, u, q, w

LEMMA TokenSizes ==
  ASSUME NEW n \in Nat, NEW t, NEW s, NEW u, NEW L, NEW M, EncodedAs(n, t, s, u, L, M),
         NEW k \in 1 .. n
  PROVE  /\ k - 1 \in 0 .. n /\ k \in 0 .. n /\ L[k - 1] \in Nat /\ L[k] \in Nat
         /\ M[k - 1] \in Nat /\ M[k] \in Nat
         /\ L[k] <= Len(s) /\ M[k] <= Len(u) /\ L[k] > L[k - 1] /\ M[k - 1] <= M[k]
         /\ M[k] - M[k - 1] <= L[k] - L[k - 1]
<1>1. k - 1 \in 0 .. n /\ k \in 0 .. n
  OBVIOUS
<1>2. L[k - 1] \in Nat /\ L[k] \in Nat /\ M[k - 1] \in Nat /\ M[k] \in Nat
  <2>1. L \in [0 .. n -> Nat] /\ M \in [0 .. n -> Nat]
    BY DEF EncodedAs
  <2> QED BY <1>1, <2>1
<1>3. OneToken(t[k], s, u, L[k - 1], L[k], M[k - 1], M[k])
  BY DEF EncodedAs
<1>4. L[k] <= Len(s) /\ M[k] <= Len(u)
  <2>1. L[n] = Len(s) /\ M[n] = Len(u) /\ L[k] <= L[n] /\ M[k] <= M[n]
    BY DEF EncodedAs
  <2> QED BY <2>1, Zenon
<1> DEFINE l == L[k - 1]  l2 == L[k]  m == M[k - 1]  m2 == M[k]
<1>5. l2 > l /\ m <= m2 /\ m2 - m <= l2 - l
  <2>1. \/ l2 = l + 1 /\ m2 = m + 1
        \/ l2 = l + 3 /\ m2 = m + 1
        \/ l2 = l + 3 /\ m2 = m
        \/ l2 = l + 2 /\ m2 = m
    BY <1>3, Zenon DEF OneToken
  <2>2. l \in Nat /\ l2 \in Nat /\ m \in Nat /\ m2 \in Nat
    BY <1>2
  <2> HIDE DEF l, l2, m, m2
  <2> QED BY <2>1, <2>2
<1> QED BY <1>1, <1>2, <1>4, <1>5

LEMMA Shrinks ==
  ASSUME NEW n \in Nat, NEW t, NEW s, NEW u, NEW L, NEW M, EncodedAs(n, t, s, u, L, M)
  PROVE  \A k \in 0 .. n : /\ L[k] \in Nat /\ M[k] \in Nat /\ M[k] <= L[k]
                           /\ L[k] <= Len(s) /\ M[k] <= Len(u)
<1> DEFINE P(k) == /\ L[k] \in Nat /\ M[k] \in Nat /\ M[k] <= L[k]
                   /\ L[k] <= Len(s) /\ M[k] <= Len(u)
           T == {k \in Nat : P(k)}
<1>1. P(0)
  <2>1. L[0] = 0 /\ M[0] = 0 /\ s \in Seq(Byte) /\ u \in Seq(Byte)
    BY DEF EncodedAs
  <2>2. Len(s) \in Nat /\ Len(u) \in Nat
    BY <2>1
  <2> QED BY <2>1, <2>2
<1>2. ASSUME NEW k \in 0 .. n - 1, P(k) PROVE P(k + 1)
  <2>1. k + 1 \in 1 .. n /\ (k + 1) - 1 = k
    OBVIOUS
  <2> DEFINE j == k + 1
  <2>2. /\ L[j] \in Nat /\ M[j] \in Nat /\ L[j] <= Len(s) /\ M[j] <= Len(u)
        /\ M[j] - M[j - 1] <= L[j] - L[j - 1]
    <3>1. j \in 1 .. n
      BY <2>1
    <3> HIDE DEF j
    <3> QED BY <3>1, TokenSizes
  <2>3. M[j] - M[k] <= L[j] - L[k]
    BY <2>1, <2>2
  <2> HIDE DEF j
  <2>4. M[j] <= L[j]
    BY <1>2, <2>2, <2>3
  <2> QED BY <2>2, <2>4 DEF j
<1>3. 0 \in T /\ \A k \in 0 .. n - 1 : k \in T => k + 1 \in T
  <2> HIDE DEF P
  <2> QED BY <1>1, <1>2
<1> HIDE DEF T
<1>4. \A k \in 0 .. n : k \in T
  BY <1>3, UpTo
<1> QED BY <1>4 DEF T

(* Behind each other, plain bytes stand one beside the other. *)
RawRun(k, j, t, s, u, l, l2, m, m2) ==
  /\ l2 = l + (j - k) /\ m2 = m + (j - k)
  /\ \A i \in 1 .. j - k : s[l + i] = t[k + i] /\ u[m + i] = t[k + i]

LEMMA RawRunIs ==
  ASSUME NEW n \in Nat, NEW t, NEW s, NEW u, NEW L, NEW M, EncodedAs(n, t, s, u, L, M),
         NEW k \in 0 .. n, NEW j \in k .. n, \A i \in k + 1 .. j : t[i] \in Byte
  PROVE  RawRun(k, j, t, s, u, L[k], L[j], M[k], M[j])
<1> DEFINE l == L[k]  m == M[k]
           P(c) == L[k + c] = l + c /\ M[k + c] = m + c
           T == {c \in Nat : P(c)}
<1>1. l \in Nat /\ m \in Nat
  BY Shrinks
<1>2. ASSUME NEW c \in 0 .. (j - k) - 1, P(c)
      PROVE  /\ P(c + 1) /\ s[l + (c + 1)] = t[k + (c + 1)] /\ u[m + (c + 1)] = t[k + (c + 1)]
  <2> DEFINE i == k + (c + 1)  h == k + c
  <2>1. i \in 1 .. n /\ i \in k + 1 .. j /\ i - 1 = h
    OBVIOUS
  <2>2. OneToken(t[i], s, u, L[i - 1], L[i], M[i - 1], M[i])
    <3> HIDE DEF i
    <3> QED BY <2>1 DEF EncodedAs
  <2>3. t[i] \in Byte /\ t[i] # 257 /\ t[i] # 258 /\ t[i] # 259
    <3>1. 257 \notin Byte /\ 258 \notin Byte /\ 259 \notin Byte
      BY DEF Byte
    <3> HIDE DEF i
    <3> QED BY <2>1, <3>1
  <2>4. /\ L[i] = L[h] + 1 /\ M[i] = M[h] + 1
        /\ s[L[h] + 1] = t[i] /\ u[M[h] + 1] = t[i]
    <3> HIDE DEF i, h
    <3> QED BY <2>1, <2>2, <2>3, Zenon DEF OneToken
  <2>5. L[h] = l + c /\ M[h] = m + c
    BY <1>2
  <2>6. (l + c) + 1 = l + (c + 1) /\ (m + c) + 1 = m + (c + 1)
    BY <1>1
  <2> HIDE DEF h, l, m
  <2>7. L[i] = l + (c + 1) /\ M[i] = m + (c + 1)
        /\ s[l + (c + 1)] = t[i] /\ u[m + (c + 1)] = t[i]
    <3> HIDE DEF i
    <3> QED BY <2>4, <2>5, <2>6
  <2> QED BY <2>7
<1>3. 0 \in T
  <2>1. k + 0 = k /\ l + 0 = l /\ m + 0 = m
    BY <1>1
  <2> QED BY <2>1
<1>4. \A c \in 0 .. j - k : P(c)
  <2>1. \A c \in 0 .. (j - k) - 1 : c \in T => c + 1 \in T
    <3>1. ASSUME NEW c \in 0 .. (j - k) - 1, P(c) PROVE P(c + 1)
      BY <1>2, <3>1
    <3> HIDE DEF P
    <3> QED BY <3>1
  <2>2. j - k \in Nat
    OBVIOUS
  <2>3. \A c \in 0 .. j - k : c \in T
    <3> HIDE DEF T
    <3> QED BY <1>3, <2>1, <2>2, UpTo
  <2> HIDE DEF P
  <2> QED BY <2>3
<1>5. ASSUME NEW i \in 1 .. j - k PROVE s[l + i] = t[k + i] /\ u[m + i] = t[k + i]
  <2> DEFINE c == i - 1
  <2>1. c \in 0 .. (j - k) - 1 /\ c \in 0 .. j - k /\ c + 1 = i
    OBVIOUS
  <2> HIDE DEF c
  <2>2. P(c)
    <3> HIDE DEF P
    <3> QED BY <1>4, <2>1
  <2>3. s[l + (c + 1)] = t[k + (c + 1)] /\ u[m + (c + 1)] = t[k + (c + 1)]
    BY <1>2, <2>1, <2>2
  <2> QED BY <2>1, <2>3
<1>6. L[j] = l + (j - k) /\ M[j] = m + (j - k)
  <2>1. j - k \in 0 .. j - k /\ k + (j - k) = j
    OBVIOUS
  <2> QED BY <1>4, <2>1
<1> QED BY <1>5, <1>6 DEF RawRun

(* A text with no escape of its own and none but whole soft breaks. *)
PlainText(n, t) ==
  \A i \in 1 .. n :
    /\ t[i] \in Byte \cup 257 .. 259 /\ t[i] # QP_ESCAPE
    /\ t[i] = 259 => i < n
    /\ t[i] \in {258, 259} /\ i < n => ~IsEol(t[i + 1])

(* What is encoded by three bytes and stands behind k plain ones: the escape *)
(* of token j is the first that is found.                                   *)
FirstEscape(n, t, k, j) ==
  /\ j \in k + 1 .. n /\ t[j] \notin Byte /\ \A i \in k + 1 .. j - 1 : t[i] \in Byte
NoEscape(n, t, k) == \A i \in k + 1 .. n : t[i] \in Byte

LEMMA EscapeOrNone ==
  ASSUME NEW n \in Nat, NEW t, NEW k \in 0 .. n
  PROVE  NoEscape(n, t, k) \/ \E j : FirstEscape(n, t, k, j)
<1> DEFINE S == {i \in k + 1 .. n : t[i] \notin Byte}
<1> SUFFICES ASSUME S # {} PROVE \E j : FirstEscape(n, t, k, j)
  BY DEF NoEscape
<1>1. S \subseteq Int /\ k \in Int /\ \A i \in S : k <= i
  OBVIOUS
<1> DEFINE j == Min(S)
<1>2. j \in S /\ \A i \in S : j <= i
  <2> HIDE DEF S
  <2> QED BY <1>1, MinExists
<1> HIDE DEF j
<1>3. \A i \in k + 1 .. j - 1 : t[i] \in Byte
  <2> SUFFICES ASSUME NEW i \in k + 1 .. j - 1, t[i] \notin Byte PROVE FALSE
    OBVIOUS
  <2>1. i \in k + 1 .. n
    BY <1>2
  <2> QED BY <1>2, <2>1
<1> QED BY <1>2, <1>3 DEF FirstEscape

(* The bytes of plain tokens hold no escape. *)
LEMMA NoneInRun ==
  ASSUME NEW n \in Nat, NEW t, NEW s, NEW u, NEW L, NEW M, EncodedAs(n, t, s, u, L, M),
         PlainText(n, t), NEW k \in 0 .. n, NEW j \in k .. n,
         \A i \in k + 1 .. j : t[i] \in Byte
  PROVE  \A i \in L[k] + 1 .. L[j] : s[i] # QP_ESCAPE
<1> DEFINE l == L[k]  l2 == L[j]
<1>1. l \in Nat /\ l2 \in Nat
  BY Shrinks
<1>2. RawRun(k, j, t, s, u, l, l2, M[k], M[j])
  BY RawRunIs
<1> HIDE DEF l, l2
<1>3. l2 = l + (j - k) /\ \A i \in 1 .. j - k : s[l + i] = t[k + i]
  BY <1>2 DEF RawRun
<1> SUFFICES ASSUME NEW i \in l + 1 .. l2 PROVE s[i] # QP_ESCAPE
  BY DEF l, l2
<1> DEFINE c == i - l
<1>4. c \in 1 .. j - k /\ l + c = i /\ k + c \in 1 .. n
  BY <1>1, <1>3
<1> HIDE DEF c
<1>5. s[i] = t[k + c]
  BY <1>3, <1>4
<1>6. t[k + c] # QP_ESCAPE
  BY <1>4 DEF PlainText
<1> QED BY <1>5, <1>6

(* What follows a special token. *)
LEMMA SpecialToken ==
  ASSUME NEW n \in Nat, NEW t, NEW s, NEW u, NEW L, NEW M, EncodedAs(n, t, s, u, L, M),
         PlainText(n, t), NEW j \in 1 .. n, t[j] \notin Byte
  PROVE  LET e == L[j - 1] + 1
         IN /\ e + 2 <= Len(s) /\ s[e] = QP_ESCAPE
            /\ \/ /\ L[j] = L[j - 1] + 3 /\ M[j] = M[j - 1] + 1
                  /\ s[e + 1] = 67 /\ s[e + 2] = 51 /\ u[M[j - 1] + 1] = 195
               \/ /\ M[j] = M[j - 1] /\ L[j] > e /\ L[j] <= Len(s)
                  /\ \A i \in e + 1 .. L[j] : IsEol(s[i])
                  /\ L[j] + 1 <= Len(s) => ~IsEol(s[L[j] + 1])
<1> DEFINE l == L[j - 1]  l2 == L[j]  m == M[j - 1]  m2 == M[j]
<1>1. /\ l \in Nat /\ l2 \in Nat /\ m \in Nat /\ m2 \in Nat /\ l2 <= Len(s)
  BY TokenSizes
<1>2. OneToken(t[j], s, u, l, l2, m, m2)
  BY DEF EncodedAs
<1>3. Len(s) \in Nat
  BY DEF EncodedAs
<1>4. ASSUME l2 + 1 <= Len(s) \/ t[j] = 259
      PROVE  /\ l2 + 1 <= Len(s)
             /\ t[j] \in {258, 259} => ~IsEol(s[l2 + 1])
  <2>1. j < n
    <3>1. CASE t[j] = 259
      BY <3>1 DEF PlainText
    <3>2. CASE l2 + 1 <= Len(s)
      <4>1. CASE j = n
        <5>1. l2 = Len(s)
          BY <4>1 DEF EncodedAs
        <5> QED BY <1>3, <3>2, <5>1
      <4> QED BY <4>1
    <3> QED BY <1>4, <3>1, <3>2
  <2> DEFINE h == j + 1  l3 == L[h]
  <2>2. h \in 1 .. n /\ h - 1 = j
    BY <2>1
  <2> HIDE DEF h
  <2>3. L[h - 1] \in Nat /\ L[h] \in Nat /\ L[h] <= Len(s) /\ L[h] > L[h - 1]
    BY <2>2, TokenSizes
  <2>4. l3 \in Nat /\ l3 <= Len(s) /\ l3 > l2
    BY <2>2, <2>3
  <2> HIDE DEF l3
  <2>5. OneToken(t[h], s, u, L[h - 1], L[h], M[h - 1], M[h])
    BY <2>2 DEF EncodedAs
  <2>6. s[l2 + 1] = QP_ESCAPE \/ s[l2 + 1] = t[h]
    <3>1. s[L[h - 1] + 1] = QP_ESCAPE \/ s[L[h - 1] + 1] = t[h]
      BY <2>5, Zenon DEF OneToken
    <3> QED BY <2>2, <3>1
  <2>7. l2 + 1 <= Len(s)
    <3> HIDE DEF l2
    <3> QED BY <1>1, <1>3, <2>4
  <2>8. t[j] \in {258, 259} => ~IsEol(t[h])
    BY <2>1 DEF h, PlainText
  <2>9. ~IsEol(QP_ESCAPE)
    BY DEF IsEol, QP_ESCAPE, CR, LF
  <2> QED BY <2>6, <2>7, <2>8, <2>9
<1>5. \/ /\ t[j] = 257 /\ l2 = l + 3 /\ m2 = m + 1
         /\ s[l + 1] = QP_ESCAPE /\ s[l + 2] = 67 /\ s[l + 3] = 51 /\ u[m + 1] = 195
      \/ /\ t[j] = 258 /\ l2 = l + 3 /\ m2 = m
         /\ s[l + 1] = QP_ESCAPE /\ s[l + 2] = CR /\ s[l + 3] = LF
      \/ t[j] = 259 /\ l2 = l + 2 /\ m2 = m /\ s[l + 1] = QP_ESCAPE /\ s[l + 2] = LF
  BY <1>2, Zenon DEF OneToken
<1>6. IsEol(CR) /\ IsEol(LF)
  BY DEF IsEol
<1> HIDE DEF l, l2, m, m2
<1> SUFFICES /\ l + 1 + 2 <= Len(s) /\ s[l + 1] = QP_ESCAPE
             /\ \/ /\ l2 = l + 3 /\ m2 = m + 1
                   /\ s[l + 1 + 1] = 67 /\ s[l + 1 + 2] = 51 /\ u[m + 1] = 195
                \/ /\ m2 = m /\ l2 > l + 1 /\ l2 <= Len(s)
                   /\ \A i \in l + 1 + 1 .. l2 : IsEol(s[i])
                   /\ l2 + 1 <= Len(s) => ~IsEol(s[l2 + 1])
  BY DEF l, l2, m, m2
<1>7. l + 1 + 1 = l + 2 /\ l + 1 + 2 = l + 3
  BY <1>1
<1>8. CASE t[j] = 257
  <2>1. l2 = l + 3 /\ m2 = m + 1 /\ s[l + 1] = QP_ESCAPE /\ s[l + 2] = 67 /\ s[l + 3] = 51
        /\ u[m + 1] = 195
    BY <1>5, <1>8
  <2> QED BY <1>1, <1>7, <2>1
<1>9. CASE t[j] = 258
  <2>1. l2 = l + 3 /\ m2 = m /\ s[l + 1] = QP_ESCAPE /\ s[l + 2] = CR /\ s[l + 3] = LF
    BY <1>5, <1>9
  <2>2. l2 + 1 <= Len(s) => ~IsEol(s[l2 + 1])
    BY <1>4, <1>9
  <2>3. \A i \in l + 1 + 1 .. l2 : i = l + 2 \/ i = l + 3
    BY <1>1, <2>1
  <2>4. \A i \in l + 1 + 1 .. l2 : IsEol(s[i])
    BY <1>6, <2>1, <2>3
  <2>5. l + 1 + 2 <= Len(s) /\ l2 > l + 1
    BY <1>1, <1>3, <2>1
  <2> QED BY <1>1, <2>1, <2>2, <2>4, <2>5
<1>10. CASE t[j] = 259
  <2>1. l2 = l + 2 /\ m2 = m /\ s[l + 1] = QP_ESCAPE /\ s[l + 2] = LF
    BY <1>5, <1>10
  <2>2. l2 + 1 <= Len(s) /\ ~IsEol(s[l2 + 1])
    BY <1>4, <1>10
  <2>3. \A i \in l + 1 + 1 .. l2 : i = l + 2
    BY <1>1, <2>1
  <2>4. \A i \in l + 1 + 1 .. l2 : IsEol(s[i])
    BY <1>6, <2>1, <2>3
  <2>5. l + 1 + 2 <= Len(s) /\ l2 > l + 1
    BY <1>1, <1>3, <2>1, <2>2
  <2> QED BY <1>1, <2>1, <2>2, <2>4, <2>5
<1> QED BY <1>5, <1>8, <1>9, <1>10

(* The escape found behind k tokens is that of the next special one. *)
LEMMA EscapeFound ==
  ASSUME NEW n \in Nat, NEW t, NEW s, NEW u, NEW L, NEW M, EncodedAs(n, t, s, u, L, M),
         PlainText(n, t), NEW k \in 0 .. n
  PROVE  /\ \A j : FirstEscape(n, t, k, j) => EscapeAt(s, L[k] + 1, L[j - 1] + 1)
         /\ NoEscape(n, t, k) => EscapeAt(s, L[k] + 1, 0)
<1>1. L[k] \in Nat /\ Len(s) \in Nat /\ s \in Seq(Byte)
  BY Shrinks DEF EncodedAs
<1>2. ASSUME NEW j, FirstEscape(n, t, k, j)
      PROVE  EscapeAt(s, L[k] + 1, L[j - 1] + 1)
  <2> DEFINE h == j - 1  e == L[h] + 1
  <2>1. j \in 1 .. n /\ h \in k .. n /\ h \in 0 .. n /\ j \in k + 1 .. n /\ t[j] \notin Byte
        /\ \A i \in k + 1 .. h : t[i] \in Byte
    BY <1>2 DEF FirstEscape
  <2>2. e + 2 <= Len(s) /\ s[e] = QP_ESCAPE
    BY <2>1, SpecialToken
  <2> HIDE DEF h
  <2>3. L[h] \in Nat
    BY <2>1, Shrinks
  <2>4. \A i \in L[k] + 1 .. L[h] : s[i] # QP_ESCAPE
    BY <2>1, NoneInRun
  <2>5. L[h] = L[k] + (h - k)
    <3>1. RawRun(k, h, t, s, u, L[k], L[h], M[k], M[h])
      BY <2>1, RawRunIs
    <3> QED BY <3>1 DEF RawRun
  <2>6. e \in L[k] + 1 .. Len(s) - 2
    <3>1. h - k \in Nat
      BY <2>1
    <3> QED BY <1>1, <2>2, <2>3, <2>5, <3>1, SMTT(30)
  <2>7. \A i \in L[k] + 1 .. e - 1 : s[i] # QP_ESCAPE
    BY <2>3, <2>4
  <2>8. EscapeAt(s, L[k] + 1, e)
    <3> HIDE DEF e
    <3> QED BY <2>2, <2>6, <2>7 DEF EscapeAt
  <2> QED BY <2>8 DEF h
<1>3. ASSUME NoEscape(n, t, k) PROVE EscapeAt(s, L[k] + 1, 0)
  <2>1. n \in k .. n /\ \A i \in k + 1 .. n : t[i] \in Byte
    BY <1>3 DEF NoEscape
  <2>2. \A i \in L[k] + 1 .. L[n] : s[i] # QP_ESCAPE
    BY <2>1, NoneInRun
  <2>3. L[n] = Len(s)
    BY DEF EncodedAs
  <2>4. \A i \in L[k] + 1 .. Len(s) - 2 : i \in L[k] + 1 .. L[n]
    BY <1>1, <2>3
  <2> QED BY <2>2, <2>4 DEF EscapeAt
<1> QED BY <1>2, <1>3

(* The decoding pass behind k tokens: their meaning is in front of the       *)
(* buffer, what encodes the others still in its place.                       *)
PlainAt(d, t, s, u, L, M, k) ==
  /\ d \in DecodePlaces /\ Len(d[1]) = Len(s) /\ d[3] = L[k] + 1 /\ d[2] = M[k] + 1
  /\ \A i \in L[k] + 1 .. Len(s) : d[1][i] = s[i]
  /\ \A i \in 1 .. M[k] : d[1][i] = u[i]

(* Bytes moved from the first plain tokens on are those meant. *)
RunMoves(k, j, t, s, u, l, l2, m, m2, buf, z) ==
  /\ k \in Nat /\ j \in Nat /\ k <= j /\ l \in Nat /\ m \in Nat /\ z \in Nat
  /\ RawRun(k, j, t, s, u, l, l2, m, m2)
  /\ l2 <= z /\ \A i \in l + 1 .. z : buf[i] = s[i]
RunMoved(l, m, m2, u, buf) ==
  \A i \in m + 1 .. m2 : buf[(l + 1) + i - (m + 1)] = u[i]

LEMMA MovedRun ==
  ASSUME NEW k, NEW j, NEW t, NEW s, NEW u, NEW l, NEW l2, NEW m, NEW m2, NEW buf, NEW z,
         RunMoves(k, j, t, s, u, l, l2, m, m2, buf, z)
  PROVE  RunMoved(l, m, m2, u, buf)
<1> SUFFICES ASSUME NEW i \in m + 1 .. m2 PROVE buf[(l + 1) + i - (m + 1)] = u[i]
  BY DEF RunMoved
<1> DEFINE c == i - m
<1>0. k \in Nat /\ j \in Nat /\ k <= j /\ l \in Nat /\ m \in Nat /\ z \in Nat /\ l2 <= z
  BY DEF RunMoves
<1>1. /\ l2 = l + (j - k) /\ m2 = m + (j - k)
      /\ \A a \in 1 .. j - k : s[l + a] = t[k + a] /\ u[m + a] = t[k + a]
  BY DEF RunMoves, RawRun
<1>2. c \in 1 .. j - k /\ m + c = i /\ (l + 1) + i - (m + 1) = l + c /\ l + c \in l + 1 .. z
  BY <1>0, <1>1
<1> HIDE DEF c
<1>3. buf[l + c] = s[l + c] /\ s[l + c] = t[k + c] /\ u[m + c] = t[k + c]
  BY <1>1, <1>2 DEF RunMoves
<1> QED BY <1>2, <1>3

LEMMA PlainStep ==
  ASSUME NEW n \in Nat, NEW t, NEW s, NEW u, NEW L, NEW M, EncodedAs(n, t, s, u, L, M),
         PlainText(n, t), NEW k \in 0 .. n, NEW d, PlainAt(d, t, s, u, L, M, k),
         ~DecodeDone(d)
  PROVE  \E j \in k + 1 .. n : PlainAt(DecodeNext(d), t, s, u, L, M, j)
<1> DEFINE z == Len(s)  buf == d[1]  p0 == d[2]  p2 == d[3]  l == L[k]  m == M[k]
           e == Escape(s, p2)
           r == DecodeNext(d)  new == r[1]  r0 == r[2]  r2 == r[3]
<1>1. /\ d \in DecodePlaces /\ Len(buf) = z /\ p2 = l + 1 /\ p0 = m + 1
      /\ \A i \in l + 1 .. z : buf[i] = s[i]
      /\ \A i \in 1 .. m : buf[i] = u[i]
  BY DEF PlainAt
<1>2. l \in Nat /\ m \in Nat /\ m <= l /\ l <= z
  BY Shrinks
<1>3. z \in Nat /\ s \in Seq(Byte) /\ p2 \in Positions
  BY <1>1 DEF EncodedAs, DecodePlaces
<1>4. Escape(buf, p2) = e
  BY <1>1, <1>3, SameEscape
<1>5. e # 0
  BY <1>4 DEF DecodeDone
<1>6. PICK j : FirstEscape(n, t, k, j)
  <2>1. CASE NoEscape(n, t, k)
    <3>1. EscapeAt(s, p2, 0)
      BY <1>1, <2>1, EscapeFound
    <3>2. e = 0
      BY <1>3, <3>1, EscapeIs
    <3> QED BY <1>5, <3>2
  <2> QED BY <2>1, EscapeOrNone
<1> DEFINE h == j - 1
<1>7. /\ j \in 1 .. n /\ j \in k + 1 .. n /\ h \in k .. n /\ h \in 0 .. n /\ t[j] \notin Byte
      /\ j \in Nat /\ h \in Nat /\ k <= h /\ j \in 0 .. n
      /\ \A i \in k + 1 .. h : t[i] \in Byte
  BY <1>6 DEF FirstEscape
<1>8. e = L[h] + 1
  <2>1. EscapeAt(s, p2, L[h] + 1)
    BY <1>1, <1>6, EscapeFound
  <2> QED BY <1>3, <2>1, EscapeIs
<1>9. LET f == L[h] + 1
      IN /\ f + 2 <= z /\ s[f] = QP_ESCAPE
         /\ \/ /\ L[j] = L[h] + 3 /\ M[j] = M[h] + 1
               /\ s[f + 1] = 67 /\ s[f + 2] = 51 /\ u[M[h] + 1] = 195
            \/ /\ M[j] = M[h] /\ L[j] > f /\ L[j] <= z
               /\ \A i \in f + 1 .. L[j] : IsEol(s[i])
               /\ L[j] + 1 <= z => ~IsEol(s[L[j] + 1])
  BY <1>7, SpecialToken
<1> DEFINE lh == L[h]  mh == M[h]  lj == L[j]  mj == M[j]
<1> HIDE DEF h
<1>10. lh \in Nat /\ mh \in Nat /\ mh <= lh /\ lh <= z /\ lj \in Nat /\ mj \in Nat
  BY <1>7, Shrinks
<1>11. RawRun(k, h, t, s, u, l, lh, m, mh)
  BY <1>7, RawRunIs
<1>12. lh = l + (h - k) /\ mh = m + (h - k)
  BY <1>11 DEF RawRun
<1>13. /\ RoundOf(z, buf, p0, p2, e, new, r0, r2)
       /\ r \in DecodePlaces
  <2>1. LET f == Escape(d[1], d[3])  x == DecodeNext(d)
        IN /\ RoundOf(Len(d[1]), d[1], d[2], d[3], f, x[1], x[2], x[3])
           /\ x \in DecodePlaces /\ d[3] <= Len(d[1]) /\ Len(d[1]) \in Nat
    BY <1>1, DecodeNextIs
  <2>2. /\ RoundOf(Len(d[1]), d[1], d[2], d[3], Escape(d[1], d[3]), r[1], r[2], r[3])
        /\ r \in DecodePlaces
    BY <2>1
  <2> QED BY <1>1, <1>4, <2>2
<1>14. \/ /\ lj = lh + 3 /\ mj = mh + 1
          /\ s[e + 1] = 67 /\ s[e + 2] = 51 /\ u[mh + 1] = 195
       \/ /\ mj = mh /\ lj > e /\ lj <= z
          /\ \A i \in e + 1 .. lj : IsEol(s[i])
          /\ lj + 1 <= z => ~IsEol(s[lj + 1])
  BY <1>8, <1>9
<1>15. e = lh + 1 /\ e + 2 <= z /\ e \in Nat
  BY <1>8, <1>9, <1>10, SMTT(30)
<1> HIDE DEF z, buf, p0, p2, l, m, e, r, new, r0, r2, lh, mh, lj, mj
<1>16. p0 + e - p2 = mh + 1 /\ p0 <= p2
  BY <1>1, <1>2, <1>7, <1>10, <1>12, <1>15
<1>17. /\ new \in Seq(Byte) /\ Len(new) = z
       /\ \A i \in e + 1 .. z : new[i] = buf[i]
       /\ \A i \in 1 .. z : i < mh + 1 =>
            new[i] = IF i < p0 THEN buf[i] ELSE buf[p2 + i - p0]
       /\ IsEol(buf[e + 1]) => r0 = mh + 1 /\ EolsTo(buf, e + 1, r2)
       /\ ~IsEol(buf[e + 1]) =>
            /\ r0 = mh + 1 + 1 /\ r2 = e + 3
            /\ new[mh + 1] = DecodedByte(buf[e + 1], buf[e + 2])
  BY <1>13, <1>16 DEF RoundOf
<1>18. \A i \in e + 1 .. z : new[i] = s[i] /\ buf[i] = s[i]
  <2>1. \A i \in e + 1 .. z : i \in l + 1 .. z
    BY <1>2, <1>3, <1>7, <1>10, <1>12, <1>15
  <2> QED BY <1>1, <1>17, <2>1
<1>19. ASSUME NEW i \in 1 .. mh PROVE new[i] = u[i]
  <2>1. i \in 1 .. z /\ i < mh + 1 /\ i \in Nat
    BY <1>3, <1>10
  <2>2. new[i] = IF i < p0 THEN buf[i] ELSE buf[p2 + i - p0]
    BY <1>17, <2>1
  <2>3. CASE i < p0
    <3>1. i \in 1 .. m
      BY <1>1, <1>2, <2>1, <2>3
    <3> QED BY <1>1, <2>2, <2>3, <3>1
  <2>4. CASE ~(i < p0)
    <3>1. i \in m + 1 .. mh
      BY <1>1, <1>2, <1>10, <2>1, <2>4
    <3>2. buf[(l + 1) + i - (m + 1)] = u[i]
      <4>1. k \in Nat /\ h \in Nat /\ k <= h
        BY <1>7
      <4>2. l \in Nat /\ m \in Nat /\ z \in Nat /\ lh <= z
        BY <1>2, <1>3, <1>10
      <4>3. \A a \in l + 1 .. z : buf[a] = s[a]
        BY <1>1
      <4>4. RunMoves(k, h, t, s, u, l, lh, m, mh, buf, z)
        BY <1>11, <4>1, <4>2, <4>3 DEF RunMoves
      <4>5. RunMoved(l, m, mh, u, buf)
        BY <4>4, MovedRun, Zenon
      <4> QED BY <3>1, <4>5 DEF RunMoved
    <3> QED BY <1>1, <2>2, <2>4, <3>2
  <2> QED BY <2>3, <2>4
<1>20. e + 1 \in e + 1 .. z /\ e + 2 \in e + 1 .. z
  BY <1>3, <1>15
<1>21. buf[e + 1] = s[e + 1] /\ buf[e + 2] = s[e + 2]
  BY <1>18, <1>20
<1>22. r2 = lj + 1 /\ r0 = mj + 1 /\ lj > e /\ \A i \in 1 .. mj : new[i] = u[i]
  <2>1. CASE /\ lj = lh + 3 /\ mj = mh + 1
             /\ s[e + 1] = 67 /\ s[e + 2] = 51 /\ u[mh + 1] = 195
    <3>1. ~IsEol(67) /\ DecodedByte(67, 51) = 195
      BY DEF IsEol, CR, LF, DecodedByte, HexValue
    <3>2. r0 = mh + 1 + 1 /\ r2 = e + 3 /\ new[mh + 1] = 195
      BY <1>17, <1>21, <2>1, <3>1
    <3>3. \A i \in 1 .. mj : i \in 1 .. mh \/ i = mh + 1
      BY <1>10, <2>1
    <3>4. \A i \in 1 .. mj : new[i] = u[i]
      BY <1>19, <2>1, <3>2, <3>3
    <3>5. r2 = lj + 1 /\ r0 = mj + 1 /\ lj > e
      BY <1>10, <1>15, <2>1, <3>2
    <3> QED BY <3>4, <3>5
  <2>2. CASE /\ mj = mh /\ lj > e /\ lj <= z
             /\ \A i \in e + 1 .. lj : IsEol(s[i])
             /\ lj + 1 <= z => ~IsEol(s[lj + 1])
    <3>1. e + 1 \in e + 1 .. lj
      BY <1>10, <1>15, <2>2
    <3>2. IsEol(buf[e + 1])
      BY <1>21, <2>2, <3>1
    <3>3. r0 = mh + 1 /\ EolsTo(buf, e + 1, r2)
      BY <1>17, <3>2
    <3>4. EolsTo(buf, e + 1, lj + 1)
      <4>1. lj + 1 \in e + 1 .. Len(buf) + 1
        BY <1>1, <1>3, <1>10, <1>15, <2>2
      <4>2. \A i \in e + 1 .. (lj + 1) - 1 : i \in e + 1 .. lj /\ i \in e + 1 .. z
        BY <1>3, <1>10, <1>15, <2>2
      <4>3. \A i \in e + 1 .. (lj + 1) - 1 : IsEol(buf[i])
        BY <1>18, <2>2, <4>2
      <4>4. lj + 1 <= Len(buf) => ~IsEol(buf[lj + 1])
        <5> SUFFICES ASSUME lj + 1 <= z PROVE ~IsEol(buf[lj + 1])
          BY <1>1
        <5>1. lj + 1 \in e + 1 .. z
          BY <1>3, <1>10, <1>15, <2>2
        <5> QED BY <1>18, <2>2, <5>1
      <4> QED BY <4>1, <4>3, <4>4 DEF EolsTo
    <3>5. r2 = lj + 1
      <4>1. e + 1 \in Positions /\ e + 1 <= Len(buf) + 1 /\ Len(buf) \in Nat
        BY <1>1, <1>3, <1>15 DEF Positions
      <4> QED BY <3>3, <3>4, <4>1, AfterEolsIs
    <3> QED BY <1>19, <2>2, <3>3, <3>5
  <2> QED BY <1>14, <2>1, <2>2
<1>23. \A i \in lj + 1 .. z : new[i] = s[i]
  <2>1. \A i \in lj + 1 .. z : i \in e + 1 .. z
    BY <1>3, <1>10, <1>15, <1>22
  <2> QED BY <1>18, <2>1
<1>24. PlainAt(r, t, s, u, L, M, j)
  <2>1. /\ r \in DecodePlaces /\ Len(r[1]) = Len(s) /\ r[3] = L[j] + 1 /\ r[2] = M[j] + 1
    BY <1>13, <1>17, <1>22 DEF new, z, r2, lj, r0, mj
  <2>2. \A i \in L[j] + 1 .. Len(s) : r[1][i] = s[i]
    BY <1>23 DEF new, z, lj
  <2>3. \A i \in 1 .. M[j] : r[1][i] = u[i]
    BY <1>22 DEF new, mj
  <2> QED BY <2>1, <2>2, <2>3 DEF PlainAt
<1> QED BY <1>7, <1>24 DEF r

(* The last move behind the last special token leaves what was meant. *)
LEMMA PlainEnd ==
  ASSUME NEW n \in Nat, NEW t, NEW s, NEW u, NEW L, NEW M, EncodedAs(n, t, s, u, L, M),
         PlainText(n, t), NEW k \in 0 .. n, NEW d, PlainAt(d, t, s, u, L, M, k),
         DecodeDone(d)
  PROVE  LET out == DecodeOut(Len(s), d)
         IN /\ out.buf \in Seq(Byte) /\ Len(out.buf) = Len(s)
            /\ out.size = Len(u) /\ Len(u) <= Len(s)
            /\ \A i \in 1 .. Len(u) : out.buf[i] = u[i]
<1> DEFINE z == Len(s)  buf == d[1]  p0 == d[2]  p2 == d[3]  l == L[k]  m == M[k]
           ll == L[n]  mm == M[n]  size == z + 1 - p2  new == Moved(buf, p0, p2, size)
<1>1. /\ d \in DecodePlaces /\ Len(buf) = z /\ p2 = l + 1 /\ p0 = m + 1
      /\ \A i \in l + 1 .. z : buf[i] = s[i]
      /\ \A i \in 1 .. m : buf[i] = u[i]
  BY DEF PlainAt
<1>2. /\ l \in Nat /\ m \in Nat /\ m <= l /\ l <= z /\ ll \in Nat /\ mm \in Nat /\ mm <= ll
  <2>1. n \in 0 .. n
    OBVIOUS
  <2> QED BY <2>1, Shrinks
<1>3. /\ z \in Nat /\ s \in Seq(Byte) /\ p2 \in Positions /\ p0 \in Positions
      /\ buf \in Seq(Byte) /\ ll = z /\ mm = Len(u)
  BY <1>1 DEF EncodedAs, DecodePlaces
<1>4. NoEscape(n, t, k)
  <2> SUFFICES ASSUME NEW j, FirstEscape(n, t, k, j) PROVE FALSE
    BY EscapeOrNone
  <2> DEFINE h == j - 1  e == L[h] + 1
  <2>1. EscapeAt(s, p2, e)
    BY <1>1, EscapeFound
  <2>2. Escape(s, p2) = e
    <3> HIDE DEF e
    <3> QED BY <1>3, <2>1, EscapeIs
  <2>3. Escape(s, p2) = 0
    BY <1>1, <1>3, SameEscape DEF DecodeDone
  <2>4. h \in 0 .. n
    BY DEF FirstEscape
  <2> HIDE DEF h
  <2>5. L[h] \in Nat
    BY <2>4, Shrinks
  <2> QED BY <2>2, <2>3, <2>5
<1>5. RawRun(k, n, t, s, u, l, ll, m, mm)
  <2>1. n \in k .. n /\ \A i \in k + 1 .. n : t[i] \in Byte
    BY <1>4 DEF NoEscape
  <2> QED BY <2>1, RawRunIs
<1>6. ll = l + (n - k) /\ mm = m + (n - k) /\ k <= n /\ k \in Nat
  BY <1>5 DEF RawRun
<1> DEFINE out == DecodeOut(z, d)
<1>7. out.buf = new /\ out.size = p0 + z - p2
  BY DEF DecodeOut
<1> HIDE DEF z, buf, p0, p2, l, m, ll, mm, new, out
<1>8. size \in Nat /\ p2 + size <= Len(buf) + 1 /\ p0 + z - p2 = mm
  BY <1>1, <1>2, <1>3, <1>6
<1>9. p0 + size - 1 = mm
  BY <1>1, <1>2, <1>3, <1>6
<1> HIDE DEF size
<1>10. /\ new \in Seq(Byte) /\ Len(new) = Len(buf)
       /\ \A i \in 1 .. Len(buf) :
            new[i] = IF i \in p0 .. p0 + size - 1 THEN buf[p2 + i - p0] ELSE buf[i]
  <2>1. LET x == Moved(buf, p0, p2, size)
        IN /\ x \in Seq(Byte) /\ Len(x) = Len(buf)
           /\ \A i \in 1 .. Len(buf) :
                x[i] = IF i \in p0 .. p0 + size - 1 THEN buf[p2 + i - p0] ELSE buf[i]
    BY <1>3, <1>8, MovedIs
  <2> QED BY <2>1 DEF new
<1>11. ASSUME NEW i \in 1 .. mm PROVE new[i] = u[i]
  <2>1. i \in 1 .. Len(buf) /\ i \in Nat
    BY <1>1, <1>2, <1>3
  <2>2. new[i] = IF i \in p0 .. mm THEN buf[p2 + i - p0] ELSE buf[i]
    BY <1>9, <1>10, <2>1
  <2>3. CASE i \in p0 .. mm
    <3>1. i \in m + 1 .. mm
      BY <1>1, <2>3
    <3>2. buf[(l + 1) + i - (m + 1)] = u[i]
      <4>1. l \in Nat /\ m \in Nat /\ z \in Nat /\ ll <= z
        BY <1>2, <1>3
      <4>2. \A a \in l + 1 .. z : buf[a] = s[a]
        BY <1>1
      <4>3. RunMoves(k, n, t, s, u, l, ll, m, mm, buf, z)
        BY <1>5, <1>6, <4>1, <4>2 DEF RunMoves
      <4>4. RunMoved(l, m, mm, u, buf)
        BY <4>3, MovedRun, Zenon
      <4> QED BY <3>1, <4>4 DEF RunMoved
    <3> QED BY <1>1, <2>2, <2>3, <3>2
  <2>4. CASE i \notin p0 .. mm
    <3>1. i \in 1 .. m
      BY <1>1, <1>2, <2>1, <2>4
    <3> QED BY <1>1, <2>2, <2>4, <3>1
  <2> QED BY <2>3, <2>4
<1>12. /\ out.buf \in Seq(Byte) /\ Len(out.buf) = z
       /\ out.size = mm /\ mm <= z /\ \A i \in 1 .. mm : out.buf[i] = u[i]
  BY <1>1, <1>2, <1>3, <1>7, <1>8, <1>10, <1>11
<1> QED BY <1>3, <1>12 DEF out, z

LEMMA PlainTold ==
  ASSUME NEW n \in Nat, NEW t, NEW s, NEW u, NEW L, NEW M, EncodedAs(n, t, s, u, L, M),
         PlainText(n, t)
  PROVE  /\ QpDecode(s).buf \in Seq(Byte) /\ Len(QpDecode(s).buf) = Len(s)
         /\ QpDecode(s).size = Len(u) /\ Len(u) <= Len(s)
         /\ \A i \in 1 .. Len(u) : QpDecode(s).buf[i] = u[i]
<1> DEFINE D == DecodePlaces  z == Len(s)
           height(d) == IF d[3] > z THEN 0 ELSE z + 1 - d[3]
           mu == [d \in D |-> height(d)]
           Right(o) == /\ o.buf \in Seq(Byte) /\ Len(o.buf) = z
                       /\ o.size = Len(u) /\ Len(u) <= z
                       /\ \A i \in 1 .. Len(u) : o.buf[i] = u[i]
<1>1. z \in Nat /\ s \in Seq(Byte) /\ L[0] = 0 /\ M[0] = 0
  BY DEF EncodedAs
<1>2. PICK g : /\ QpDecode(s) = g[<<s, 1, 1>>]
               /\ \A d \in DecodePlaces :
                    g[d] = IF DecodeDone(d) THEN DecodeOut(z, d) ELSE g[DecodeNext(d)]
  BY DecodeRun
<1> DEFINE Fine(d) == \A k \in 0 .. n : PlainAt(d, t, s, u, L, M, k) => Right(g[d])
           T == {d \in D : Fine(d)}
<1>3. \A d \in D : d[3] \in Nat
  BY DEF DecodePlaces, Positions
<1>4. mu \in [D -> Nat]
  <2> HIDE DEF D, z
  <2> QED BY <1>1, <1>3
<1>5. ASSUME NEW d \in D, \A y \in D : mu[y] < mu[d] => y \in T PROVE Fine(d)
  <2> SUFFICES ASSUME NEW k \in 0 .. n, PlainAt(d, t, s, u, L, M, k) PROVE Right(g[d])
    OBVIOUS
  <2> DEFINE y == DecodeNext(d)
  <2>1. g[d] = IF DecodeDone(d) THEN DecodeOut(z, d) ELSE g[y]
    BY <1>2
  <2>2. CASE DecodeDone(d)
    <3>1. Right(DecodeOut(z, d))
      BY <2>2, PlainEnd
    <3> HIDE DEF Right
    <3> QED BY <2>1, <2>2, <3>1
  <2>3. CASE ~DecodeDone(d)
    <3>1. PICK j \in k + 1 .. n : PlainAt(y, t, s, u, L, M, j)
      BY <2>3, PlainStep
    <3>2. y \in D /\ y[3] > d[3] /\ j \in 0 .. n
      <4>1. y \in D
        BY <3>1 DEF PlainAt
      <4>2. y[3] > d[3]
        <5>1. LET e == Escape(d[1], d[3])  r == DecodeNext(d)
              IN RoundOf(Len(d[1]), d[1], d[2], d[3], e, r[1], r[2], r[3])
          BY <2>3, DecodeNextIs
        <5> HIDE DEF y
        <5> QED BY <5>1 DEF y, RoundOf
      <4> QED BY <4>1, <4>2
    <3>3. d[3] <= z
      <4>1. d[3] <= Len(d[1])
        BY <2>3, DecodeNextIs
      <4> QED BY <4>1 DEF PlainAt
    <3>4. mu[y] < mu[d]
      <4>1. mu[y] = height(y) /\ mu[d] = height(d)
        BY <3>2
      <4>2. d[3] \in Nat /\ y[3] \in Nat
        BY <1>3, <3>2
      <4> HIDE DEF mu, y, D, z
      <4> QED BY <1>1, <3>2, <3>3, <4>1, <4>2, SMTT(30)
    <3>5. y \in T
      BY <1>5, <3>2, <3>4
    <3> HIDE DEF y, Right
    <3>6. Right(g[y])
      BY <3>1, <3>2, <3>5
    <3>7. g[d] = g[y]
      BY <2>1, <2>3 DEF y
    <3> QED BY <3>6, <3>7
  <2> QED BY <2>2, <2>3
<1>6. \A d \in D : d \in T
  <2>1. \A d \in D : (\A y \in D : mu[y] < mu[d] => y \in T) => d \in T
    <3> HIDE DEF Fine, mu
    <3> QED BY <1>5
  <2> HIDE DEF T, mu, D
  <2> QED BY <1>4, <2>1, HeightInduction
<1> DEFINE d == <<s, 1, 1>>
<1>7. d \in D /\ d[1] = s /\ d[2] = 1 /\ d[3] = 1
  BY <1>1 DEF DecodePlaces, Positions
<1>8. PlainAt(d, t, s, u, L, M, 0)
  BY <1>1, <1>7 DEF PlainAt
<1>9. Right(g[d])
  <2>1. Fine(d) /\ 0 \in 0 .. n
    <3>1. d \in T
      <4> HIDE DEF T, d, D
      <4> QED BY <1>6, <1>7
    <3>2. Fine(d)
      <4> HIDE DEF Fine, d, D
      <4> QED BY <3>1, SMTT(30)
    <3>3. 0 \in 0 .. n
      OBVIOUS
    <3> HIDE DEF Fine, d
    <3> QED BY <3>2, <3>3, Zenon
  <2> HIDE DEF d, Right
  <2> QED BY <1>8, <2>1
<1> QED BY <1>2, <1>9

LEMMA DecodedTold ==
  ASSUME NEW t \in Seq(Byte \cup 257 .. 259), PlainText(Len(t), t)
  PROVE  LET s == Join([i \in DOMAIN t |-> QpToken(t[i])])
         IN SubSeq(QpDecode(s).buf, 1, QpDecode(s).size)
              = Join([i \in DOMAIN t |-> QpMeans(t[i])])
<1> DEFINE s == Join([i \in DOMAIN t |-> QpToken(t[i])])
           u == Join([i \in DOMAIN t |-> QpMeans(t[i])])
           n == Len(t)  buf == QpDecode(s).buf  size == QpDecode(s).size
<1>1. PICK L, M : EncodedAs(n, t, s, u, L, M)
  BY EncodedIs
<1>2. n \in Nat
  OBVIOUS
<1> HIDE DEF s, u, n
<1>3. /\ buf \in Seq(Byte) /\ Len(buf) = Len(s) /\ size = Len(u) /\ Len(u) <= Len(s)
      /\ \A i \in 1 .. Len(u) : buf[i] = u[i]
  <2>1. PlainText(n, t)
    BY DEF n
  <2> QED BY <1>1, <1>2, <2>1, PlainTold
<1>4. u \in Seq(Byte) /\ Len(u) \in Nat /\ Len(s) \in Nat
  BY <1>1 DEF EncodedAs
<1> HIDE DEF buf, size
<1>5. SubSeq(buf, 1, size) = [i \in 1 .. Len(u) |-> buf[i]]
  <2>1. SubSeq(buf, 1, size) = [i \in 1 .. size |-> buf[i]]
    BY <1>3, <1>4
  <2> QED BY <1>3, <2>1
<1>6. u = [i \in 1 .. Len(u) |-> u[i]]
  BY <1>4
<1>7. SubSeq(buf, 1, size) = u
  BY <1>3, <1>5, <1>6
<1> QED BY <1>7 DEF s, u, buf, size

LEMMA QpTold == TextOK => QpExact
<1> DEFINE s == Join([i \in DOMAIN text |-> QpToken(text[i])])
           plain == \A i \in DOMAIN text :
                      /\ text[i] = 259 => i < Len(text)
                      /\ text[i] \in {258, 259} /\ i < Len(text) => ~IsEol(text[i + 1])
                      /\ text[i] # QP_ESCAPE
           X == Byte \cup 257 .. 259
<1> SUFFICES ASSUME TextOK, kind = "qp", NEW o \in Options, LooksLikeQp(s, o.min_chars)
             PROVE  /\ QpDecode(s).size = Len(s) - QpScan(s).reduce
                    /\ plain => SubSeq(QpDecode(s).buf, 1, QpDecode(s).size)
                                = Join([i \in DOMAIN text |-> QpMeans(text[i])])
  BY DEF QpExact
<1>1. text \in Seq(X)
  <2>1. "qp" \in DOMAIN Alphabet /\ text \in Seq(Alphabet["qp"])
    BY DEF TextOK
  <2>2. Alphabet["qp"] \subseteq X
    BY <2>1, TokensAssumption
  <2> HIDE DEF X
  <2> QED BY <2>1, <2>2
<1>2. QpDecode(s).size = Len(s) - QpScan(s).reduce
  <2>1. s \in Seq(Byte)
    BY <1>1, EncodedIs DEF EncodedAs
  <2>2. QpScan(s).ok
    BY DEF LooksLikeQp
  <2> HIDE DEF s
  <2> QED BY <2>1, <2>2, SizeTold
<1>3. ASSUME plain PROVE PlainText(Len(text), text)
  <2>1. DOMAIN text = 1 .. Len(text) /\ \A i \in 1 .. Len(text) : text[i] \in X
    BY <1>1
  <2>2. ASSUME NEW i \in 1 .. Len(text)
        PROVE  /\ text[i] = 259 => i < Len(text)
               /\ text[i] \in {258, 259} /\ i < Len(text) => ~IsEol(text[i + 1])
               /\ text[i] # QP_ESCAPE
    BY <1>3, <2>1
  <2> HIDE DEF X
  <2> QED BY <2>1, <2>2 DEF PlainText, X
<1> QED BY <1>1, <1>2, <1>3, DecodedTold

(* A sample said to have CRLF ends has no others, but for an LF in front of  *)
(* everything, and one with nothing but pairs is said to have them           *)
(* (lib/guess.c:680-709); quoted-printable is decoded to as many bytes as    *)
(* the counting pass leaves, and to the text that was encoded                *)
(* (lib/guess.c:573-651): whatever the sample and however long it is.        *)
THEOREM SurfacesAreAlwaysFound == Spec => []SurfacesAreFound
<1>1. TextOK => SurfacesAreFound
  BY EolTold, QpTold DEF SurfacesAreFound
<1> QED BY <1>1, TextIsTyped, PTL

-----------------------------------------------------------------------------
(* One line.  A line of t from o to e fits a buffer when there is room for   *)
(* the NUL behind it, and for one more byte if it has no end.                *)
Ended(t, o, e) ==
  /\ e \in o + 1 .. Len(t) /\ (e = Len(t) \/ t[e] = LF)
  /\ \A i \in o + 1 .. e - 1 : t[i] # LF
Fitting(t, o, e, size) == e - o < IF t[e] = LF THEN size ELSE size - 1
ReadRight(t, o, e, line) ==
  SubSeq(t, o + 1, e) = IF t[e] = LF THEN line ELSE Front(line)

LEMMA MinOfTwo ==
  ASSUME NEW a \in Int, NEW b \in Int
  PROVE  Min({a, b}) = IF a <= b THEN a ELSE b
<1>1. CASE a <= b
  BY <1>1, MinIs
<1>2. CASE ~(a <= b)
  BY <1>2, MinIs
<1> QED BY <1>1, <1>2

LEMMA ChunksEnough ==
  ASSUME NEW a \in Nat, NEW b \in Nat, b > 0
  PROVE  a * b >= a
OBVIOUS

LEMMA GetLineIs ==
  ASSUME NEW S, NEW t \in Seq(S), NEW o \in 0 .. Len(t) - 1, NEW e, Ended(t, o, e),
         NEW D, 0 \in D, S \subseteq D,
         NEW size \in Nat, size > 0, NEW d \in [1 .. size -> D],
         NEW ra \in Nat, ra > 0
  PROVE  LET r == GetLine(t, o, d, ra)
         IN /\ ~Fitting(t, o, e, size) => r.is = "stuck"
            /\ Fitting(t, o, e, size) =>
                 /\ r.is = "line" /\ r.offset = e /\ r.data \in [1 .. size -> D]
                 /\ r.line \in Seq(D) /\ ReadRight(t, o, e, r.line)
<1> DEFINE n == Len(t)
           rest == SubSeq(t, o + 1, Len(t))
           Want(k) == Min({k * ra, Len(d) - 1})
           Got(k) == Min({Want(k), Len(rest)})
           chunks == {k \in 1 .. Len(d) :
                        Got(k) < Want(k) \/ LF \in {rest[i] : i \in 1 .. Got(k)}}
           got == Got(Min(chunks))
           buf == [i \in DOMAIN d |-> IF i <= got THEN rest[i] ELSE d[i]]
           I == {i \in 1 .. got : buf[i] = LF}
           eol == IF I # {} THEN Min(I) ELSE 0
           end == IF eol > 0 THEN eol ELSE got + 1
           r == GetLine(t, o, d, ra)
           len == e - o
<1>1. r = IF rest = <<>> THEN [is |-> "none"]
          ELSE IF chunks = {} THEN [is |-> "stuck"]
          ELSE [is |-> "line", line |-> SubSeq(buf, 1, end),
                data |-> [buf EXCEPT ![end + 1] = NUL],
                offset |-> IF eol > 0 THEN o + eol ELSE o + got]
  BY DEF GetLine, AfterLine, SelectInSubSeq
<1>2. /\ n \in Nat /\ o \in Nat /\ o < n /\ Len(rest) = n - o /\ rest # <<>>
      /\ \A i \in 1 .. n - o : rest[i] = t[o + i] /\ rest[i] \in S
  <2>1. n \in Nat /\ o \in Nat /\ o < n /\ Len(rest) = n - o
    OBVIOUS
  <2>2. ASSUME NEW i \in 1 .. n - o PROVE rest[i] = t[o + i] /\ rest[i] \in S
    <3>1. rest[i] = t[o + i] /\ o + i \in 1 .. n
      BY <2>1
    <3> QED BY <3>1
  <2>3. rest # <<>>
    <3> HIDE DEF rest, n
    <3> QED BY <2>1
  <2> QED BY <2>1, <2>2, <2>3
<1>3. /\ e \in Nat /\ len \in 1 .. n - o /\ o + len = e /\ (len = n - o \/ rest[len] = LF)
      /\ \A i \in 1 .. len - 1 : rest[i] # LF
      /\ rest[len] = t[e]
  <2>1. /\ e \in o + 1 .. n /\ (e = n \/ t[e] = LF)
        /\ \A i \in o + 1 .. e - 1 : t[i] # LF
    BY DEF Ended
  <2> HIDE DEF rest, n
  <2>2. e \in Nat /\ len \in 1 .. n - o /\ o + len = e
    BY <1>2, <2>1
  <2>3. rest[len] = t[e]
    BY <1>2, <2>2
  <2>4. ASSUME NEW i \in 1 .. len - 1 PROVE rest[i] # LF
    <3>1. o + i \in o + 1 .. e - 1 /\ i \in 1 .. n - o
      BY <1>2, <2>2
    <3> QED BY <1>2, <2>1, <3>1
  <2> QED BY <2>1, <2>2, <2>3, <2>4
<1>4. Len(d) = size
  OBVIOUS
<1>5. \A k \in Nat : Want(k) = IF k * ra <= size - 1 THEN k * ra ELSE size - 1
  <2> SUFFICES ASSUME NEW k \in Nat PROVE Want(k) = IF k * ra <= size - 1 THEN k * ra ELSE size - 1
    OBVIOUS
  <2>1. k * ra \in Int /\ size - 1 \in Int
    OBVIOUS
  <2> QED BY <2>1, <1>4, MinOfTwo
<1> HIDE DEF Want
<1>6. \A k \in Nat : /\ Want(k) \in Nat /\ Want(k) <= size - 1
                     /\ Got(k) = IF Want(k) <= n - o THEN Want(k) ELSE n - o
  <2> SUFFICES ASSUME NEW k \in Nat
               PROVE  /\ Want(k) \in Nat /\ Want(k) <= size - 1
                      /\ Got(k) = IF Want(k) <= n - o THEN Want(k) ELSE n - o
    OBVIOUS
  <2>1. k * ra \in Nat
    OBVIOUS
  <2>2. Want(k) \in Nat /\ Want(k) <= size - 1
    BY <1>5, <2>1
  <2> QED BY <1>2, <2>2, MinOfTwo
<1>7. Want(size) = size - 1
  <2>1. size * ra >= size /\ size * ra \in Nat
    BY ChunksEnough
  <2> QED BY <1>5, <2>1
<1> HIDE DEF Got, rest, n
<1>8. chunks = {k \in 1 .. size : Got(k) < Want(k) \/ \E i \in 1 .. Got(k) : rest[i] = LF}
  BY <1>4
<1> HIDE DEF chunks
<1>9. ASSUME ~Fitting(t, o, e, size) PROVE r.is = "stuck"
  <2>1. ~(len < IF rest[len] = LF THEN size ELSE size - 1)
    BY <1>3, <1>9 DEF Fitting
  <2>2. ASSUME NEW k \in 1 .. size
        PROVE  Got(k) = Want(k) /\ \A i \in 1 .. Got(k) : rest[i] # LF
    <3>1. k \in Nat
      OBVIOUS
    <3>2. Want(k) \in Nat /\ Want(k) <= size - 1 /\ Got(k) = IF Want(k) <= n - o THEN Want(k) ELSE n - o
      BY <1>6, <3>1
    <3>3. Got(k) = Want(k)
      BY <1>2, <1>3, <2>1, <3>2
    <3>4. ASSUME NEW i \in 1 .. Got(k), rest[i] = LF PROVE FALSE
      <4>1. ~(i \in 1 .. len - 1)
        BY <1>3, <3>4
      <4>2. i = len
        BY <1>3, <2>1, <3>2, <3>3, <4>1
      <4> QED BY <1>3, <2>1, <3>2, <3>3, <3>4, <4>2
    <3> QED BY <3>3, <3>4
  <2>3. ASSUME NEW k \in 1 .. size PROVE ~(Got(k) < Want(k))
    <3>1. k \in Nat
      OBVIOUS
    <3>2. Want(k) \in Nat /\ Got(k) = Want(k)
      BY <1>6, <2>2, <3>1
    <3> QED BY <3>2
  <2>4. chunks = {}
    BY <1>8, <2>2, <2>3
  <2>5. r = [is |-> "stuck"]
    BY <1>1, <1>2, <2>4
  <2> HIDE DEF r
  <2> QED BY <2>5
<1>10. ASSUME Fitting(t, o, e, size)
       PROVE  /\ r.is = "line" /\ r.offset = e /\ r.data \in [1 .. size -> D]
              /\ r.line \in Seq(D) /\ ReadRight(t, o, e, r.line)
  <2>1. len < IF rest[len] = LF THEN size ELSE size - 1
    BY <1>3, <1>10 DEF Fitting
  <2>2. size \in chunks
    <3>1. Got(size) = IF size - 1 <= n - o THEN size - 1 ELSE n - o
      BY <1>6, <1>7
    <3>2. CASE rest[len] = LF
      <4>1. len \in 1 .. Got(size)
        BY <1>2, <1>3, <2>1, <3>1, <3>2
      <4> QED BY <1>8, <3>2, <4>1
    <3>3. CASE rest[len] # LF
      BY <1>2, <1>3, <1>7, <1>8, <2>1, <3>1, <3>3
    <3> QED BY <3>2, <3>3
  <2>3. Min(chunks) \in chunks
    <3>1. 1 \in Int /\ chunks \subseteq Int /\ chunks # {} /\ \A k \in chunks : 1 <= k
      BY <1>8, <2>2
    <3> QED BY <2>2, <3>1, MinExists
  <2> DEFINE k == Min(chunks)
  <2>4. /\ k \in 1 .. size /\ k \in Nat
        /\ (Got(k) < Want(k) \/ \E i \in 1 .. Got(k) : rest[i] = LF)
    BY <1>8, <2>3
  <2>5. /\ Want(k) \in Nat /\ Want(k) <= size - 1
        /\ Got(k) = IF Want(k) <= n - o THEN Want(k) ELSE n - o
    BY <1>6, <2>4
  <2>6. got = Got(k)
    OBVIOUS
  <2> HIDE DEF k
  <2>7. /\ got \in Nat /\ got <= size - 1 /\ got <= n - o /\ got >= len
        /\ rest[len] # LF => got = n - o
    <3>1. got \in Nat /\ got <= size - 1 /\ got <= n - o
      BY <1>2, <2>5, <2>6
    <3>2. CASE Got(k) < Want(k)
      BY <1>2, <1>3, <2>5, <2>6, <3>1, <3>2
    <3>3. CASE \E i \in 1 .. Got(k) : rest[i] = LF
      <4>1. PICK i \in 1 .. got : rest[i] = LF
        BY <2>6, <3>3
      <4>2. ~(i \in 1 .. len - 1)
        BY <1>3, <4>1
      <4>3. got >= len
        BY <1>3, <3>1, <4>1, <4>2
      <4>4. rest[len] # LF => got = n - o
        BY <1>2, <1>3, <3>1, <4>3
      <4> QED BY <3>1, <4>3, <4>4
    <3> QED BY <2>4, <3>2, <3>3
  <2> HIDE DEF got
  <2>8. /\ buf \in [1 .. size -> D] /\ \A i \in 1 .. got : buf[i] = rest[i]
    <3>1. ASSUME NEW i \in 1 .. size PROVE (IF i <= got THEN rest[i] ELSE d[i]) \in D
      BY <1>2, <2>7
    <3> QED BY <2>7, <3>1
  <2> HIDE DEF buf
  <2>9. I \subseteq Int /\ (rest[len] = LF => Min(I) = len /\ I # {}) /\ (rest[len] # LF => I = {})
    <3>1. \A i \in I : i \in 1 .. got /\ rest[i] = LF /\ ~(i \in 1 .. len - 1)
      BY <1>3, <2>8
    <3>2. \A i \in I : len <= i
      BY <1>3, <2>7, <3>1
    <3>3. CASE rest[len] = LF
      <4>1. len \in I
        BY <1>3, <2>7, <2>8, <3>3
      <4>2. I \subseteq Int
        OBVIOUS
      <4> HIDE DEF I
      <4> QED BY <3>2, <3>3, <4>1, <4>2, MinIs
    <3>4. CASE rest[len] # LF
      <4>1. got = n - o /\ len = n - o
        BY <1>3, <2>7, <3>4
      <4>2. ASSUME NEW i \in I PROVE FALSE
        BY <1>3, <3>1, <3>2, <3>4, <4>1, <4>2
      <4> QED BY <3>4, <4>2
    <3> QED BY <3>3, <3>4
  <2> HIDE DEF I
  <2>10. /\ eol = IF rest[len] = LF THEN len ELSE 0
         /\ end = IF rest[len] = LF THEN len ELSE len + 1
         /\ eol > 0 <=> rest[len] = LF
         /\ rest[len] # LF => got = len
    <3>1. len \in Nat /\ len > 0 /\ (rest[len] # LF => got = len)
      BY <1>2, <1>3, <2>7
    <3>2. eol = IF rest[len] = LF THEN len ELSE 0
      BY <2>9
    <3> HIDE DEF eol, len
    <3> QED BY <3>1, <3>2
  <2> HIDE DEF eol, end
  <2>11. end \in 1 .. size - 1
    BY <1>3, <2>1, <2>10
  <2>12. /\ r.is = "line" /\ r.line = SubSeq(buf, 1, end)
         /\ r.data = [buf EXCEPT ![end + 1] = NUL]
         /\ r.offset = IF eol > 0 THEN o + eol ELSE o + got
    <3>1. chunks # {}
      BY <2>2
    <3>2. r = [is |-> "line", line |-> SubSeq(buf, 1, end),
               data |-> [buf EXCEPT ![end + 1] = NUL],
               offset |-> IF eol > 0 THEN o + eol ELSE o + got]
      BY <1>1, <1>2, <3>1
    <3> HIDE DEF r
    <3> QED BY <3>2
  <2> HIDE DEF r
  <2>13. r.offset = e
    BY <1>3, <2>10, <2>12
  <2>14. r.data \in [1 .. size -> D]
    BY <2>8, <2>12 DEF NUL
  <2>15. /\ r.line \in Seq(D) /\ Len(r.line) = end
         /\ \A i \in 1 .. end : r.line[i] = buf[i]
    BY <2>8, <2>11, <2>12
  <2>16. /\ SubSeq(t, o + 1, e) \in Seq(S) /\ Len(SubSeq(t, o + 1, e)) = len
         /\ \A i \in 1 .. len : SubSeq(t, o + 1, e)[i] = t[o + i]
    <3>1. e <= Len(t)
      BY DEF Ended
    <3> QED BY <1>2, <1>3, <3>1
  <2>17. \A i \in 1 .. len : t[o + i] = buf[i]
    BY <1>2, <1>3, <2>7, <2>8
  <2>18. ReadRight(t, o, e, r.line)
    <3> DEFINE l == r.line  s == SubSeq(t, o + 1, e)
    <3>1. CASE rest[len] = LF
      <4>1. Len(l) = len /\ Len(s) = len /\ l \in Seq(D) /\ s \in Seq(S)
        BY <2>10, <2>15, <2>16, <3>1
      <4>2. \A i \in 1 .. len : l[i] = s[i]
        BY <2>10, <2>15, <2>16, <2>17, <3>1
      <4> HIDE DEF l, s
      <4>3. s = l
        BY <1>3, <4>1, <4>2
      <4> QED BY <1>3, <3>1, <4>3 DEF ReadRight, l, s
    <3>2. CASE rest[len] # LF
      <4>1. /\ Len(l) = len + 1 /\ Len(s) = len /\ l \in Seq(D) /\ s \in Seq(S)
            /\ \A i \in 1 .. len : l[i] = s[i]
        <5>1. end = len + 1 /\ len \in Nat
          BY <1>3, <2>10, <3>2
        <5>2. Len(l) = len + 1 /\ Len(s) = len /\ l \in Seq(D) /\ s \in Seq(S)
          BY <2>15, <2>16, <5>1
        <5>3. ASSUME NEW i \in 1 .. len PROVE l[i] = s[i]
          <6>1. i \in 1 .. end
            BY <5>1
          <6> QED BY <2>15, <2>16, <2>17, <6>1
        <5> QED BY <5>2, <5>3
      <4> HIDE DEF l, s
      <4>2. Front(l) = SubSeq(l, 1, len)
        BY <1>3, <4>1 DEF Front
      <4>3. Front(l) \in Seq(D) /\ Len(Front(l)) = len /\ \A i \in 1 .. len : Front(l)[i] = l[i]
        BY <1>3, <4>1, <4>2
      <4>4. s = Front(l)
        BY <1>3, <4>1, <4>3
      <4> QED BY <1>3, <3>2, <4>4 DEF ReadRight, l, s
    <3> QED BY <3>1, <3>2
  <2> QED BY <2>12, <2>13, <2>14, <2>15, <2>18
<1> HIDE DEF r
<1> QED BY <1>9, <1>10 DEF r

(* All lines, in turn.  Where they start, and where the one at c ends. *)
LineStarts(t) == {c \in 0 .. Len(t) - 1 : c = 0 \/ t[c] = LF}
LineEndAt(t, c) == Min({e \in c + 1 .. Len(t) : e = Len(t) \/ t[e] = LF})
LinesBefore(t, o) == {c \in LineStarts(t) : c < o}
FitsAt(t, c, size) == Fitting(t, c, LineEndAt(t, c), size)

LEMMA EndOfIs ==
  ASSUME NEW S, NEW t \in Seq(S), NEW c \in 0 .. Len(t) - 1
  PROVE  Ended(t, c, LineEndAt(t, c))
<1> DEFINE E == {e \in c + 1 .. Len(t) : e = Len(t) \/ t[e] = LF}
<1>1. Len(t) \in Nat /\ Len(t) \in E /\ c \in Int
  OBVIOUS
<1>2. E \subseteq Int /\ c + 1 \in Int /\ \A e \in E : c + 1 <= e
  OBVIOUS
<1>3. Min(E) \in E /\ \A e \in E : Min(E) <= e
  <2> HIDE DEF E
  <2> QED BY <1>1, <1>2, MinExists
<1> DEFINE m == Min(E)
<1>4. LineEndAt(t, c) = m
  BY DEF LineEndAt
<1>5. m \in c + 1 .. Len(t) /\ (m = Len(t) \/ t[m] = LF) /\ \A e \in E : m <= e
  BY <1>3
<1> HIDE DEF m
<1>6. ASSUME NEW i \in c + 1 .. m - 1 PROVE t[i] # LF
  <2>1. i \in c + 1 .. Len(t) /\ ~(m <= i)
    BY <1>1, <1>5
  <2> QED BY <1>5, <2>1
<1> QED BY <1>4, <1>5, <1>6 DEF Ended

LEMMA StartsAre ==
  ASSUME NEW S, NEW t \in Seq(S)
  PROVE  /\ IsFiniteSet(LineStarts(t)) /\ LineStarts(t) \subseteq 0 .. Len(t) - 1
         /\ \A o : IsFiniteSet(LinesBefore(t, o)) /\ Cardinality(LinesBefore(t, o)) \in Nat
         /\ LinesBefore(t, 0) = {} /\ Cardinality(LinesBefore(t, 0)) = 0
         /\ LinesBefore(t, Len(t)) = LineStarts(t)
         /\ Len(t) = 0 \/ 0 \in LineStarts(t)
<1>1. LineStarts(t) \subseteq 0 .. Len(t) - 1 /\ Len(t) \in Nat
  BY DEF LineStarts
<1>2. IsFiniteSet(0 .. Len(t) - 1)
  BY <1>1, FS_Interval
<1>3. IsFiniteSet(LineStarts(t))
  BY <1>1, <1>2, FS_Subset
<1>4. ASSUME NEW o PROVE IsFiniteSet(LinesBefore(t, o)) /\ Cardinality(LinesBefore(t, o)) \in Nat
  <2>1. LinesBefore(t, o) \subseteq LineStarts(t)
    BY DEF LinesBefore
  <2> QED BY <1>3, <2>1, FS_Subset, FS_CardinalityType
<1>5. LinesBefore(t, 0) = {}
  BY <1>1 DEF LinesBefore
<1>6. LinesBefore(t, Len(t)) = LineStarts(t)
  BY <1>1 DEF LinesBefore
<1>7. Len(t) = 0 \/ 0 \in LineStarts(t)
  BY <1>1 DEF LineStarts
<1> QED BY <1>1, <1>3, <1>4, <1>5, <1>6, <1>7, FS_EmptySet

(* Between a line and the next no line starts. *)
LEMMA NextStart ==
  ASSUME NEW S, NEW t \in Seq(S), NEW o \in LineStarts(t)
  PROVE  LET e == LineEndAt(t, o)
         IN /\ e \in 1 .. Len(t) /\ e > o /\ o \in 0 .. Len(t) - 1
            /\ (e = Len(t) \/ e \in LineStarts(t))
            /\ LinesBefore(t, e) = LinesBefore(t, o) \cup {o}
            /\ {s \in LineStarts(t) : s <= o} = LinesBefore(t, o) \cup {o}
            /\ Cardinality(LinesBefore(t, o) \cup {o}) = Cardinality(LinesBefore(t, o)) + 1
<1> DEFINE e == LineEndAt(t, o)
<1>1. o \in 0 .. Len(t) - 1 /\ Len(t) \in Nat /\ LineStarts(t) \subseteq 0 .. Len(t) - 1
  BY DEF LineStarts
<1>2. Ended(t, o, e)
  BY <1>1, EndOfIs
<1> HIDE DEF e
<1>3. /\ e \in o + 1 .. Len(t) /\ (e = Len(t) \/ t[e] = LF)
      /\ \A i \in o + 1 .. e - 1 : t[i] # LF
  BY <1>2 DEF Ended
<1>4. e = Len(t) \/ e \in LineStarts(t)
  BY <1>1, <1>3 DEF LineStarts
<1>5. ASSUME NEW s \in LineStarts(t), s < e PROVE s <= o
  <2>1. s \in 0 .. Len(t) - 1 /\ (s = 0 \/ t[s] = LF)
    BY DEF LineStarts
  <2> QED BY <1>1, <1>3, <1>5, <2>1
<1>6. LinesBefore(t, e) = LinesBefore(t, o) \cup {o}
  <2>1. ASSUME NEW s \in LineStarts(t) PROVE s < e <=> s < o \/ s = o
    <3>1. s \in Int /\ o \in Int /\ e \in Int /\ o < e
      BY <1>1, <1>3
    <3> QED BY <1>5, <3>1
  <2> QED BY <2>1 DEF LinesBefore
<1>7. {s \in LineStarts(t) : s <= o} = LinesBefore(t, o) \cup {o}
  <2>1. ASSUME NEW s \in LineStarts(t) PROVE s <= o <=> s < o \/ s = o
    BY <1>1
  <2> QED BY <2>1 DEF LinesBefore
<1>8. o \notin LinesBefore(t, o)
  BY <1>1 DEF LinesBefore
<1>9. Cardinality(LinesBefore(t, o) \cup {o}) = Cardinality(LinesBefore(t, o)) + 1
  BY <1>8, StartsAre, FS_AddElement
<1> QED BY <1>1, <1>3, <1>4, <1>6, <1>7, <1>9 DEF e

(* One call of GetLine() after another. *)
LineStep(t, ra, x) ==
  LET r == GetLine(t, x.offset, x.data, ra)
  IN IF x.stuck \/ r.is = "none" THEN x
     ELSE IF r.is = "stuck" THEN [x EXCEPT !.stuck = TRUE]
     ELSE [x EXCEPT !.lines = Append(@, r.line), !.data = r.data, !.offset = r.offset]
LineStates(D, size, n) ==
  [lines : Seq(Seq(D)), data : [1 .. size -> D], offset : 0 .. n, stuck : BOOLEAN]
FirstLine(d) == [lines |-> <<>>, data |-> d, offset |-> 0, stuck |-> FALSE]

LEMMA LineStepIs ==
  ASSUME NEW S, NEW t \in Seq(S), NEW D, 0 \in D, S \subseteq D,
         NEW size \in Nat, size > 0, NEW ra \in Nat, ra > 0,
         NEW x \in LineStates(D, size, Len(t))
  PROVE  LET y == LineStep(t, ra, x)  e == LineEndAt(t, x.offset)
         IN /\ y \in LineStates(D, size, Len(t))
            /\ x.stuck \/ x.offset = Len(t) => y = x
            /\ ~x.stuck /\ x.offset < Len(t) =>
                 IF FitsAt(t, x.offset, size)
                 THEN /\ ~y.stuck /\ y.offset = e
                      /\ \E line \in Seq(D) : /\ y.lines = Append(x.lines, line)
                                              /\ ReadRight(t, x.offset, e, line)
                 ELSE y.stuck /\ y.offset = x.offset /\ y.lines = x.lines
<1> DEFINE y == LineStep(t, ra, x)  o == x.offset  e == LineEndAt(t, o)
           r == GetLine(t, o, x.data, ra)
<1>1. /\ x.lines \in Seq(Seq(D)) /\ x.data \in [1 .. size -> D]
      /\ o \in 0 .. Len(t) /\ x.stuck \in BOOLEAN /\ Len(t) \in Nat
      /\ x = [lines |-> x.lines, data |-> x.data, offset |-> o, stuck |-> x.stuck]
  BY DEF LineStates
<1>2. y = IF x.stuck \/ r.is = "none" THEN x
          ELSE IF r.is = "stuck" THEN [x EXCEPT !.stuck = TRUE]
          ELSE [x EXCEPT !.lines = Append(x.lines, r.line), !.data = r.data, !.offset = r.offset]
  BY DEF LineStep
<1>3. CASE x.stuck
  BY <1>2, <1>3
<1>4. CASE o = Len(t)
  <2>1. SubSeq(t, o + 1, Len(t)) = <<>>
    BY <1>1, <1>4
  <2>2. r = [is |-> "none"]
    BY <2>1 DEF GetLine
  <2>3. r.is = "none"
    BY <2>2
  <2> HIDE DEF r, y
  <2> QED BY <1>1, <1>2, <1>4, <2>3 DEF y
<1>5. CASE ~x.stuck /\ o < Len(t)
  <2>1. o \in 0 .. Len(t) - 1
    BY <1>1, <1>5
  <2>2. Ended(t, o, e)
    BY <2>1, EndOfIs
  <2>3. /\ ~Fitting(t, o, e, size) => r.is = "stuck"
        /\ Fitting(t, o, e, size) =>
             /\ r.is = "line" /\ r.offset = e /\ r.data \in [1 .. size -> D]
             /\ r.line \in Seq(D) /\ ReadRight(t, o, e, r.line)
    <3> HIDE DEF e, o
    <3> QED BY <1>1, <2>1, <2>2, GetLineIs
  <2>4. e \in 0 .. Len(t)
    BY <2>1, <2>2 DEF Ended
  <2> HIDE DEF r, y, e
  <2>5. CASE FitsAt(t, o, size)
    <3>1. r.is = "line" /\ r.offset = e /\ r.data \in [1 .. size -> D]
          /\ r.line \in Seq(D) /\ ReadRight(t, o, e, r.line)
      BY <2>3, <2>5 DEF FitsAt, e
    <3>2. y = [x EXCEPT !.lines = Append(x.lines, r.line), !.data = r.data, !.offset = r.offset]
      BY <1>2, <1>5, <3>1
    <3>3. y = [lines |-> Append(x.lines, r.line), data |-> r.data, offset |-> e, stuck |-> FALSE]
      BY <1>1, <1>5, <3>1, <3>2
    <3>4. Append(x.lines, r.line) \in Seq(Seq(D))
      BY <1>1, <3>1
    <3>5. y \in LineStates(D, size, Len(t))
      BY <2>4, <3>1, <3>3, <3>4 DEF LineStates
    <3> QED BY <1>5, <2>5, <3>1, <3>3, <3>5 DEF y, e
  <2>6. CASE ~FitsAt(t, o, size)
    <3>1. r.is = "stuck"
      BY <2>3, <2>6 DEF FitsAt, e
    <3>2. y = [lines |-> x.lines, data |-> x.data, offset |-> o, stuck |-> TRUE]
      BY <1>1, <1>2, <1>5, <3>1
    <3>3. y \in LineStates(D, size, Len(t))
      BY <1>1, <3>2 DEF LineStates
    <3> QED BY <1>5, <2>6, <3>2, <3>3 DEF y
  <2> QED BY <2>5, <2>6
<1> QED BY <1>1, <1>3, <1>4, <1>5
LineRun(t, d, ra, x) ==
  /\ x[0] = FirstLine(d) /\ GetLines(t, d, ra) = x[Len(t)]
  /\ \A k \in 1 .. Len(t) : x[k] = LineStep(t, ra, x[k - 1])

LEMMA LineRounds ==
  ASSUME NEW S, NEW t \in Seq(S), NEW D, 0 \in D, S \subseteq D,
         NEW size \in Nat, size > 0, NEW ra \in Nat, ra > 0, NEW d \in [1 .. size -> D]
  PROVE  \E x \in [0 .. Len(t) -> LineStates(D, size, Len(t))] :
           LineRun(t, d, ra, x)
<1> DEFINE n == Len(t)
           X == LineStates(D, size, Len(t))
           base == FirstLine(d)
           Is(iter) ==
             iter = [z \in SUBSET DOMAIN t |->
                       IF z = {} THEN base ELSE LineStep(t, ra, iter[z \ {Max(z)}])]
           It == CHOOSE iter : Is(iter)
           H == [p \in S \X X |-> LineStep(t, ra, p[2])]
<1>1. GetLines(t, d, ra) = It[DOMAIN t]
  BY DEF GetLines, FoldLeft, MapThenFoldSet, LineStep, FirstLine
<1>2. n \in Nat /\ DOMAIN t = 1 .. n /\ (\A i \in 1 .. n : t[i] \in S)
  OBVIOUS
<1>3. base \in X
  BY DEF FirstLine, LineStates
<1>4. H \in [S \X X -> X] /\ \A b \in S, st \in X : H[<<b, st>>] = LineStep(t, ra, st)
  <2>1. \A st \in X : LineStep(t, ra, st) \in X
    BY LineStepIs
  <2> QED BY <2>1
<1> HIDE DEF H, X, n, base
<1>5. PICK f \in [SUBSET DOMAIN t -> X] : FoldingOver(t, base, H, f)
  BY <1>2, <1>3, <1>4, FoldOverExists
<1>6. Is(f)
  <2>1. ASSUME NEW z \in SUBSET DOMAIN t
        PROVE  f[z] = IF z = {} THEN base ELSE LineStep(t, ra, f[z \ {Max(z)}])
    <3>1. f[z] = IF z = {} THEN base ELSE H[<<t[Max(z)], f[z \ {Max(z)}]>>]
      BY <1>5 DEF FoldingOver
    <3>2. z # {} => Max(z) \in DOMAIN t /\ z \ {Max(z)} \in SUBSET DOMAIN t
      BY <1>2, PlacesOf
    <3> QED BY <1>2, <1>4, <3>1, <3>2
  <2> QED BY <2>1
<1>7. Is(It)
  BY <1>6
<1>8. FoldedBy(t, base, H, X, It)
  <2> HIDE DEF It
  <2>1. \A z \in SUBSET DOMAIN t : z # {} => t[Max(z)] \in S
    BY <1>2, PlacesOf
  <2> QED BY <1>4, <1>7, <2>1 DEF FoldedBy
<1> HIDE DEF It
<1>9. PICK x \in [0 .. n -> X] : FoldRun(n, t, base, H, x, It[DOMAIN t])
  BY <1>2, <1>3, <1>4, <1>8, FoldRounds
<1>10. \A k \in 1 .. n : x[k] = LineStep(t, ra, x[k - 1])
  <2> SUFFICES ASSUME NEW k \in 1 .. n PROVE x[k] = LineStep(t, ra, x[k - 1])
    OBVIOUS
  <2>1. k - 1 \in 0 .. n
    BY <1>2
  <2>2. x[k - 1] \in X /\ t[k] \in S
    BY <1>2, <1>9, <2>1
  <2>3. x[k] = H[<<t[k], x[k - 1]>>]
    BY <1>9 DEF FoldRun
  <2> QED BY <1>4, <2>2, <2>3
<1> QED BY <1>1, <1>9, <1>10 DEF FoldRun, LineRun, X, n, base

(* What is read of a text after k rounds. *)
LinesSoFar(t, size, x, k) ==
  /\ x.offset = Len(t) \/ x.offset \in LineStarts(t)
  /\ Len(x.lines) = Cardinality(LinesBefore(t, x.offset))
  /\ \A c \in LinesBefore(t, x.offset) :
       /\ FitsAt(t, c, size)
       /\ ReadRight(t, c, LineEndAt(t, c), x.lines[Cardinality(LinesBefore(t, c)) + 1])
  /\ x.stuck => x.offset \in LineStarts(t) /\ ~FitsAt(t, x.offset, size)
  /\ ~x.stuck => x.offset = Len(t) \/ x.offset >= k

LEMMA LineStepKeeps ==
  ASSUME NEW S, NEW t \in Seq(S), NEW D, 0 \in D, S \subseteq D,
         NEW size \in Nat, size > 0, NEW ra \in Nat, ra > 0,
         NEW x \in LineStates(D, size, Len(t)), NEW k \in Nat, LinesSoFar(t, size, x, k)
  PROVE  LinesSoFar(t, size, LineStep(t, ra, x), k + 1)
<1> DEFINE y == LineStep(t, ra, x)  o == x.offset  e == LineEndAt(t, o)
<1>1. /\ x.lines \in Seq(Seq(D)) /\ o \in 0 .. Len(t) /\ x.stuck \in BOOLEAN /\ Len(t) \in Nat
  BY DEF LineStates
<1>2. /\ o = Len(t) \/ o \in LineStarts(t)
      /\ Len(x.lines) = Cardinality(LinesBefore(t, o))
      /\ \A c \in LinesBefore(t, o) :
           /\ FitsAt(t, c, size)
           /\ ReadRight(t, c, LineEndAt(t, c), x.lines[Cardinality(LinesBefore(t, c)) + 1])
      /\ x.stuck => o \in LineStarts(t) /\ ~FitsAt(t, o, size)
      /\ ~x.stuck => o = Len(t) \/ o >= k
  BY DEF LinesSoFar
<1>3. /\ x.stuck \/ o = Len(t) => y = x
      /\ ~x.stuck /\ o < Len(t) =>
           IF FitsAt(t, o, size)
           THEN /\ ~y.stuck /\ y.offset = e
                /\ \E line \in Seq(D) : y.lines = Append(x.lines, line) /\ ReadRight(t, o, e, line)
           ELSE y.stuck /\ y.offset = o /\ y.lines = x.lines
  BY LineStepIs
<1> HIDE DEF y, o
<1>4. CASE x.stuck \/ o = Len(t)
  <2>1. y = x
    BY <1>3, <1>4
  <2>2. ~x.stuck => o = Len(t) \/ o >= k + 1
    BY <1>4
  <2> QED BY <1>2, <2>1, <2>2 DEF LinesSoFar, y, o
<1>5. CASE ~x.stuck /\ o < Len(t) /\ ~FitsAt(t, o, size)
  <2>1. y.stuck /\ y.offset = o /\ y.lines = x.lines
    BY <1>3, <1>5
  <2>2. o \in LineStarts(t)
    BY <1>1, <1>2, <1>5
  <2> HIDE DEF e
  <2> QED BY <1>2, <1>5, <2>1, <2>2 DEF LinesSoFar, y
<1>6. CASE ~x.stuck /\ o < Len(t) /\ FitsAt(t, o, size)
  <2>1. ~y.stuck /\ y.offset = e
    BY <1>3, <1>6
  <2>2. PICK line \in Seq(D) : y.lines = Append(x.lines, line) /\ ReadRight(t, o, e, line)
    BY <1>3, <1>6
  <2>3. o \in LineStarts(t)
    BY <1>1, <1>2, <1>6
  <2>4. /\ e \in 1 .. Len(t) /\ e > o /\ (e = Len(t) \/ e \in LineStarts(t))
        /\ LinesBefore(t, e) = LinesBefore(t, o) \cup {o}
        /\ Cardinality(LinesBefore(t, e)) = Cardinality(LinesBefore(t, o)) + 1
    BY <2>3, NextStart
  <2>5. Cardinality(LinesBefore(t, o)) \in Nat
    BY StartsAre
  <2>6. Len(y.lines) = Cardinality(LinesBefore(t, e))
    BY <1>1, <1>2, <2>2, <2>4, <2>5
  <2>7. e = Len(t) \/ e >= k + 1
    BY <1>1, <1>2, <1>6, <2>4
  <2>8. ASSUME NEW c \in LinesBefore(t, e)
        PROVE  /\ FitsAt(t, c, size)
               /\ ReadRight(t, c, LineEndAt(t, c), y.lines[Cardinality(LinesBefore(t, c)) + 1])
    <3>1. CASE c = o
      <4>1. y.lines[Cardinality(LinesBefore(t, o)) + 1] = line
        BY <1>1, <1>2, <2>2, <2>5
      <4> QED BY <1>6, <2>2, <3>1, <4>1
    <3>2. CASE c \in LinesBefore(t, o)
      <4>1. c \in LineStarts(t) /\ o \in Int /\ c < o
        BY <1>1, <3>2 DEF LinesBefore
      <4>2. LineEndAt(t, c) > c /\ LinesBefore(t, c) \cup {c} \subseteq LinesBefore(t, o)
        <5>1. LineStarts(t) \subseteq Int
          BY StartsAre
        <5>2. LinesBefore(t, c) \cup {c} \subseteq LinesBefore(t, o)
          BY <4>1, <5>1 DEF LinesBefore
        <5> QED BY <4>1, <5>2, NextStart
      <4>3. Cardinality(LinesBefore(t, c)) + 1 \in 1 .. Cardinality(LinesBefore(t, o))
        <5> DEFINE B == LinesBefore(t, c) \cup {c}
        <5>1. IsFiniteSet(LinesBefore(t, o)) /\ Cardinality(B) = Cardinality(LinesBefore(t, c)) + 1
          BY <4>1, StartsAre, NextStart
        <5>2. Cardinality(B) <= Cardinality(LinesBefore(t, o))
          BY <4>2, <5>1, FS_Subset
        <5>3. Cardinality(LinesBefore(t, c)) \in Nat
          BY StartsAre
        <5> QED BY <2>5, <5>1, <5>2, <5>3
      <4>4. y.lines[Cardinality(LinesBefore(t, c)) + 1] = x.lines[Cardinality(LinesBefore(t, c)) + 1]
        BY <1>1, <1>2, <2>2, <4>3
      <4> QED BY <1>2, <3>2, <4>4
    <3> QED BY <2>4, <3>1, <3>2
  <2> HIDE DEF e
  <2> QED BY <2>1, <2>4, <2>6, <2>7, <2>8 DEF LinesSoFar, y
<1> QED BY <1>1, <1>4, <1>5, <1>6

LEMMA AllRead ==
  ASSUME NEW S, NEW t \in Seq(S), NEW D, 0 \in D, S \subseteq D,
         NEW size \in Nat, size > 0, NEW ra \in Nat, ra > 0, NEW d \in [1 .. size -> D]
  PROVE  LET read == GetLines(t, d, ra)
         IN read \in LineStates(D, size, Len(t)) /\ LinesSoFar(t, size, read, Len(t))
<1> DEFINE n == Len(t)
<1>1. PICK x \in [0 .. Len(t) -> LineStates(D, size, Len(t))] : LineRun(t, d, ra, x)
  BY LineRounds
<1>2. n \in Nat
  OBVIOUS
<1> DEFINE T == {k \in 0 .. n : LinesSoFar(t, size, x[k], k)}
<1>3. LinesSoFar(t, size, x[0], 0)
  <2>1. x[0].lines = <<>> /\ x[0].offset = 0 /\ x[0].stuck = FALSE
    BY <1>1 DEF FirstLine, LineRun
  <2> QED BY <2>1, StartsAre DEF LinesSoFar
<1>4. ASSUME NEW k \in 0 .. n - 1, LinesSoFar(t, size, x[k], k)
      PROVE  LinesSoFar(t, size, x[k + 1], k + 1)
  <2>1. k + 1 \in 1 .. n /\ (k + 1) - 1 = k /\ k \in 0 .. n /\ k \in Nat
    BY <1>2
  <2>2. x[k] \in LineStates(D, size, n) /\ x[k + 1] = LineStep(t, ra, x[k])
    BY <1>1, <2>1 DEF LineRun
  <2> QED BY <1>4, <2>1, <2>2, LineStepKeeps
<1>5. 0 \in T /\ \A k \in 0 .. n - 1 : k \in T => k + 1 \in T
  BY <1>2, <1>3, <1>4
<1>6. \A k \in 0 .. n : k \in T
  <2> HIDE DEF T, n
  <2> QED BY <1>2, <1>5, UpTo
<1> QED BY <1>1, <1>2, <1>6 DEF LineRun

LEMMA EveryLineTold ==
  ASSUME NEW S, NEW t \in Seq(S), NEW size \in Nat, size > 0, NEW ra \in Nat, ra > 0
  PROVE  LET read == GetLines(t, [i \in 1 .. size |-> 122], ra)
             whole == {c \in LineStarts(t) : \A s \in LineStarts(t) : s <= c => FitsAt(t, s, size)}
         IN /\ read.stuck <=> whole # LineStarts(t)
            /\ Len(read.lines) = Cardinality(whole)
            /\ \A c \in whole :
                 ReadRight(t, c, LineEndAt(t, c),
                           read.lines[Cardinality({s \in LineStarts(t) : s <= c})])
<1> DEFINE d == [i \in 1 .. size |-> 122]  D == S \cup {0, 122}
           read == GetLines(t, d, ra)  o == read.offset
           whole == {c \in LineStarts(t) : \A s \in LineStarts(t) : s <= c => FitsAt(t, s, size)}
<1>1. read \in LineStates(D, size, Len(t)) /\ LinesSoFar(t, size, read, Len(t))
  BY AllRead
<1> HIDE DEF read, D, d
<1>2. o \in 0 .. Len(t) /\ read.stuck \in BOOLEAN /\ Len(t) \in Nat /\ LineStarts(t) \subseteq 0 .. Len(t) - 1
  BY <1>1, StartsAre DEF LineStates
<1>3. whole = LinesBefore(t, o)
  <2>1. ASSUME NEW c \in LinesBefore(t, o) PROVE c \in whole
    <3>1. ASSUME NEW s \in LineStarts(t), s <= c PROVE s \in LinesBefore(t, o)
      BY <1>2, <3>1 DEF LinesBefore
    <3> QED BY <1>1, <3>1 DEF LinesSoFar, LinesBefore
  <2>2. ASSUME NEW c \in whole PROVE c \in LinesBefore(t, o)
    <3>1. c \in LineStarts(t) /\ c \in 0 .. Len(t) - 1
      BY <1>2
    <3>2. SUFFICES ASSUME o <= c PROVE FALSE
      BY <1>2, <3>1 DEF LinesBefore
    <3>3. read.stuck
      BY <1>1, <1>2, <3>1, <3>2 DEF LinesSoFar
    <3>4. o \in LineStarts(t) /\ ~FitsAt(t, o, size)
      BY <1>1, <3>3 DEF LinesSoFar
    <3> QED BY <3>2, <3>4
  <2> HIDE DEF whole
  <2> QED BY <2>1, <2>2
<1>4. read.stuck <=> whole # LineStarts(t)
  <2>1. ASSUME read.stuck PROVE whole # LineStarts(t)
    <3>1. o \in LineStarts(t)
      BY <1>1, <2>1 DEF LinesSoFar
    <3>2. o \notin LinesBefore(t, o)
      BY <1>2 DEF LinesBefore
    <3> QED BY <1>3, <3>1, <3>2
  <2>2. ASSUME ~read.stuck PROVE whole = LineStarts(t)
    <3>1. o = Len(t)
      BY <1>1, <1>2, <2>2 DEF LinesSoFar
    <3> QED BY <1>3, <3>1, StartsAre
  <2> QED BY <2>1, <2>2
<1>5. Len(read.lines) = Cardinality(whole)
  BY <1>1, <1>3 DEF LinesSoFar
<1>6. ASSUME NEW c \in whole
      PROVE  ReadRight(t, c, LineEndAt(t, c), read.lines[Cardinality({s \in LineStarts(t) : s <= c})])
  <2>1. c \in LinesBefore(t, o) /\ c \in LineStarts(t)
    BY <1>3
  <2>2. Cardinality({s \in LineStarts(t) : s <= c}) = Cardinality(LinesBefore(t, c)) + 1
    BY <2>1, NextStart
  <2>3. ReadRight(t, c, LineEndAt(t, c), read.lines[Cardinality(LinesBefore(t, c)) + 1])
    BY <1>1, <2>1 DEF LinesSoFar
  <2> QED BY <2>2, <2>3
<1> QED BY <1>4, <1>5, <1>6 DEF read, d

LEMMA FrontIsPrefix ==
  ASSUME NEW D, NEW line \in Seq(D)
  PROVE  IsPrefix(line, line) /\ IsPrefix(Front(line), line)
<1> DEFINE l == Len(line)  f == Front(line)
<1>1. l \in Nat /\ SubSeq(line, 1, l) = line
  OBVIOUS
<1>2. CASE l = 0
  <2>1. line = <<>> /\ f = <<>>
    BY <1>2 DEF Front
  <2> QED BY <2>1 DEF IsPrefix
<1>3. CASE l # 0
  <2>1. f = SubSeq(line, 1, l - 1)
    BY DEF Front
  <2>2. f \in Seq(D) /\ Len(f) = l - 1
    BY <1>1, <1>3, <2>1
  <2>3. SubSeq(f, 1, l - 1) = f
    <3> HIDE DEF f, l
    <3> QED BY <2>2
  <2> HIDE DEF f
  <2> QED BY <1>1, <1>3, <2>1, <2>2, <2>3 DEF IsPrefix, f
<1> QED BY <1>1, <1>2, <1>3

(* Every line of a file is read once, whole and in turn, by however many       *)
(* chunks, as long as the buffer has a place for it and for those before it    *)
(* (src/filebuf.c:221-267): for every text.                                    *)
THEOREM LinesAreAlwaysRead == Spec => []LinesAreRead
<1>1. TextOK => LinesAreRead
  <2> SUFFICES ASSUME TextOK, kind = "lines",
                      NEW size \in 3 .. 5, NEW ra \in 1 .. 3
               PROVE  LET read == GetLines(text, [i \in 1 .. size |-> 122], ra)
                          starts == LineStarts(text)
                          whole == {c \in starts :
                                      \A s \in starts : s <= c => FitsAt(text, s, size)}
                          End(c) == LineEndAt(text, c)
                          Line(c) == SubSeq(text, c + 1, End(c))
                          Nth(c) == Cardinality({s \in starts : s <= c})
                      IN /\ whole = starts => ~read.stuck /\ Len(read.lines) = Cardinality(starts)
                         /\ \A c \in whole :
                              LET line == read.lines[Nth(c)]
                              IN /\ Nth(c) <= Len(read.lines)
                                 /\ IsPrefix(Line(c), line)
                                 /\ text[End(c)] = LF => line = Line(c)
    BY Zenon DEF LinesAreRead, LinesOfText, LineStarts, LineEndAt, FitsAt, Fitting
  <2>1. text \in Seq(Alphabet[kind])
    BY DEF TextOK
  <2>2. size \in Nat /\ size > 0 /\ ra \in Nat /\ ra > 0
    OBVIOUS
  <2> DEFINE S == Alphabet[kind]
             D == S \cup {0, 122}
             read == GetLines(text, [i \in 1 .. size |-> 122], ra)
             starts == LineStarts(text)
             whole == {c \in starts : \A s \in starts : s <= c => FitsAt(text, s, size)}
             End(c) == LineEndAt(text, c)
             Nth(c) == Cardinality({s \in starts : s <= c})
  <2>3. /\ read.stuck <=> whole # starts
        /\ Len(read.lines) = Cardinality(whole)
        /\ \A c \in whole : ReadRight(text, c, End(c), read.lines[Nth(c)])
    BY <2>1, <2>2, EveryLineTold
  <2>4. read.lines \in Seq(Seq(D))
    <3>1. [i \in 1 .. size |-> 122] \in [1 .. size -> D]
      OBVIOUS
    <3>2. read \in LineStates(D, size, Len(text))
      BY <2>1, <2>2, <3>1, AllRead
    <3> QED BY <3>2 DEF LineStates
  <2>5. IsFiniteSet(starts) /\ starts \subseteq 0 .. Len(text) - 1 /\ Len(text) \in Nat
    BY <2>1, StartsAre
  <2> HIDE DEF read, S, D
  <2>6. ASSUME NEW c \in whole
        PROVE  LET line == read.lines[Nth(c)]
               IN /\ Nth(c) <= Len(read.lines)
                  /\ IsPrefix(SubSeq(text, c + 1, End(c)), line)
                  /\ text[End(c)] = LF => line = SubSeq(text, c + 1, End(c))
    <3> DEFINE before == {s \in starts : s <= c}
               e == End(c)  line == read.lines[Nth(c)]
    <3>1. c \in starts /\ c \in 0 .. Len(text) - 1
      BY <2>5
    <3>2. before \subseteq whole /\ c \in before
      <4>1. c \in Int /\ \A s \in starts : s \in Int
        BY <2>5
      <4>2. ASSUME NEW s \in before PROVE s \in whole
        <5>1. \A r \in starts : r <= s => r <= c
          BY <4>1
        <5> QED BY <5>1
      <4>3. c \in before
        BY <3>1, <4>1
      <4> HIDE DEF before, whole
      <4> QED BY <4>2, <4>3
    <3>3. IsFiniteSet(whole)
      BY <2>5, FS_Subset
    <3>4. Cardinality(before) \in 1 .. Cardinality(whole)
      <4> HIDE DEF before, whole
      <4>1. IsFiniteSet(before) /\ Cardinality(before) <= Cardinality(whole)
        BY <3>2, <3>3, FS_Subset
      <4>2. Cardinality(before) \in Nat /\ Cardinality(whole) \in Nat /\ Cardinality(before) # 0
        BY <3>2, <3>3, <4>1, FS_CardinalityType, FS_EmptySet
      <4> QED BY <4>1, <4>2
    <3>5. Nth(c) \in 1 .. Len(read.lines)
      BY <2>3, <3>4
    <3>6. line \in Seq(D) /\ ReadRight(text, c, e, line)
      BY <2>3, <2>4, <3>5
    <3>7. e \in c + 1 .. Len(text)
      BY <2>1, <3>1, EndOfIs DEF Ended
    <3> HIDE DEF e, line, before, whole
    <3>8. IsPrefix(SubSeq(text, c + 1, e), line) /\ (text[e] = LF => line = SubSeq(text, c + 1, e))
      <4>1. SubSeq(text, c + 1, e) = line \/ SubSeq(text, c + 1, e) = Front(line)
        BY <3>6 DEF ReadRight
      <4>2. IsPrefix(line, line) /\ IsPrefix(Front(line), line)
        BY <3>6, FrontIsPrefix
      <4>3. text[e] = LF => line = SubSeq(text, c + 1, e)
        BY <3>6 DEF ReadRight
      <4> QED BY <4>1, <4>2, <4>3
    <3> QED BY <3>5, <3>8 DEF e, line
  <2> HIDE DEF whole, starts
  <2>7. whole = starts => ~read.stuck /\ Len(read.lines) = Cardinality(starts)
    BY <2>3
  <2> QED BY <2>6, <2>7 DEF whole, starts, read
<1> QED BY <1>1, TextIsTyped, PTL

-----------------------------------------------------------------------------
(* Doubled UTF-8: the bytes of each token in their places. *)
(* The encoding q of each token in turn, joined: where each one ends. *)
PlacesIn(q, s, L) ==
  /\ L[0] = 0 /\ L[Len(q)] = Len(s)
  /\ \A k \in 1 .. Len(q) :
       /\ L[k] = L[k - 1] + Len(q[k]) /\ L[k] <= Len(s)
       /\ \A i \in 1 .. Len(q[k]) : s[L[k - 1] + i] = q[k][i]

LEMMA JoinIs ==
  ASSUME NEW X, NEW q \in Seq(Seq(X))
  PROVE  /\ Join(q) \in Seq(X)
         /\ \E L \in [0 .. Len(q) -> Nat] : PlacesIn(q, Join(q), L)
<1> DEFINE n == Len(q)
<1>1. n \in Nat /\ 0 \in 0 .. n /\ n \in 0 .. n
  OBVIOUS
<1>2. PICK J \in [0 .. n -> Seq(X)] : JoinedBy(n, q, J) /\ Join(q) = J[n]
  <2>1. q \in Seq(Seq(X)) /\ Len(q) = n
    OBVIOUS
  <2> HIDE DEF n
  <2> QED BY <1>1, <2>1, JoinRun
<1> DEFINE s == Join(q)  L == [k \in 0 .. n |-> Len(J[k])]
<1>3. s \in Seq(X) /\ L[n] = Len(s)
  BY <1>1, <1>2
<1>4. L[0] = 0
  <2>1. J[0] = <<>>
    BY <1>2 DEF JoinedBy
  <2> QED BY <1>1, <2>1
<1>5. L \in [0 .. n -> Nat]
  <2>1. \A x \in Seq(X) : Len(x) \in Nat
    OBVIOUS
  <2>2. \A k \in 0 .. n : J[k] \in Seq(X)
    OBVIOUS
  <2> QED BY <2>1, <2>2
<1>6. ASSUME NEW k \in 1 .. n
      PROVE  /\ L[k] = L[k - 1] + Len(q[k]) /\ L[k] <= Len(s)
             /\ \A i \in 1 .. Len(q[k]) : s[L[k - 1] + i] = q[k][i]
  <2>1. JoinedIn(X, n, q, J)
    BY <1>1, <1>2 DEF JoinedIn
  <2>2. InPlace(n, q, J, k)
    <3> HIDE DEF n, L, s
    <3> QED BY <2>1, JoinPlaces
  <2>3. k \in 0 .. n /\ k - 1 \in 0 .. n
    BY <1>1
  <2>4. L[k] = Len(J[k]) /\ L[k - 1] = Len(J[k - 1]) /\ s = J[n]
    BY <1>2, <2>3
  <2> HIDE DEF L, s, n
  <2> QED BY <2>2, <2>4, Zenon DEF InPlace
<1> HIDE DEF L, s
<1>7. PlacesIn(q, s, L)
  BY <1>3, <1>4, <1>6 DEF PlacesIn
<1> QED BY <1>3, <1>5, <1>7 DEF s

(* The characters that have a place in the buffer are none of ASCII, and of  *)
(* every charset each letter has a frequency.                                 *)
LastChar == 9576
Chars == {c \in Nat : c >= 1056 /\ c <= LastChar}
CyrillicLetters == {c \in Nat : c >= 1072 /\ c <= 1103}

LEMMA LettersOf ==
  /\ DOMAIN Russian = 1 .. 5
  /\ \A i \in 1 .. 5 : /\ Russian[i].letters \in Seq(CyrillicLetters)
                       /\ Russian[i].lead \in Seq(Chars) /\ Len(Russian[i].lead) = 2
<1>1. Alphabetical \in Seq(CyrillicLetters)
  BY DEF Alphabetical, CyrillicLetters
<1>2. <<1103>> \o SubSeq(Alphabetical, 1, 31) \in Seq(CyrillicLetters)
  <2>1. SubSeq(Alphabetical, 1, 31) \in Seq(CyrillicLetters)
    BY DEF Alphabetical, CyrillicLetters
  <2> HIDE DEF Alphabetical
  <2>2. <<1103>> \in Seq(CyrillicLetters)
    BY DEF CyrillicLetters
  <2> QED BY <2>1, <2>2
<1> DEFINE koi == <<1102, 1072, 1073, 1094, 1076, 1077, 1092, 1075, 1093, 1080,
                    1081, 1082, 1083, 1084, 1085, 1086, 1087, 1103, 1088, 1089,
                    1090, 1091, 1078, 1074, 1100, 1099, 1079, 1096, 1101, 1097,
                    1095, 1098>>
           mac == <<1103>> \o SubSeq(Alphabetical, 1, 31)
           l1 == <<1087, 1103>>  l2 == <<1056, 1057>>  l3 == <<1072, 1073>>
           l4 == <<9576, 9572>>  l5 == <<8211, 8212>>
<1>3. koi \in Seq(CyrillicLetters)
  BY DEF CyrillicLetters
<1>4. /\ l1 \in Seq(Chars) /\ l2 \in Seq(Chars)
      /\ l3 \in Seq(Chars) /\ l4 \in Seq(Chars)
      /\ l5 \in Seq(Chars)
  BY DEF Chars, LastChar
<1>5. Russian = <<[name |-> "koi8r", lead |-> l1, letters |-> koi],
                  [name |-> "cp1251", lead |-> l2, letters |-> Alphabetical],
                  [name |-> "iso88595", lead |-> l3, letters |-> Alphabetical],
                  [name |-> "ibm866", lead |-> l4, letters |-> Alphabetical],
                  [name |-> "maccyr", lead |-> l5, letters |-> mac]>>
  BY DEF Russian
<1>9. /\ Len(l1) = 2 /\ Len(l2) = 2 /\ Len(l3) = 2
      /\ Len(l4) = 2 /\ Len(l5) = 2
  OBVIOUS
<1> HIDE DEF koi, mac, l1, l2, l3, l4, l5
<1>6. DOMAIN Russian = 1 .. 5
  BY <1>5
<1>7. /\ Russian[1].letters = koi /\ Russian[1].lead = l1
      /\ Russian[2].letters = Alphabetical /\ Russian[2].lead = l2
      /\ Russian[3].letters = Alphabetical /\ Russian[3].lead = l3
      /\ Russian[4].letters = Alphabetical /\ Russian[4].lead = l4
      /\ Russian[5].letters = mac /\ Russian[5].lead = l5
  BY <1>5
<1>8. \A i \in 1 .. 5 : i = 1 \/ i = 2 \/ i = 3 \/ i = 4 \/ i = 5
  OBVIOUS
<1>10. mac \in Seq(CyrillicLetters)
  BY <1>2 DEF mac
<1>11. ASSUME NEW i \in 1 .. 5
       PROVE  /\ Russian[i].letters \in Seq(CyrillicLetters)
              /\ Russian[i].lead \in Seq(Chars) /\ Len(Russian[i].lead) = 2
  <2>1. CASE i = 1
    BY <1>3, <1>4, <1>7, <1>9, <2>1, Zenon
  <2>2. CASE i = 2
    BY <1>1, <1>4, <1>7, <1>9, <2>2, Zenon
  <2>3. CASE i = 3
    BY <1>1, <1>4, <1>7, <1>9, <2>3, Zenon
  <2>4. CASE i = 4
    BY <1>1, <1>4, <1>7, <1>9, <2>4, Zenon
  <2>5. CASE i = 5
    BY <1>10, <1>4, <1>7, <1>9, <2>5, Zenon
  <2> QED BY <1>8, <2>1, <2>2, <2>3, <2>4, <2>5
<1> QED BY <1>6, <1>11

LEMMA ElementIs ==
  ASSUME NEW S, NEW a \in Seq(S), NEW k \in 1 .. Len(a)
  PROVE  a[k] \in S
OBVIOUS

LEMMA BoundedFinite ==
  ASSUME NEW S, S \subseteq Nat, NEW n \in Nat, \A c \in S : c <= n
  PROVE  IsFiniteSet(S)
<1>1. S \subseteq 0 .. n /\ IsFiniteSet(0 .. n)
  BY FS_Interval
<1> QED BY <1>1, FS_Subset

LEMMA Ucs2Is ==
  /\ Ucs2 \subseteq Chars /\ IsFiniteSet(Ucs2)
  /\ \A i \in 1 .. 5 : \A k \in 1 .. Len(Russian[i].letters) : Russian[i].letters[k] \in Ucs2
<1>1. ToSet(Russian) = {Russian[i] : i \in 1 .. 5}
  BY LettersOf DEF ToSet
<1>2. ASSUME NEW i \in 1 .. 5
      PROVE  /\ ToSet(Russian[i].letters) = {Russian[i].letters[k] : k \in 1 .. Len(Russian[i].letters)}
             /\ ToSet(Russian[i].lead) = {Russian[i].lead[k] : k \in 1 .. 2}
  <2> DEFINE a == Russian[i].letters  b == Russian[i].lead
  <2>1. a \in Seq(CyrillicLetters) /\ b \in Seq(Chars) /\ Len(b) = 2
    BY LettersOf
  <2> HIDE DEF a, b
  <2>2. DOMAIN a = 1 .. Len(a) /\ DOMAIN b = 1 .. 2
    BY <2>1
  <2> QED BY <2>2 DEF ToSet, a, b
<1>3. Ucs2 \subseteq Chars
  <2> SUFFICES ASSUME NEW i \in 1 .. 5
               PROVE  ToSet(Russian[i].letters) \subseteq Chars /\ ToSet(Russian[i].lead) \subseteq Chars
    BY <1>1 DEF Ucs2
  <2> DEFINE a == Russian[i].letters  b == Russian[i].lead
  <2>1. a \in Seq(CyrillicLetters) /\ b \in Seq(Chars) /\ Len(b) = 2
    BY LettersOf
  <2>2. ToSet(a) = {a[k] : k \in 1 .. Len(a)} /\ ToSet(b) = {b[k] : k \in 1 .. 2}
    BY <1>2
  <2> HIDE DEF a, b
  <2>3. \A k \in 1 .. Len(a) : a[k] \in CyrillicLetters
    BY <2>1, ElementIs
  <2>4. \A k \in 1 .. Len(b) : b[k] \in Chars
    BY <2>1, ElementIs
  <2>5. \A c \in CyrillicLetters : c \in Chars
    BY DEF Chars, LastChar, CyrillicLetters
  <2>6. ToSet(a) \subseteq Chars
    BY <2>2, <2>3, <2>5, Zenon
  <2>7. ToSet(b) \subseteq Chars
    BY <2>1, <2>2, <2>4, Zenon
  <2> QED BY <2>6, <2>7 DEF a, b
<1>4. IsFiniteSet(Ucs2)
  <2>1. Ucs2 \subseteq Nat /\ LastChar \in Nat /\ \A c \in Ucs2 : c <= LastChar
    BY <1>3 DEF Chars, LastChar
  <2> QED BY <2>1, BoundedFinite
<1>5. ASSUME NEW i \in 1 .. 5, NEW k \in 1 .. Len(Russian[i].letters)
      PROVE  Russian[i].letters[k] \in Ucs2
  <2>1. Russian[i].letters[k] \in ToSet(Russian[i].letters) /\ Russian[i] \in ToSet(Russian)
    BY <1>1, <1>2
  <2> QED BY <2>1 DEF Ucs2
<1> QED BY <1>3, <1>4, <1>5

Buffers == [Ucs2 -> Int]

LEMMA PutAt ==
  ASSUME NEW S, NEW f \in [S -> Int], NEW c, NEW v, c \in S => v \in Int
  PROVE  [f EXCEPT ![c] = v] \in [S -> Int]
<1>1. CASE c \in S
  BY <1>1
<1>2. CASE c \notin S
  BY <1>2
<1> QED BY <1>1, <1>2

LEMMA FrequencyIs == \A c \in CyrillicLetters : RussianWeight[c] \in Int
<1> DEFINE w == <<4711, 935, 2406, 896, 1917, 5075, 570, 969, 3824, 819, 2062, 2651, 1688,
       3538, 5972, 1529, 2752, 2929, 3628, 1580, 0, 597, 244, 754, 500, 0, 0,
       1284, 1202, 0, 418, 1262>>
<1>1. w \in [1 .. 32 -> Int]
  OBVIOUS
<1> HIDE DEF w
<1>2. RussianWeight = [c \in 1072 .. 1103 |-> w[c - 1071]]
  BY DEF RussianWeight, w
<1>3. ASSUME NEW c \in CyrillicLetters PROVE RussianWeight[c] \in Int
  <2>1. c \in 1072 .. 1103 /\ c - 1071 \in 1 .. 32
    BY DEF CyrillicLetters
  <2> QED BY <1>1, <1>2, <2>1
<1> QED BY <1>3

LEMMA WeightsAre ==
  ASSUME NEW i \in 1 .. 5
  PROVE  Weights[i] \in Buffers
<1> DEFINE cs == Russian[i]  q == cs.letters  n == Len(q)  D == CyrillicLetters
           Weigh(buf, c) ==
             LET u == IF c < 1088 THEN cs.lead[1] ELSE cs.lead[2]
                 own == [buf EXCEPT ![c] = @ + RussianWeight[c]]
             IN IF RussianWeight[c] = 0 THEN buf
                ELSE IF u < 128 \/ u = NOT_A_CHAR THEN own
                ELSE [own EXCEPT ![u] = IF @ = RussianWeight[c] THEN 1
                                        ELSE @ - RussianWeight[c]]
           Is(iter) ==
             iter = [z \in SUBSET DOMAIN q |->
                       IF z = {} THEN Zeroes ELSE Weigh(iter[z \ {Max(z)}], q[Max(z)])]
           It == CHOOSE iter : Is(iter)
           H == [p \in D \X Buffers |-> Weigh(p[2], p[1])]
<1>1. UcsWeights(cs) = It[DOMAIN q]
  BY DEF UcsWeights, FoldLeft, MapThenFoldSet
<1>2. n \in Nat /\ DOMAIN q = 1 .. n /\ (\A k \in 1 .. n : q[k] \in D)
  <2>1. q \in Seq(D)
    BY LettersOf
  <2> HIDE DEF q
  <2> QED BY <2>1, ElementIs
<1>3. Zeroes \in Buffers
  BY DEF Zeroes, Buffers
<1>4. ASSUME NEW b \in D, NEW buf \in Buffers PROVE Weigh(buf, b) \in Buffers
  <2> DEFINE w == RussianWeight[b]
             u == IF b < 1088 THEN cs.lead[1] ELSE cs.lead[2]
             own == [buf EXCEPT ![b] = @ + w]
             neg == [own EXCEPT ![u] = IF @ = w THEN 1 ELSE @ - w]
  <2>1. w \in Int
    BY FrequencyIs
  <2>2. Weigh(buf, b) = IF w = 0 THEN buf ELSE IF u < 128 \/ u = NOT_A_CHAR THEN own ELSE neg
    OBVIOUS
  <2> HIDE DEF w, u
  <2>3. own \in Buffers
    <3>1. b \in Ucs2 => buf[b] + w \in Int
      BY <2>1 DEF Buffers
    <3> QED BY <3>1, PutAt DEF Buffers
  <2> HIDE DEF own
  <2>4. neg \in Buffers
    <3>1. u \in Ucs2 => (IF own[u] = w THEN 1 ELSE own[u] - w) \in Int
      BY <2>1, <2>3 DEF Buffers
    <3> QED BY <2>3, <3>1, PutAt DEF Buffers
  <2> HIDE DEF neg, Weigh
  <2> QED BY <2>2, <2>3, <2>4
<1>5. H \in [D \X Buffers -> Buffers] /\ \A b \in D, st \in Buffers : H[<<b, st>>] = Weigh(st, b)
  <2> HIDE DEF Weigh, D
  <2> QED BY <1>4
<1> HIDE DEF H, n, q, D, Weigh
<1>6. PICK f \in [SUBSET DOMAIN q -> Buffers] : FoldingOver(q, Zeroes, H, f)
  BY <1>2, <1>3, <1>5, FoldOverExists
<1>7. Is(f)
  <2>1. ASSUME NEW z \in SUBSET DOMAIN q
        PROVE  f[z] = IF z = {} THEN Zeroes ELSE Weigh(f[z \ {Max(z)}], q[Max(z)])
    <3>1. f[z] = IF z = {} THEN Zeroes ELSE H[<<q[Max(z)], f[z \ {Max(z)}]>>]
      BY <1>6 DEF FoldingOver
    <3>2. z # {} => Max(z) \in DOMAIN q /\ z \ {Max(z)} \in SUBSET DOMAIN q
      BY <1>2, PlacesOf
    <3> QED BY <1>2, <1>5, <3>1, <3>2
  <2> QED BY <2>1
<1>8. Is(It)
  BY <1>7
<1>9. FoldedBy(q, Zeroes, H, Buffers, It)
  <2> HIDE DEF It
  <2>1. \A z \in SUBSET DOMAIN q : z # {} => q[Max(z)] \in D
    BY <1>2, PlacesOf
  <2> QED BY <1>5, <1>8, <2>1 DEF FoldedBy
<1> HIDE DEF It
<1>10. PICK x \in [0 .. n -> Buffers] : FoldRun(n, q, Zeroes, H, x, It[DOMAIN q])
  BY <1>2, <1>3, <1>5, <1>9, FoldRounds
<1>11. It[DOMAIN q] \in Buffers
  <2>1. n \in 0 .. n
    BY <1>2
  <2> QED BY <1>10, <2>1 DEF FoldRun
<1>12. Weights[i] = UcsWeights(cs)
  BY LettersOf DEF Weights
<1> QED BY <1>1, <1>11, <1>12

(* The loop over the bytes. *)
Parsing == [remains : 0 .. 5, char : Nat, utfbuf : Buffers]
ParseRun(s, base, x) ==
  /\ x[0] = base /\ FoldLeft(ParseByte, base, s) = x[Len(s)]
  /\ x \in [0 .. Len(s) -> Parsing]
  /\ \A k \in 1 .. Len(s) : x[k] = ParseByte(x[k - 1], s[k])

LEMMA MaxWithZero ==
  ASSUME NEW a \in Int
  PROVE  Max({a, 0}) = IF a > 0 THEN a ELSE 0
<1>1. CASE a > 0
  BY <1>1, MaxIs
<1>2. CASE ~(a > 0)
  BY <1>2, MaxIs
<1> QED BY <1>1, <1>2

LEMMA FirstByteIs ==
  ASSUME NEW b \in Byte
  PROVE  FirstByte(b).remains \in 0 .. 5 /\ FirstByte(b).bits \in Nat
<1>1. b \in Int /\ b % 32 \in Nat /\ b % 16 \in Nat /\ b % 8 \in Nat /\ b % 4 \in Nat /\ b % 2 \in Nat
  BY DEF Byte
<1> DEFINE R(n, v) == [remains |-> n, bits |-> v]
<1>2. \/ FirstByte(b) = R(1, b % 32) \/ FirstByte(b) = R(2, b % 16)
      \/ FirstByte(b) = R(3, b % 8) \/ FirstByte(b) = R(4, b % 4)
      \/ FirstByte(b) = R(5, b % 2) \/ FirstByte(b) = R(0, 0)
  BY DEF FirstByte
<1> QED BY <1>1, <1>2

(* Counted at c. *)
OneMoreAt(buf, c) == [buf EXCEPT ![c] = (IF @ > 0 THEN @ ELSE 0) + 1]

LEMMA ParseByteIs ==
  ASSUME NEW p \in Parsing, NEW b \in Byte
  PROVE  LET y == ParseByte(p, b)  c == p.char * 64 + (b % 64)
         IN /\ y \in Parsing
            /\ p.remains = 0 => /\ y.remains = FirstByte(b).remains
                                /\ y.char = FirstByte(b).bits /\ y.utfbuf = p.utfbuf
            /\ p.remains # 0 /\ b \notin 128 .. 191 => y.utfbuf = p.utfbuf
            /\ p.remains # 0 /\ b \in 128 .. 191 =>
                 /\ y.remains = p.remains - 1 /\ y.char = c
                 /\ y.utfbuf = IF p.remains = 1 /\ c \in Ucs2 /\ p.utfbuf[c] # 0
                               THEN OneMoreAt(p.utfbuf, c) ELSE p.utfbuf
<1> DEFINE y == ParseByte(p, b)  c == p.char * 64 + (b % 64)
           R(n, v, buf) == [remains |-> n, char |-> v, utfbuf |-> buf]
<1>1. /\ p.remains \in 0 .. 5 /\ p.char \in Nat /\ p.utfbuf \in Buffers
      /\ p = R(p.remains, p.char, p.utfbuf)
  BY DEF Parsing
<1>2. b \in 0 .. 255 /\ b % 64 \in Nat /\ c \in Nat
  BY <1>1 DEF Byte
<1>3. \A n \in 0 .. 5, v \in Nat, buf \in Buffers :
        /\ R(n, v, buf) \in Parsing /\ R(n, v, buf).remains = n
        /\ R(n, v, buf).char = v /\ R(n, v, buf).utfbuf = buf
  BY DEF Parsing
<1>4. CASE p.remains = 0
  <2>1. y = R(FirstByte(b).remains, FirstByte(b).bits, p.utfbuf)
    BY <1>1, <1>4 DEF ParseByte
  <2> HIDE DEF y
  <2>2. FirstByte(b).remains \in 0 .. 5 /\ FirstByte(b).bits \in Nat
    BY FirstByteIs
  <2>3. y \in Parsing
    BY <1>1, <2>1, <2>2 DEF Parsing
  <2> QED BY <1>4, <2>1, <2>3 DEF y
<1>5. CASE p.remains # 0 /\ b \notin 128 .. 191
  <2>1. y = R(0, p.char, p.utfbuf)
    BY <1>1, <1>5 DEF ParseByte
  <2>2. 0 \in 0 .. 5
    OBVIOUS
  <2> HIDE DEF y
  <2>3. y \in Parsing
    BY <1>1, <2>1, <2>2 DEF Parsing
  <2> QED BY <1>5, <2>1, <2>3 DEF y
<1>6. CASE p.remains # 0 /\ b \in 128 .. 191
  <2> DEFINE whole == p.remains = 1 /\ c \in Ucs2
             buf == IF whole /\ p.utfbuf[c] # 0
                    THEN [p.utfbuf EXCEPT ![c] = Max({@, 0}) + 1] ELSE p.utfbuf
  <2>1. y = R(p.remains - 1, c, buf)
    BY <1>6 DEF ParseByte
  <2>2. buf \in Buffers /\ buf = IF p.remains = 1 /\ c \in Ucs2 /\ p.utfbuf[c] # 0
                                 THEN OneMoreAt(p.utfbuf, c) ELSE p.utfbuf
    <3> HIDE DEF c
    <3>1. CASE whole /\ p.utfbuf[c] # 0
      <4>1. p.utfbuf[c] \in Int
        BY <1>1, <3>1 DEF Buffers
      <4>2. Max({p.utfbuf[c], 0}) = IF p.utfbuf[c] > 0 THEN p.utfbuf[c] ELSE 0
        BY <4>1, MaxWithZero
      <4>3. buf = OneMoreAt(p.utfbuf, c)
        BY <3>1, <4>2 DEF OneMoreAt
      <4>4. OneMoreAt(p.utfbuf, c) \in Buffers
        <5>1. (IF p.utfbuf[c] > 0 THEN p.utfbuf[c] ELSE 0) + 1 \in Int
          BY <4>1
        <5> QED BY <1>1, <5>1, PutAt DEF OneMoreAt, Buffers
      <4> QED BY <3>1, <4>3, <4>4
    <3>2. CASE ~(whole /\ p.utfbuf[c] # 0)
      BY <1>1, <3>2
    <3> QED BY <3>1, <3>2
  <2>3. p.remains - 1 \in 0 .. 5
    BY <1>1, <1>6
  <2> HIDE DEF y, R, c, buf
  <2>4. y \in Parsing /\ y.remains = p.remains - 1 /\ y.char = c /\ y.utfbuf = buf
    BY <1>2, <1>3, <2>1, <2>2, <2>3
  <2> QED BY <1>6, <2>2, <2>4 DEF y, c
<1> HIDE DEF y, c
<1> QED BY <1>4, <1>5, <1>6 DEF y, c

LEMMA ParseRounds ==
  ASSUME NEW s \in Seq(Byte), NEW base \in Parsing
  PROVE  \E x : ParseRun(s, base, x)
<1> DEFINE X == Parsing  n == Len(s)  D == Byte
           Is(iter) ==
             iter = [z \in SUBSET DOMAIN s |->
                       IF z = {} THEN base ELSE ParseByte(iter[z \ {Max(z)}], s[Max(z)])]
           It == CHOOSE iter : Is(iter)
           H == [p \in D \X X |-> ParseByte(p[2], p[1])]
<1>1. FoldLeft(ParseByte, base, s) = It[DOMAIN s]
  BY DEF FoldLeft, MapThenFoldSet
<1>2. n \in Nat /\ DOMAIN s = 1 .. n /\ (\A i \in 1 .. n : s[i] \in D) /\ base \in X
  OBVIOUS
<1>4. H \in [D \X X -> X] /\ \A b \in D, st \in X : H[<<b, st>>] = ParseByte(st, b)
  <2>1. \A b \in D, st \in X : ParseByte(st, b) \in X
    BY ParseByteIs
  <2> HIDE DEF X, D
  <2> QED BY <2>1
<1> HIDE DEF H, X, n, D
<1>5. PICK f \in [SUBSET DOMAIN s -> X] : FoldingOver(s, base, H, f)
  BY <1>2, <1>4, FoldOverExists
<1>6. Is(f)
  <2>1. ASSUME NEW z \in SUBSET DOMAIN s
        PROVE  f[z] = IF z = {} THEN base ELSE ParseByte(f[z \ {Max(z)}], s[Max(z)])
    <3>1. f[z] = IF z = {} THEN base ELSE H[<<s[Max(z)], f[z \ {Max(z)}]>>]
      BY <1>5 DEF FoldingOver
    <3>2. z # {} => Max(z) \in DOMAIN s /\ z \ {Max(z)} \in SUBSET DOMAIN s
      BY <1>2, PlacesOf
    <3> QED BY <1>2, <1>4, <3>1, <3>2
  <2> QED BY <2>1
<1>7. Is(It)
  BY <1>6
<1>8. FoldedBy(s, base, H, X, It)
  <2> HIDE DEF It
  <2>1. \A z \in SUBSET DOMAIN s : z # {} => s[Max(z)] \in D
    BY <1>2, PlacesOf
  <2> QED BY <1>4, <1>7, <2>1 DEF FoldedBy
<1> HIDE DEF It
<1>9. PICK x \in [0 .. n -> X] : FoldRun(n, s, base, H, x, It[DOMAIN s])
  BY <1>2, <1>4, <1>8, FoldRounds
<1>10. \A k \in 1 .. n : x[k] = ParseByte(x[k - 1], s[k])
  <2> SUFFICES ASSUME NEW k \in 1 .. n PROVE x[k] = ParseByte(x[k - 1], s[k])
    OBVIOUS
  <2>1. k - 1 \in 0 .. n
    BY <1>2
  <2> QED BY <1>2, <1>4, <1>9, <2>1 DEF FoldRun
<1> QED BY <1>1, <1>9, <1>10 DEF FoldRun, X, n, ParseRun

(* A check starts from marks alone, if nothing was ever counted that has no  *)
(* weight; and it counts nothing that has none.                               *)
Unweighed(buf) == \A c \in Ucs2 \ Significant : buf[c] = 0
StartOf(buf) == [remains |-> 0, char |-> 0, utfbuf |-> MarkScratchBuffer(buf)]

LEMMA MarksAlone ==
  ASSUME NEW buf \in Buffers, Unweighed(buf)
  PROVE  MarkScratchBuffer(buf) = MarkScratchBuffer(Zeroes)
<1>1. \A c \in Ucs2 : Zeroes[c] = 0
  BY DEF Zeroes
<1>2. \A c \in Ucs2 : (IF c \in Significant THEN -1 ELSE buf[c])
                        = IF c \in Significant THEN -1 ELSE Zeroes[c]
  BY <1>1 DEF Unweighed
<1> QED BY <1>2 DEF MarkScratchBuffer

LEMMA StartIs ==
  /\ StartOf(Zeroes) \in Parsing /\ Unweighed(StartOf(Zeroes).utfbuf)
  /\ StartOf(Zeroes).remains = 0
  /\ \A c \in Ucs2 : StartOf(Zeroes).utfbuf[c] = IF c \in Significant THEN -1 ELSE 0
<1> DEFINE buf == MarkScratchBuffer(Zeroes)
<1>1. buf = [c \in Ucs2 |-> IF c \in Significant THEN -1 ELSE 0]
  <2>1. \A c \in Ucs2 : Zeroes[c] = 0
    BY DEF Zeroes
  <2> QED BY <2>1 DEF MarkScratchBuffer
<1> HIDE DEF buf
<1>2. buf \in Buffers /\ \A c \in Ucs2 : buf[c] = IF c \in Significant THEN -1 ELSE 0
  BY <1>1 DEF Buffers
<1>3. Unweighed(buf)
  BY <1>2 DEF Unweighed
<1> QED BY <1>2, <1>3 DEF StartOf, Parsing, buf

LEMMA UnweighedKept ==
  ASSUME NEW p \in Parsing, NEW b \in Byte, Unweighed(p.utfbuf)
  PROVE  Unweighed(ParseByte(p, b).utfbuf)
<1> DEFINE y == ParseByte(p, b)  c == p.char * 64 + (b % 64)
<1>1. \/ y.utfbuf = p.utfbuf
      \/ c \in Ucs2 /\ p.utfbuf[c] # 0 /\ y.utfbuf = OneMoreAt(p.utfbuf, c)
  BY ParseByteIs
<1>2. p.utfbuf \in Buffers
  BY DEF Parsing
<1> HIDE DEF y, c
<1>3. CASE c \in Ucs2 /\ p.utfbuf[c] # 0 /\ y.utfbuf = OneMoreAt(p.utfbuf, c)
  <2> SUFFICES ASSUME NEW d \in Ucs2 \ Significant PROVE y.utfbuf[d] = 0
    BY DEF Unweighed, y
  <2>1. p.utfbuf[d] = 0
    BY DEF Unweighed
  <2>2. d # c
    BY <1>3, <2>1
  <2> QED BY <1>2, <1>3, <2>1, <2>2 DEF OneMoreAt, Buffers
<1> QED BY <1>1, <1>3 DEF y

LEMMA CheckKeepsUnweighed ==
  ASSUME NEW s \in Seq(Byte)
  PROVE  LET buf == DoubleUtf8Check(Zeroes, s).utfbuf
         IN buf \in Buffers /\ Unweighed(buf)
<1> DEFINE n == Len(s)
<1>1. PICK x : ParseRun(s, StartOf(Zeroes), x)
  BY StartIs, ParseRounds
<1>2. n \in Nat /\ \A k \in 1 .. n : s[k] \in Byte
  OBVIOUS
<1>3. /\ x[0] = StartOf(Zeroes) /\ x \in [0 .. n -> Parsing]
      /\ \A k \in 1 .. n : x[k] = ParseByte(x[k - 1], s[k])
      /\ FoldLeft(ParseByte, StartOf(Zeroes), s) = x[n]
  BY <1>1 DEF ParseRun
<1>4. DoubleUtf8Check(Zeroes, s).utfbuf = x[n].utfbuf
  BY <1>3 DEF DoubleUtf8Check, StartOf
<1> DEFINE T == {k \in Nat : Unweighed(x[k].utfbuf)}
<1> HIDE DEF n
<1>5. 0 \in T
  BY <1>3, StartIs
<1>6. ASSUME NEW k \in 0 .. n - 1, k \in T PROVE k + 1 \in T
  <2>1. k + 1 \in 1 .. n /\ (k + 1) - 1 = k /\ k \in 0 .. n
    BY <1>2
  <2>2. x[k] \in Parsing /\ s[k + 1] \in Byte /\ x[k + 1] = ParseByte(x[k], s[k + 1])
    BY <1>2, <1>3, <2>1
  <2>3. Unweighed(x[k + 1].utfbuf)
    BY <1>6, <2>2, UnweighedKept
  <2> QED BY <2>1, <2>3
<1>7. n \in T
  <2>1. \A k \in 0 .. n : k \in T
    <3> HIDE DEF T
    <3> QED BY <1>2, <1>5, <1>6, UpTo
  <2> QED BY <1>2, <2>1
<1>8. x[n] \in Parsing
  BY <1>2, <1>3
<1> QED BY <1>4, <1>7, <1>8 DEF Parsing

(* The bytes of one token, read from where no character is open. *)
LEMMA FormDigits ==
  ASSUME NEW c \in Nat
  PROVE  /\ c < 2048 /\ c >= 256 =>
              /\ 192 + c \div 64 \in 192 .. 223 /\ (192 + c \div 64) % 32 = c \div 64
         /\ c <= 65535 /\ c >= 2048 =>
              /\ 224 + c \div 4096 \in 224 .. 239 /\ (224 + c \div 4096) % 16 = c \div 4096
         /\ 128 + (c % 64) \in 128 .. 191 /\ (128 + (c % 64)) % 64 = c % 64
         /\ 128 + ((c \div 64) % 64) \in 128 .. 191
         /\ (128 + ((c \div 64) % 64)) % 64 = (c \div 64) % 64
         /\ (c \div 64) * 64 + (c % 64) = c
         /\ (c \div 4096) * 64 + ((c \div 64) % 64) = c \div 64
<1>1. /\ c < 2048 /\ c >= 256 =>
              /\ 192 + c \div 64 \in 192 .. 223 /\ (192 + c \div 64) % 32 = c \div 64
  OBVIOUS
<1>2. /\ c <= 65535 /\ c >= 2048 =>
              /\ 224 + c \div 4096 \in 224 .. 239 /\ (224 + c \div 4096) % 16 = c \div 4096
  OBVIOUS
<1>3. 128 + (c % 64) \in 128 .. 191 /\ (128 + (c % 64)) % 64 = c % 64
  OBVIOUS
<1>4. /\ 128 + ((c \div 64) % 64) \in 128 .. 191
      /\ (128 + ((c \div 64) % 64)) % 64 = (c \div 64) % 64
  OBVIOUS
<1>5. (c \div 64) * 64 + (c % 64) = c
  OBVIOUS
<1>6. (c \div 4096) * 64 + ((c \div 64) % 64) = c \div 64
  OBVIOUS
<1> QED BY <1>1, <1>2, <1>3, <1>4, <1>5, <1>6

(* A token is a byte or a character. *)
LastToken == 65535
Tokens == {c \in Nat : c <= LastToken}

LEMMA FormIs ==
  ASSUME NEW c \in Tokens
  PROVE  LET f == Utf8Form(c)
         IN /\ f \in Seq(Byte)
            /\ c < 256 => f = <<c>> /\ Len(f) = 1
            /\ c >= 256 /\ c < 2048 =>
                 f = <<192 + c \div 64, 128 + (c % 64)>> /\ Len(f) = 2
            /\ c >= 2048 =>
                 f = <<224 + c \div 4096, 128 + ((c \div 64) % 64), 128 + (c % 64)>> /\ Len(f) = 3
<1> DEFINE f == Utf8Form(c)
<1>0. c \in Nat /\ c <= LastToken
  BY DEF Tokens
<1>9. /\ 128 + (c % 64) \in 128 .. 191 /\ 128 + ((c \div 64) % 64) \in 128 .. 191
      /\ c < 2048 /\ c >= 256 => 192 + c \div 64 \in 192 .. 223
      /\ c >= 2048 => 224 + c \div 4096 \in 224 .. 239
  BY <1>0, SMT DEF LastToken
<1>1. CASE c < 256
  <2>1. f = <<c>>
    BY <1>1, SMT DEF Utf8Form
  <2>2. c \in Byte
    BY <1>0, <1>1, SMT DEF Byte
  <2> HIDE DEF f
  <2>3. f \in Seq(Byte) /\ Len(f) = 1
    BY <2>1, <2>2, SMT
  <2>4. ~(c >= 256) /\ ~(c >= 2048)
    BY <1>0, <1>1, SMT
  <2> QED BY <1>1, <2>1, <2>3, <2>4, SMT DEF f
<1>2. CASE c >= 256 /\ c < 2048
  <2> DEFINE a == 192 + c \div 64  b == 128 + (c % 64)
  <2>1. f = <<a, b>>
    BY <1>0, <1>2, SMT DEF Utf8Form
  <2>2. a \in Byte /\ b \in Byte
    BY <1>2, <1>9, SMT DEF Byte
  <2>4. ~(c < 256) /\ ~(c >= 2048)
    BY <1>0, <1>2, SMT
  <2> HIDE DEF f, a, b
  <2>3. f \in Seq(Byte) /\ Len(f) = 2
    BY <2>1, <2>2, SMT
  <2> QED BY <1>2, <2>1, <2>3, <2>4, SMT DEF f, a, b
<1>3. CASE c >= 2048
  <2> DEFINE a == 224 + c \div 4096  m == 128 + ((c \div 64) % 64)  b == 128 + (c % 64)
  <2>1. f = <<a, m, b>>
    BY <1>0, <1>3, SMT DEF Utf8Form
  <2>2. a \in Byte /\ m \in Byte /\ b \in Byte
    BY <1>3, <1>9, SMT DEF Byte
  <2>4. ~(c < 256) /\ ~(c < 2048)
    BY <1>0, <1>3, SMT
  <2> HIDE DEF f, a, m, b
  <2>3. f \in Seq(Byte) /\ Len(f) = 3
    BY <2>1, <2>2, SMT
  <2> QED BY <1>3, <2>1, <2>3, <2>4, SMT DEF f, a, m, b
<1> QED BY <1>0, <1>1, <1>2, <1>3, SMT

Counted(buf, c) == IF c \in Ucs2 /\ buf[c] # 0 THEN OneMoreAt(buf, c) ELSE buf

LEMMA OpenedIs ==
  ASSUME NEW p \in Parsing, p.remains = 0, NEW b \in Byte, NEW n, NEW v,
         FirstByte(b) = [remains |-> n, bits |-> v], NEW y, y = ParseByte(p, b)
  PROVE  y \in Parsing /\ y.remains = n /\ y.char = v /\ y.utfbuf = p.utfbuf
<1>1. y \in Parsing
  BY ParseByteIs
<1>2. y.remains = FirstByte(b).remains /\ y.char = FirstByte(b).bits /\ y.utfbuf = p.utfbuf
  BY ParseByteIs
<1> HIDE DEF Parsing
<1> QED BY <1>1, <1>2, SMT

LEMMA ContinuedIs ==
  ASSUME NEW p \in Parsing, p.remains # 0, NEW b, b \in 128 .. 191, NEW c,
         c = p.char * 64 + (b % 64), NEW y, y = ParseByte(p, b)
  PROVE  /\ y \in Parsing /\ y.remains = p.remains - 1 /\ y.char = c
         /\ y.utfbuf = IF p.remains = 1 THEN Counted(p.utfbuf, c) ELSE p.utfbuf
<1>1. b \in Byte
  BY SMT DEF Byte
<1>2. y \in Parsing
  BY <1>1, ParseByteIs
<1>3. /\ y.remains = p.remains - 1 /\ y.char = c
      /\ y.utfbuf = IF p.remains = 1 /\ c \in Ucs2 /\ p.utfbuf[c] # 0
                    THEN OneMoreAt(p.utfbuf, c) ELSE p.utfbuf
  BY <1>1, ParseByteIs
<1> QED BY <1>2, <1>3, SMT DEF Counted

LEMMA FormParsed ==
  ASSUME NEW c \in Tokens, c \notin 128 .. 255, NEW p \in Parsing, p.remains = 0,
         NEW y,
         LET f == Utf8Form(c)
         IN /\ Len(f) = 1 => y = ParseByte(p, f[1])
            /\ Len(f) = 2 => y = ParseByte(ParseByte(p, f[1]), f[2])
            /\ Len(f) = 3 => y = ParseByte(ParseByte(ParseByte(p, f[1]), f[2]), f[3])
  PROVE  y.remains = 0 /\ y.utfbuf = Counted(p.utfbuf, c)
<1> DEFINE f == Utf8Form(c)
<1>0. c \in Nat /\ c <= LastToken
  BY DEF Tokens
<1>8. /\ 128 + (c % 64) \in 128 .. 191 /\ (128 + (c % 64)) % 64 = c % 64
      /\ 128 + ((c \div 64) % 64) \in 128 .. 191
      /\ (128 + ((c \div 64) % 64)) % 64 = (c \div 64) % 64
      /\ (c \div 64) * 64 + (c % 64) = c
      /\ (c \div 4096) * 64 + ((c \div 64) % 64) = c \div 64
  BY <1>0, FormDigits
<1>1. CASE c < 128
  <2>0. c < 256 /\ c \in Byte
    BY <1>0, <1>1, SMT DEF Byte
  <2>1. f = <<c>> /\ Len(f) = 1
    BY <2>0, FormIs
  <2>2. y = ParseByte(p, c)
    BY <2>1, SMT
  <2>3. FirstByte(c) = [remains |-> 0, bits |-> 0]
    BY <1>0, <1>1, SMT DEF FirstByte
  <2>4. y.remains = 0 /\ y.utfbuf = p.utfbuf
    BY <2>0, <2>2, <2>3, OpenedIs
  <2>5. c \notin Ucs2
    <3>1. c \notin Chars
      BY <1>0, <1>1, SMT DEF Chars
    <3> QED BY <3>1, Ucs2Is
  <2> QED BY <2>4, <2>5 DEF Counted
<1>2. CASE c >= 256 /\ c < 2048
  <2> DEFINE a == 192 + c \div 64  b == 128 + (c % 64)
             y1 == ParseByte(p, a)
  <2>1. f = <<a, b>> /\ Len(f) = 2
    BY <1>2, FormIs
  <2>2. y = ParseByte(y1, b)
    BY <2>1, SMT
  <2>3. /\ a \in 192 .. 223 /\ a % 32 = c \div 64 /\ b \in 128 .. 191 /\ b % 64 = c % 64
        /\ (c \div 64) * 64 + (c % 64) = c
    BY <1>0, <1>2, <1>8, FormDigits
  <2> HIDE DEF a, b, f
  <2>4. a \in Byte
    BY <2>3, SMT DEF Byte
  <2>5. FirstByte(a) = [remains |-> 1, bits |-> c \div 64]
    BY <2>3, SMT DEF FirstByte
  <2>6. y1 \in Parsing /\ y1.remains = 1 /\ y1.char = c \div 64 /\ y1.utfbuf = p.utfbuf
    BY <2>4, <2>5, OpenedIs
  <2> HIDE DEF y1
  <2>7. y1.char * 64 + (b % 64) = c /\ y1.remains # 0 /\ y1.remains - 1 = 0
    BY <2>3, <2>6, SMT
  <2>8. /\ y.remains = y1.remains - 1
        /\ y.utfbuf = IF y1.remains = 1 THEN Counted(y1.utfbuf, c) ELSE y1.utfbuf
    BY <2>2, <2>3, <2>6, <2>7, ContinuedIs
  <2> QED BY <2>6, <2>7, <2>8, Zenon
<1>3. CASE c >= 2048
  <2> DEFINE a == 224 + c \div 4096  m == 128 + ((c \div 64) % 64)  b == 128 + (c % 64)
             y1 == ParseByte(p, a)  y2 == ParseByte(y1, m)
  <2>1. f = <<a, m, b>> /\ Len(f) = 3
    BY <1>3, FormIs
  <2>2. y = ParseByte(y2, b)
    BY <2>1, SMT
  <2>3. a \in 224 .. 239 /\ a % 16 = c \div 4096
    BY <1>0, <1>3, FormDigits, SMT DEF LastToken
  <2>9. /\ m \in 128 .. 191 /\ m % 64 = (c \div 64) % 64
        /\ b \in 128 .. 191 /\ b % 64 = c % 64
        /\ (c \div 64) * 64 + (c % 64) = c
        /\ (c \div 4096) * 64 + ((c \div 64) % 64) = c \div 64
    BY <1>8
  <2> HIDE DEF a, b, m, f
  <2>4. a \in Byte
    BY <2>3, SMT DEF Byte
  <2>5. FirstByte(a) = [remains |-> 2, bits |-> c \div 4096]
    BY <2>3, SMT DEF FirstByte
  <2>6. y1 \in Parsing /\ y1.remains = 2 /\ y1.char = c \div 4096 /\ y1.utfbuf = p.utfbuf
    BY <2>4, <2>5, OpenedIs
  <2> HIDE DEF y1
  <2>7. /\ y1.char * 64 + (m % 64) = c \div 64
        /\ y1.remains # 0 /\ y1.remains # 1 /\ y1.remains - 1 = 1
    BY <2>9, <2>6, SMT
  <2>8. y2 \in Parsing /\ y2.remains = 1 /\ y2.char = c \div 64 /\ y2.utfbuf = p.utfbuf
    <3>1. /\ y2 \in Parsing /\ y2.remains = y1.remains - 1 /\ y2.char = c \div 64
          /\ y2.utfbuf = IF y1.remains = 1 THEN Counted(y1.utfbuf, c \div 64) ELSE y1.utfbuf
      BY <2>6, <2>7, <2>9, ContinuedIs
    <3> HIDE DEF y2
    <3> QED BY <2>6, <2>7, <3>1
  <2> HIDE DEF y2
  <2>10. y2.char * 64 + (b % 64) = c /\ y2.remains # 0 /\ y2.remains - 1 = 0
    BY <2>8, <2>9, SMT
  <2>11. /\ y.remains = y2.remains - 1
         /\ y.utfbuf = IF y2.remains = 1 THEN Counted(y2.utfbuf, c) ELSE y2.utfbuf
    BY <2>2, <2>8, <2>9, <2>10, ContinuedIs
  <2> QED BY <2>8, <2>10, <2>11, Zenon
<1> QED BY <1>0, <1>1, <1>2, <1>3, SMT

(* The text as bytes, and the state of the loop where each token ends. *)
FormsOf(chars) == [i \in DOMAIN chars |-> Utf8Form(chars[i])]

LEMMA TextPlaces ==
  ASSUME NEW chars \in Seq(Tokens)
  PROVE  /\ Utf8Text(chars) \in Seq(Byte)
         /\ \E L \in [0 .. Len(chars) -> Nat] :
              /\ L[0] = 0 /\ L[Len(chars)] = Len(Utf8Text(chars))
              /\ \A k \in 1 .. Len(chars) :
                   LET f == Utf8Form(chars[k])
                   IN /\ L[k] = L[k - 1] + Len(f) /\ L[k] <= Len(Utf8Text(chars))
                      /\ \A i \in 1 .. Len(f) : Utf8Text(chars)[L[k - 1] + i] = f[i]
<1> DEFINE q == FormsOf(chars)  n == Len(chars)
<1>1. n \in Nat /\ DOMAIN chars = 1 .. n /\ \A k \in 1 .. n : chars[k] \in Tokens
  BY ElementIs
<1>2. \A k \in 1 .. n : q[k] = Utf8Form(chars[k]) /\ q[k] \in Seq(Byte)
  BY <1>1, FormIs DEF FormsOf
<1>3. q = [k \in 1 .. n |-> q[k]]
  BY <1>1 DEF FormsOf
<1>4. Utf8Text(chars) = Join(q)
  BY DEF Utf8Text, FormsOf
<1> HIDE DEF q, n
<1>5. q \in Seq(Seq(Byte)) /\ Len(q) = n
  BY <1>1, <1>2, <1>3
<1>6. Join(q) \in Seq(Byte)
  BY <1>5, JoinIs
<1>7. PICK L \in [0 .. n -> Nat] : PlacesIn(q, Join(q), L)
  BY <1>5, JoinIs
<1>8. /\ L[0] = 0 /\ L[n] = Len(Join(q))
      /\ \A k \in 1 .. n :
           LET f == Utf8Form(chars[k])
           IN /\ L[k] = L[k - 1] + Len(f) /\ L[k] <= Len(Join(q))
              /\ \A i \in 1 .. Len(f) : Join(q)[L[k - 1] + i] = f[i]
  BY <1>2, <1>5, <1>7 DEF PlacesIn
<1> QED BY <1>4, <1>6, <1>8 DEF n

(* What the buffer holds for c after k tokens. *)
Marked(c, k) ==
  IF c \notin Significant THEN 0
  ELSE IF Cardinality(Asked(c, k)) > 0 THEN Cardinality(Asked(c, k)) ELSE -1
CountedSoFar(p, k) ==
  /\ p \in Parsing /\ p.remains = 0 /\ \A c \in Ucs2 : p.utfbuf[c] = Marked(c, k)

LEMMA TokenCounted ==
  ASSUME NEW k \in Nat, NEW p, CountedSoFar(p, k), NEW y \in Parsing, y.remains = 0,
         y.utfbuf = Counted(p.utfbuf, text[k + 1])
  PROVE  CountedSoFar(y, k + 1)
<1> DEFINE e == text[k + 1]  buf == p.utfbuf
<1>1. buf \in Buffers /\ DOMAIN buf = Ucs2
  BY DEF CountedSoFar, Parsing, Buffers
<1>2. ASSUME NEW c \in Ucs2 PROVE y.utfbuf[c] = Marked(c, k + 1)
  <2> DEFINE a == Cardinality(Asked(c, k))  b == Cardinality(Asked(c, k + 1))
  <2>1. b = a + (IF c = e THEN 1 ELSE 0) /\ a \in Nat
    BY AskedOnce
  <2>2. buf[c] = IF c \notin Significant THEN 0 ELSE IF a > 0 THEN a ELSE -1
    BY DEF CountedSoFar, Marked
  <2>3. Marked(c, k + 1) = IF c \notin Significant THEN 0 ELSE IF b > 0 THEN b ELSE -1
    BY DEF Marked
  <2> HIDE DEF a, b
  <2>4. CASE c = e /\ buf[c] # 0
    <3>1. y.utfbuf = [buf EXCEPT ![c] = (IF @ > 0 THEN @ ELSE 0) + 1]
      BY <2>4 DEF Counted, OneMoreAt
    <3>2. y.utfbuf[c] = (IF buf[c] > 0 THEN buf[c] ELSE 0) + 1
      BY <1>1, <3>1
    <3> HIDE DEF e, buf
    <3> QED BY <2>1, <2>2, <2>3, <2>4, <3>2
  <2>5. CASE ~(c = e /\ buf[c] # 0)
    <3>1. y.utfbuf[c] = buf[c]
      <4>1. y.utfbuf = IF e \in Ucs2 /\ buf[e] # 0
                       THEN [buf EXCEPT ![e] = (IF @ > 0 THEN @ ELSE 0) + 1] ELSE buf
        BY DEF Counted, OneMoreAt
      <4> HIDE DEF e, buf
      <4> QED BY <1>1, <2>5, <4>1
    <3>2. c = e => c \notin Significant
      <4> HIDE DEF e, buf
      <4> QED BY <2>1, <2>2, <2>5
    <3> HIDE DEF e, buf
    <3> QED BY <2>1, <2>2, <2>3, <3>1, <3>2
  <2> QED BY <2>4, <2>5
<1> QED BY <1>2 DEF CountedSoFar

LEMMA AllCounted ==
  ASSUME text \in Seq(Tokens), \A k \in DOMAIN text : text[k] \notin 128 .. 255
  PROVE  LET buf == DoubleUtf8Check(Zeroes, Utf8Text(text)).utfbuf
         IN buf \in Buffers /\ \A c \in Ucs2 : buf[c] = Marked(c, Len(text))
<1> DEFINE n == Len(text)  s == Utf8Text(text)  m == Len(s)
<1>1. n \in Nat /\ DOMAIN text = 1 .. n /\ \A k \in 1 .. n : text[k] \in Tokens
  BY ElementIs
<1>2. s \in Seq(Byte)
  BY TextPlaces
<1>3. PICK L \in [0 .. n -> Nat] :
        /\ L[0] = 0 /\ L[n] = Len(s)
        /\ \A k \in 1 .. n :
             LET f == Utf8Form(text[k])
             IN /\ L[k] = L[k - 1] + Len(f) /\ L[k] <= Len(s)
                /\ \A i \in 1 .. Len(f) : s[L[k - 1] + i] = f[i]
  BY TextPlaces
<1>4. PICK x : ParseRun(s, StartOf(Zeroes), x)
  BY <1>2, StartIs, ParseRounds
<1>5. /\ x[0] = StartOf(Zeroes) /\ x \in [0 .. m -> Parsing]
      /\ \A j \in 1 .. m : x[j] = ParseByte(x[j - 1], s[j])
      /\ FoldLeft(ParseByte, StartOf(Zeroes), s) = x[m]
  BY <1>4 DEF ParseRun
<1>6. DoubleUtf8Check(Zeroes, s).utfbuf = x[m].utfbuf
  BY <1>5 DEF DoubleUtf8Check, StartOf
<1>7. m \in Nat
  BY <1>2
<1> HIDE DEF n, s, m
<1> DEFINE T == {k \in Nat : CountedSoFar(x[L[k]], k)}
<1>8. 0 \in T
  <2>1. ASSUME NEW c \in Ucs2 PROVE StartOf(Zeroes).utfbuf[c] = Marked(c, 0)
    <3>1. Cardinality(Asked(c, 0)) = 0
      BY AskedOnce
    <3> QED BY <3>1, StartIs DEF Marked
  <2>2. CountedSoFar(StartOf(Zeroes), 0)
    BY <2>1, StartIs DEF CountedSoFar
  <2> QED BY <1>3, <1>5, <2>2
<1>9. ASSUME NEW k \in 0 .. n - 1, k \in T PROVE k + 1 \in T
  <2> DEFINE e == text[k + 1]  f == Utf8Form(e)  l == L[k]
  <2>1. k + 1 \in 1 .. n /\ (k + 1) - 1 = k /\ k \in 0 .. n /\ k + 1 \in 0 .. n /\ k \in Nat
    BY <1>1
  <2>2. e \in Tokens /\ e \notin 128 .. 255
    BY <1>1, <2>1
  <2>3. /\ L[k + 1] = l + Len(f) /\ L[k + 1] <= m
        /\ \A i \in 1 .. Len(f) : s[l + i] = f[i]
    BY <1>3, <2>1 DEF m
  <2>4. l \in Nat
    BY <1>3, <2>1
  <2>5. Len(f) \in {1, 2, 3}
    <3> HIDE DEF e, f
    <3>1. e \in Nat
      BY <2>2 DEF Tokens
    <3>2. e < 256 \/ (e >= 256 /\ e < 2048) \/ e >= 2048
      BY <3>1, SMT
    <3> USE DEF f
    <3>3. CASE e < 256
      BY <2>2, <3>3, FormIs
    <3>4. CASE e >= 256 /\ e < 2048
      BY <2>2, <3>4, FormIs
    <3>5. CASE e >= 2048
      BY <2>2, <3>5, FormIs
    <3> QED BY <3>2, <3>3, <3>4, <3>5
  <2>6. CountedSoFar(x[l], k)
    BY <1>9
  <2> DEFINE p == x[l]  y == x[L[k + 1]]
  <2> HIDE DEF e, f, l
  <2>7. \A i \in 1 .. Len(f) : x[l + i] = ParseByte(x[l + (i - 1)], f[i])
    <3> SUFFICES ASSUME NEW i \in 1 .. Len(f) PROVE x[l + i] = ParseByte(x[l + (i - 1)], f[i])
      OBVIOUS
    <3>1. l + i \in 1 .. m /\ (l + i) - 1 = l + (i - 1)
      BY <1>7, <2>3, <2>4, <2>5, SMT
    <3> QED BY <1>5, <2>3, <3>1
  <2>8. l + 0 = l /\ 1 - 1 = 0 /\ 2 - 1 = 1 /\ 3 - 1 = 2
    BY <2>4
  <2>9. /\ Len(f) = 1 => y = ParseByte(p, f[1])
        /\ Len(f) = 2 => y = ParseByte(ParseByte(p, f[1]), f[2])
        /\ Len(f) = 3 => y = ParseByte(ParseByte(ParseByte(p, f[1]), f[2]), f[3])
    <3>1. ASSUME Len(f) = 1 PROVE y = ParseByte(p, f[1])
      <4>1. 1 \in 1 .. Len(f)
        BY <3>1
      <4> QED BY <2>3, <2>7, <2>8, <3>1, <4>1
    <3>2. ASSUME Len(f) = 2 PROVE y = ParseByte(ParseByte(p, f[1]), f[2])
      <4>1. 1 \in 1 .. Len(f) /\ 2 \in 1 .. Len(f)
        BY <3>2
      <4> QED BY <2>3, <2>7, <2>8, <3>2, <4>1
    <3>3. ASSUME Len(f) = 3
          PROVE  y = ParseByte(ParseByte(ParseByte(p, f[1]), f[2]), f[3])
      <4>1. 1 \in 1 .. Len(f) /\ 2 \in 1 .. Len(f) /\ 3 \in 1 .. Len(f)
        BY <3>3
      <4> QED BY <2>3, <2>7, <2>8, <3>3, <4>1
    <3> QED BY <3>1, <3>2, <3>3
  <2>10. p \in Parsing /\ p.remains = 0
    BY <2>6 DEF CountedSoFar
  <2>11. y \in Parsing
    <3>1. L[k + 1] \in 0 .. m
      BY <1>3, <1>7, <2>1, <2>3
    <3> QED BY <1>5, <3>1
  <2> HIDE DEF p, y
  <2>12. y.remains = 0 /\ y.utfbuf = Counted(p.utfbuf, e)
    BY <2>2, <2>9, <2>10, FormParsed DEF f
  <2>13. CountedSoFar(y, k + 1)
    BY <2>1, <2>6, <2>11, <2>12, TokenCounted DEF p, e
  <2> QED BY <2>1, <2>13 DEF y
<1>10. n \in T
  <2>1. \A k \in 0 .. n : k \in T
    <3> HIDE DEF T
    <3> QED BY <1>1, <1>8, <1>9, UpTo
  <2> QED BY <1>1, <2>1
<1>11. CountedSoFar(x[m], n)
  BY <1>3, <1>10 DEF m
<1>12. x[m].utfbuf \in Buffers /\ \A c \in Ucs2 : x[m].utfbuf[c] = Marked(c, n)
  BY <1>11 DEF CountedSoFar, Parsing
<1> QED BY <1>6, <1>12 DEF s, n

(* What is zero need not be summed. *)
LEMMA ZerosLeaveTotal ==
  ASSUME NEW S, IsFiniteSet(S), NEW f \in [S -> Int], NEW R, R \subseteq S,
         \A c \in S \ R : f[c] = 0
  PROVE  Total(f) = Total([c \in R |-> f[c]])
<1> DEFINE Less(t) == [c \in t |-> f[c]]
           Even(t) == Total(Less(R \cup t)) = Total(Less(R))
           T == {k \in Nat : \A t \in SUBSET (S \ R) : Cardinality(t) = k => Even(t)}
<1>0. ASSUME NEW t \in SUBSET (S \ R)
      PROVE  /\ IsFiniteSet(t) /\ Cardinality(t) \in Nat /\ IsFiniteSet(R \cup t)
             /\ Less(R \cup t) \in [R \cup t -> Int]
  <2>1. t \in SUBSET S /\ R \cup t \in SUBSET S
    OBVIOUS
  <2>2. IsFiniteSet(t) /\ IsFiniteSet(R \cup t) /\ Cardinality(t) \in Nat
    BY <2>1, FS_Subset, FS_CardinalityType
  <2> QED BY <2>1, <2>2
<1>1. 0 \in T
  <2> SUFFICES ASSUME NEW t \in SUBSET (S \ R), Cardinality(t) = 0 PROVE Even(t)
    OBVIOUS
  <2>1. t = {}
    BY <1>0, FS_EmptySet
  <2>2. R \cup t = R
    BY <2>1
  <2> QED BY <2>2
<1>2. ASSUME NEW k \in Nat, k \in T PROVE k + 1 \in T
  <2> SUFFICES ASSUME NEW t \in SUBSET (S \ R), Cardinality(t) = k + 1 PROVE Even(t)
    <3> HIDE DEF Even
    <3> QED OBVIOUS
  <2>1. t # {}
    <3>1. Cardinality(t) # 0
      BY SMT
    <3> QED BY <3>1, FS_EmptySet, Zenon
  <2>2. PICK y \in t : TRUE
    BY <2>1
  <2> DEFINE u == t \ {y}
  <2>3. u \in SUBSET (S \ R) /\ Cardinality(u) = k
    <3>1. IsFiniteSet(t) /\ Cardinality(u) = Cardinality(t) - 1
      BY <1>0, <2>2, FS_RemoveElement, Zenon
    <3>2. Cardinality(u) = k
      <4> HIDE DEF u, T
      <4> QED BY <3>1, SMT
    <3> QED BY <3>2
  <2>4. Even(u)
    <3> HIDE DEF Even, u
    <3> QED BY <1>2, <2>3
  <2>5. y \in R \cup t /\ (R \cup t) \ {y} = R \cup u /\ f[y] = 0
    BY <2>2
  <2> DEFINE h == Less(R \cup t)
  <2>6. h \in [R \cup t -> Int] /\ h[y] = 0 /\ IsFiniteSet(R \cup t)
    BY <1>0, <2>5
  <2>7. [c \in (R \cup t) \ {y} |-> h[c]] = Less(R \cup u)
    BY <2>5
  <2>8. Total(Less(R \cup u)) \in Int
    <3>1. IsFiniteSet(R \cup u) /\ Less(R \cup u) \in [R \cup u -> Int]
      BY <1>0, <2>3
    <3> HIDE DEF Less, u
    <3> QED BY <3>1, SumLaws
  <2> HIDE DEF h, u
  <2>9. Total(h) = h[y] + Total([c \in (R \cup t) \ {y} |-> h[c]])
    BY <2>5, <2>6, SumLaws
  <2>10. Total(h) = Total(Less(R \cup u))
    <3> HIDE DEF Less
    <3> QED BY <2>6, <2>7, <2>8, <2>9
  <2> QED BY <2>4, <2>10 DEF h
<1>3. Even(S \ R)
  <2>1. \A k \in Nat : k \in T
    <3> HIDE DEF T
    <3> QED BY <1>1, <1>2, Induction
  <2>2. S \ R \in SUBSET (S \ R) /\ Cardinality(S \ R) \in Nat
    BY <1>0
  <2> HIDE DEF Even
  <2> QED BY <2>1, <2>2
<1>4. R \cup (S \ R) = S /\ Less(S) = f
  OBVIOUS
<1> QED BY <1>3, <1>4

LEMMA SignificantAre ==
  /\ Significant \subseteq Ucs2 /\ IsFiniteSet(Significant)
  /\ \A i \in 1 .. 5 : \A c \in Ucs2 : Weights[i][c] \in Int /\ (c \notin Significant => Weights[i][c] = 0)
<1>1. Significant \subseteq Ucs2
  BY DEF Significant
<1>2. IsFiniteSet(Significant)
  BY <1>1, Ucs2Is, FS_Subset
<1>3. ASSUME NEW i \in 1 .. 5, NEW c \in Ucs2 PROVE Weights[i][c] \in Int
  BY WeightsAre DEF Buffers
<1>4. ASSUME NEW i \in 1 .. 5, NEW c \in Ucs2, c \notin Significant PROVE Weights[i][c] = 0
  BY <1>4, LettersOf DEF Significant
<1> QED BY <1>1, <1>2, <1>3, <1>4

LEMMA RatingIs ==
  ASSUME NEW s, NEW i \in 1 .. 5, DoubleUtf8Check(Zeroes, s).utfbuf \in Buffers
  PROVE  LET check == DoubleUtf8Check(Zeroes, s)
         IN check.ratings[i] = Total([c \in Ucs2 |-> check.utfbuf[c] * Weights[i][c]])
<1> DEFINE end == FoldLeft(ParseByte, StartOf(Zeroes), s).utfbuf
           S == Ucs2  f == [c \in Ucs2 |-> end[c] * Weights[i][c]]
           val(c) == end[c] * Weights[i][c]
           Is(iter) == iter = [z \in SUBSET S |->
                         IF z = {} THEN 0
                         ELSE val(CHOOSE x \in z : TRUE)
                              + iter[z \ {CHOOSE x \in z : TRUE}]]
           It == CHOOSE iter : Is(iter)
<1>1. DoubleUtf8Check(Zeroes, s).utfbuf = end
  BY DEF DoubleUtf8Check, StartOf
<1>2. DoubleUtf8Check(Zeroes, s).ratings[i] = It[S]
  BY LettersOf DEF DoubleUtf8Check, StartOf, MapThenSumSet, MapThenFoldSet
<1>3. end \in Buffers
  BY <1>1
<1> HIDE DEF end
<1>4. f \in [S -> Int] /\ IsFiniteSet(S) /\ DOMAIN f = S /\ \A c \in S : f[c] = val(c)
  <2>1. \A c \in S : end[c] \in Int /\ Weights[i][c] \in Int
    BY <1>3, SignificantAre DEF Buffers
  <2>2. \A c \in S : val(c) \in Int
    BY <2>1
  <2> QED BY <2>2, Ucs2Is
<1> HIDE DEF S, f, val
<1>5. PICK g : Summing(S, f, g)
  BY <1>4, SumExists
<1>6. Is(g)
  <2>1. ASSUME NEW z \in SUBSET S
        PROVE  g[z] = IF z = {} THEN 0
                      ELSE val(CHOOSE x \in z : TRUE)
                           + g[z \ {CHOOSE x \in z : TRUE}]
    BY <1>4, <1>5 DEF Summing
  <2> QED BY <1>5, <2>1 DEF Summing
<1>7. Is(It)
  BY <1>6
<1> HIDE DEF It
<1>8. Summing(S, f, It)
  BY <1>4, <1>7, ZenonT(60) DEF Summing
<1>9. It[S] = Total(f)
  BY <1>4, <1>8, SumIs
<1> QED BY <1>1, <1>2, <1>9 DEF f, S

(* How often c occurs, as DoubleCheckExact counts it. *)
TimesOf(c) == IF c \in ToSet(text) THEN Count(text, c) ELSE -1

LEMMA TimesIs ==
  ASSUME NEW X, text \in Seq(X), NEW c \in Significant
  PROVE  TimesOf(c) = Marked(c, Len(text)) /\ TimesOf(c) \in Int
<1> DEFINE n == Len(text)  a == Asked(c, n)
<1>1. n \in Nat /\ DOMAIN text = 1 .. n
  OBVIOUS
<1>2. Count(text, c) = Cardinality(a) /\ (c \in ToSet(text) <=> a # {})
  BY <1>1 DEF Count, Quantify, Asked, ToSet
<1>3. IsFiniteSet(a)
  <2>1. a \in SUBSET (1 .. n) /\ IsFiniteSet(1 .. n)
    BY <1>1, FS_Interval DEF Asked
  <2> QED BY <2>1, FS_Subset
<1> HIDE DEF n, a
<1>4. Cardinality(a) \in Nat /\ (Cardinality(a) = 0 <=> a = {})
  BY <1>3, FS_CardinalityType, FS_EmptySet
<1>5. Marked(c, n) = IF Cardinality(a) > 0 THEN Cardinality(a) ELSE -1
  BY DEF Marked, a
<1> QED BY <1>2, <1>4, <1>5 DEF TimesOf, n

LEMMA WeighedIs ==
  ASSUME NEW X, text \in Seq(X), NEW i \in 1 .. 5
  PROVE  MapThenSumSet(LAMBDA c : Weights[i][c] * TimesOf(c), Significant)
           = Total([c \in Significant |-> Weights[i][c] * TimesOf(c)])
<1> DEFINE S == Significant  f == [c \in Significant |-> Weights[i][c] * TimesOf(c)]
           val(c) == Weights[i][c] * TimesOf(c)
           Is(iter) == iter = [z \in SUBSET S |->
                         IF z = {} THEN 0
                         ELSE val(CHOOSE x \in z : TRUE)
                              + iter[z \ {CHOOSE x \in z : TRUE}]]
           It == CHOOSE iter : Is(iter)
<1>2. MapThenSumSet(LAMBDA c : Weights[i][c] * TimesOf(c), Significant) = It[S]
  BY DEF MapThenSumSet, MapThenFoldSet
<1>4. f \in [S -> Int] /\ IsFiniteSet(S) /\ DOMAIN f = S /\ \A c \in S : f[c] = val(c)
  <2>1. \A c \in S : Weights[i][c] \in Int /\ TimesOf(c) \in Int
    BY TimesIs, SignificantAre
  <2>2. \A c \in S : val(c) \in Int
    BY <2>1
  <2> QED BY <2>2, SignificantAre
<1> HIDE DEF S, f, val
<1>5. PICK g : Summing(S, f, g)
  BY <1>4, SumExists
<1>6. Is(g)
  <2>1. ASSUME NEW z \in SUBSET S
        PROVE  g[z] = IF z = {} THEN 0
                      ELSE val(CHOOSE x \in z : TRUE)
                           + g[z \ {CHOOSE x \in z : TRUE}]
    BY <1>4, <1>5 DEF Summing
  <2> QED BY <1>5, <2>1 DEF Summing
<1>7. Is(It)
  BY <1>6
<1> HIDE DEF It
<1>8. Summing(S, f, It)
  BY <1>4, <1>7, ZenonT(60) DEF Summing
<1>9. It[S] = Total(f)
  BY <1>4, <1>8, SumIs
<1> QED BY <1>2, <1>9 DEF f

LEMMA RatingsTold ==
  ASSUME text \in Seq(Tokens), \A k \in DOMAIN text : text[k] \notin 128 .. 255
  PROVE  DoubleUtf8Check(Zeroes, Utf8Text(text)).ratings
           = [i \in DOMAIN Russian |->
                MapThenSumSet(LAMBDA c : Weights[i][c] * TimesOf(c), Significant)]
<1> DEFINE s == Utf8Text(text)  check == DoubleUtf8Check(Zeroes, s)  end == check.utfbuf
<1>1. end \in Buffers /\ \A c \in Ucs2 : end[c] = Marked(c, Len(text))
  BY AllCounted
<1>2. ASSUME NEW i \in 1 .. 5
      PROVE  check.ratings[i]
               = MapThenSumSet(LAMBDA c : Weights[i][c] * TimesOf(c), Significant)
  <2> DEFINE f == [c \in Ucs2 |-> end[c] * Weights[i][c]]
             g == [c \in Significant |-> Weights[i][c] * TimesOf(c)]
  <2>1. check.ratings[i] = Total(f)
    BY <1>1, RatingIs
  <2>2. MapThenSumSet(LAMBDA c : Weights[i][c] * TimesOf(c), Significant) = Total(g)
    BY WeighedIs
  <2> HIDE DEF check, s, end
  <2>3. \A c \in Ucs2 : end[c] \in Int /\ Weights[i][c] \in Int
    BY <1>1, SignificantAre DEF Buffers
  <2>4. f \in [Ucs2 -> Int] /\ \A c \in Ucs2 \ Significant : f[c] = 0
    <3>1. \A c \in Ucs2 : end[c] * Weights[i][c] \in Int
      BY <2>3
    <3>2. \A c \in Ucs2 \ Significant : end[c] * Weights[i][c] = 0
      BY <2>3, SignificantAre
    <3> QED BY <3>1, <3>2
  <2>5. [c \in Significant |-> f[c]] = g
    <3>1. \A c \in Significant : c \in Ucs2 /\ end[c] = TimesOf(c)
      BY <1>1, TimesIs, SignificantAre
    <3>2. \A c \in Significant : f[c] = Weights[i][c] * TimesOf(c)
      BY <2>3, <3>1
    <3> HIDE DEF f
    <3> QED BY <3>2
  <2> HIDE DEF f, g
  <2>6. Total(f) = Total([c \in Significant |-> f[c]])
    BY <2>4, ZerosLeaveTotal, SignificantAre, Ucs2Is
  <2>7. Total(f) = Total(g)
    BY <2>5, <2>6
  <2> QED BY <2>1, <2>2, <2>7 DEF check, s
<1>3. DOMAIN check.ratings = 1 .. 5 /\ check.ratings = [i \in DOMAIN Russian |-> check.ratings[i]]
  BY LettersOf DEF DoubleUtf8Check
<1> HIDE DEF check
<1>4. \A i \in DOMAIN Russian : check.ratings[i]
        = MapThenSumSet(LAMBDA c : Weights[i][c] * TimesOf(c), Significant)
  BY <1>2, LettersOf
<1> QED BY <1>3, <1>4 DEF check

(* Nothing that a check counts is left when the next one starts. *)
LEMMA NothingRemembered ==
  ASSUME NEW s \in Seq(Byte), NEW t
  PROVE  DoubleUtf8Check(DoubleUtf8Check(Zeroes, s).utfbuf, t) = DoubleUtf8Check(Zeroes, t)
<1> DEFINE buf == DoubleUtf8Check(Zeroes, s).utfbuf
<1>1. buf \in Buffers /\ Unweighed(buf)
  BY CheckKeepsUnweighed
<1> HIDE DEF buf
<1>2. MarkScratchBuffer(buf) = MarkScratchBuffer(Zeroes)
  BY <1>1, MarksAlone
<1>3. DoubleUtf8Check(buf, t) = DoubleUtf8Check(Zeroes, t)
  <2> DEFINE Start(u) == [remains |-> 0, char |-> 0, utfbuf |-> MarkScratchBuffer(u)]
             Given(end) ==
               LET ratings == [i \in DOMAIN Russian |->
                                 MapThenSumSet(LAMBDA c : end[c] * Weights[i][c], Ucs2)]
                   min == Min({ratings[i] : i \in DOMAIN Russian})
                   max == Max({ratings[i] : i \in DOMAIN Russian})
               IN [utfbuf |-> end, ratings |-> ratings,
                   candidates |-> IF min < 0 /\ -2 * min > max
                                  THEN {Russian[i].name : i \in
                                          {j \in DOMAIN Russian :
                                             ratings[j] * 1000 < min * CandidateShare}}
                                  ELSE {}]
  <2>1. \A u : DoubleUtf8Check(u, t) = Given(FoldLeft(ParseByte, Start(u), t).utfbuf)
    BY DEF DoubleUtf8Check
  <2>2. Start(buf) = Start(Zeroes)
    BY <1>2
  <2> HIDE DEF Given, Start
  <2> QED BY <2>1, <2>2, Zenon
<1> QED BY <1>3 DEF buf

LEMMA DoubledTold == TextOK => DoubleCheckExact
<1> SUFFICES ASSUME TextOK, kind = "doubled" PROVE DoubleCheckExact
  BY DEF DoubleCheckExact
<1> DEFINE check == DoubleUtf8Check(Zeroes, Utf8Text(text))
<1>1. text \in Seq(Tokens)
  <2>1. "doubled" \in DOMAIN Alphabet /\ text \in Seq(Alphabet["doubled"])
    BY DEF TextOK
  <2>2. \A c \in Alphabet["doubled"] : c \in Nat /\ c <= 65535
    BY <2>1, CharactersAssumption
  <2>3. Alphabet["doubled"] \subseteq Tokens
    BY <2>2, SMT DEF Tokens, LastToken
  <2> QED BY <2>1, <2>3, SMT
<1>2. ASSUME ToSet(text) \cap 128 .. 255 = {}
      PROVE  \A k \in DOMAIN text : text[k] \notin 128 .. 255
  BY <1>2 DEF ToSet
<1>3. ToSet(text) \cap 128 .. 255 = {} =>
        check.ratings = [i \in DOMAIN Russian |->
          MapThenSumSet(LAMBDA c : Weights[i][c] * TimesOf(c), Significant)]
  BY <1>1, <1>2, RatingsTold
<1>4. ASSUME NEW k \in DOMAIN text, NEW t
      PROVE  DoubleUtf8Check(DoubleUtf8Check(Zeroes, Utf8Text(SubSeq(text, 1, k))).utfbuf, t)
               = DoubleUtf8Check(Zeroes, t)
  <2>1. SubSeq(text, 1, k) \in Seq(Tokens)
    BY <1>1
  <2>2. Utf8Text(SubSeq(text, 1, k)) \in Seq(Byte)
    BY <2>1, TextPlaces
  <2> QED BY <2>2, NothingRemembered
<1> QED BY <1>3, <1>4 DEF DoubleCheckExact, TimesOf

(* A text is rated by what it has, and what was checked before it makes no   *)
(* difference (lib/utf8_double.c:105, 170, 403): whatever the texts and      *)
(* however long they are.                                                     *)
THEOREM DoubleCheckIsAlwaysExact == Spec => []DoubleCheckExact
<1>1. TextOK => DoubleCheckExact
  BY DoubledTold
<1> QED BY <1>1, TextIsTyped, PTL

=============================================================================
