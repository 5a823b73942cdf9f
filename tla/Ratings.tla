------------------------------ MODULE Ratings ------------------------------
(***************************************************************************)
(* How charsets of one language are told apart: the sort of lib/guess.c    *)
(* that every rating goes through, and the counting of good pairs of       *)
(* letters of lib/pair.c.  Charsets are numbered from 1.                   *)
(***************************************************************************)
EXTENDS Ctype

\* The charset at place j is rated higher than the one at place i.
Beaten(ratings, order, i, j) == ratings[order[i]] < ratings[order[j]]

\* enca_find_max_sec(): every place i is compared with all behind it.
FindMaxSec(ratings) ==
  LET n == Len(ratings)
      exchange(order, i, j) ==
        IF Beaten(ratings, order, i, j)
        THEN [order EXCEPT ![i] = order[j], ![j] = order[i]] ELSE order
  IN FoldLeft(LAMBDA order, i :
                FoldLeft(LAMBDA o, k : exchange(o, i, i + k),
                         order, [k \in 1 .. n - i |-> k]),
              [i \in 1 .. n |-> i], [i \in 1 .. n - 1 |-> i])
-----------------------------------------------------------------------------
(* Pairs.  good[cs] maps a letter to the letters it makes a good pair with *)
(* in charset cs; other characters are in no domain.                       *)

FILL_NONLETTER == 46

\* compute_pair2bits(): the charsets a pair is good for, as a number.
Pair2Bits(good, c, d) ==
  FoldLeft(LAMBDA bits, cs :
             IF c \in DOMAIN good[cs] /\ d \in good[cs][c]
             THEN bits + 2 ^ (cs - 1) ELSE bits,
           0, [cs \in DOMAIN good |-> cs])

\* The pairs of a sample; what is around it counts as no letter.
PairsOf(s) ==
  IF s = <<>> THEN <<>>
  ELSE LET t == <<FILL_NONLETTER>> \o s \o <<FILL_NONLETTER>>
       IN [i \in 1 .. Len(s) + 1 |-> <<t[i], t[i + 1]>>]

\* Deviation: the sum goes over every second number from bit on.
WithBitAlternate(bit, total) ==
  {j \in 0 .. total - 1 : j >= bit /\ j % 2 = bit % 2}

\* The numbers below total with a bit set, as the two loops visit them.
WithBit(bit, total) ==
  UNION {i + bit .. i + 2 * bit - 1 :
           i \in {k \in 0 .. total - 1 : k % (2 * bit) = 0}}

\* count_good_pairs(): pairs are counted by the set of charsets they are good
\* for, and each charset's number is put together from these.
CountGoodPairs(good, s) ==
  LET pairs == PairsOf(s)
      total == 2 ^ Len(good)
      bitcounts == [b \in 0 .. total - 1 |->
                      Cardinality({i \in DOMAIN pairs :
                        Pair2Bits(good, pairs[i][1], pairs[i][2]) = b})]
  IN [cs \in DOMAIN good |->
        MapThenSumSet(LAMBDA j : bitcounts[j], WithBit(2 ^ (cs - 1), total))]
=============================================================================
