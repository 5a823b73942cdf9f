----------------------------- MODULE WideScans -----------------------------
(***************************************************************************)
(* UCS-2 and UCS-4 of lib/multibyte.c.  Both tests give the characters     *)
(* that are likely in a text a weight, and conclude the byte order and the *)
(* end of line type.                                                       *)
(***************************************************************************)
EXTENDS SampleScans

(***************************************************************************)
(* analyser->options.  Numbers the program computes with floating point    *)
(* are given in parts per thousand.                                        *)
(***************************************************************************)
OptionSets ==
  [min_chars : Nat,
   strict : BOOLEAN,     \* termination_strictness > 0
   log_threshold : Nat,  \* log(threshold + EPSILON)
   tolerance : 0 .. 500] \* exp(-7*(threshold - 1.0))/2.0

Refused == [accepted |-> FALSE, surface |-> {}]
Accepted(surface) == [accepted |-> TRUE, surface |-> surface]

\* (size_t)(sqrt(size) + size/q), the bonus for a byte order mark: the number
\* of positive integers up to the sum.
BomBonus(size, q) ==
  Cardinality({k \in 1 .. 2 * size :
    q * k <= size \/ (q * k - size) * (q * k - size) <= q * q * size})

\* counts[0] + ... + counts[4]
SmallBytes(s) == Cardinality({i \in DOMAIN s : s[i] <= 4})
-----------------------------------------------------------------------------
(* UCS-2: one pass that follows the byte order marks.                      *)

\* The two bytes of the character at i, which is even, in a byte order.
High(s, i, byte_order) == s[i + byte_order - 1]
Low(s, i, byte_order) == s[i - byte_order]

\* The character before the one at i is a CR; the first has none before it.
CrBefore(s, i, byte_order) ==
  i > 2 => Low(s, i - 2, byte_order) = CR /\ High(s, i - 2, byte_order) = 0

\* One character, or a mark; a mark that swaps bytes changes the order.
Ucs2Step(s, bonus, st, i) ==
  LET b1 == High(s, i, st.byte_order)
      b2 == Low(s, i, st.byte_order)
      swaps == b1 = 255 /\ b2 = 254
      weight == IF b1 = 0 THEN IF IsPrint(b2) \/ IsSpace(b2) THEN 2 ELSE 0
                ELSE IF b1 <= 4 THEN 2 ELSE 0
  IN IF swaps \/ (b1 = 254 /\ b2 = 255)
     THEN [st EXCEPT !.byte_order = IF swaps THEN 1 - @ ELSE @,
                     !.ucs2count = IF i = 2 THEN @ + bonus ELSE @,
                     !.changes = IF i = 2 THEN @ ELSE @ + 1]
     ELSE [st EXCEPT !.ucs2count = @ + weight,
                     !.cr = IF b1 = 0 /\ b2 = CR THEN @ + 1 ELSE @,
                     !.lf = IF b1 = 0 /\ b2 = LF THEN @ + 1 ELSE @,
                     !.crlf_ok = @ /\ (b1 = 0 /\ b2 = LF
                                         => CrBefore(s, i, st.byte_order))]

Ucs2Scan(s) ==
  FoldLeft(LAMBDA st, k : Ucs2Step(s, BomBonus(Len(s), 10), st, 2 * k),
           [byte_order |-> IF s[2] = 0 /\ IsPrint(s[1]) THEN 1 ELSE 0,
            changes |-> 0, ucs2count |-> 0,
            cr |-> 0, lf |-> 0, crlf_ok |-> TRUE],
           [k \in 1 .. Len(s) \div 2 |-> k])

LooksLikeUcs2(s, options) ==
  LET size == Len(s)
      end == Ucs2Scan(s)
  IN IF \/ size % 2 # 0
        \/ 1000 * (2 * SmallBytes(s) + BomBonus(size, 10))
             < options.log_threshold * size
        \/ 1000 * end.ucs2count < options.log_threshold * size
        \/ end.ucs2count \div 2 < options.min_chars
     THEN Refused
     ELSE Accepted({EolOf(end.cr, end.lf, end.crlf_ok)}
                   \cup IF end.changes > 0 THEN {"mix-order"}
                        ELSE IF end.byte_order = 1 THEN {"21"} ELSE {})
-----------------------------------------------------------------------------
(* UCS-4: the sample is shuffled into one byte order after the other.      *)

\* A buffer whose size is a multiple of four, as the loops take it.
Quads(s) == [k \in 1 .. Len(s) \div 4 |->
               <<s[4 * k - 3], s[4 * k - 2], s[4 * k - 1], s[4 * k]>>]

\* Deviation: only the outer bytes of a quadruple are swapped.
PermutedOuter(c, permutation) ==
  IF permutation = "4321" THEN <<c[4], c[2], c[3], c[1]>>
  ELSE <<c[2], c[1], c[4], c[3]>>

Permuted(c, permutation) ==
  IF permutation = "4321" THEN <<c[4], c[3], c[2], c[1]>>
  ELSE <<c[2], c[1], c[4], c[3]>>

\* shuffle_byte_order(), for one of the two.
ShuffleByteOrder(q, permutation) ==
  [k \in DOMAIN q |-> Permuted(q[k], permutation)]

IsNice(c) ==
  /\ c[1] = 0 /\ c[2] = 0
  /\ IF c[3] = 0 THEN IsPrint(c[4]) \/ IsSpace(c[4]) ELSE c[3] < 5

\* what_if_it_was_ucs4(), "little endian" being most significant byte first;
\* "unset" is what eol[] holds before.
WhatIfItWasUcs4(all, min_chars) ==
  LET bom == all # <<>> /\ all[1] = <<0, 0, 254, 255>>
      q == IF bom THEN Tail(all) ELSE all
      At(b) == {k \in DOMAIN q : q[k] = <<0, 0, 0, b>>}
      count == 4 * Cardinality({k \in DOMAIN q : IsNice(q[k])})
               + IF bom THEN BomBonus(4 * Len(all), 20) ELSE 0
  IN [count |-> count,
      eol |-> IF count \div 4 < min_chars THEN "unset"
              ELSE EolOf(Cardinality(At(CR)), Cardinality(At(LF)),
                         \A k \in At(LF) : k > 1 => k - 1 \in At(CR))]

\* The buffer before each of the four tries, and after the last.
Orders(q) ==
  LET first == ShuffleByteOrder(q, "4321")
      second == ShuffleByteOrder(first, "21")
      third == ShuffleByteOrder(second, "4321")
  IN <<q, first, second, third, ShuffleByteOrder(third, "21")>>

\* What the shuffles before a try amount to, swapping twice being none.
OrderSurface(max) ==
  <<{}, {"4321"}, {"21", "4321"}, {"21"}>>[max]

Tries(q, min_chars) ==
  LET buffers == Orders(q)
      try(n) == WhatIfItWasUcs4(buffers[n], min_chars)
  IN <<try(1), try(2), try(3), try(4)>>

\* The first try with the highest count.
Best(try) ==
  CHOOSE n \in 1 .. 4 : \A m \in 1 .. 4 :
    /\ try[m].count <= try[n].count
    /\ m < n => try[m].count < try[n].count

\* "Use quite a cruel selection to restrain other byteorders."
Ucs4Count(try) ==
  2 * try[Best(try)].count
    - (try[1].count + try[2].count + try[3].count + try[4].count)

LooksLikeUcs4(s, options) ==
  LET size == Len(s)
      try == Tries(Quads(s), options.min_chars)
  IN IF \/ size % 4 # 0
        \/ 4000 * SmallBytes(s) < 3 * options.log_threshold * size
        \/ 1000 * Ucs4Count(try) < options.log_threshold * size
        \/ Ucs4Count(try) \div 4 < options.min_chars
     THEN Refused
     ELSE Accepted(OrderSurface(Best(try)) \cup {try[Best(try)].eol})
=============================================================================
