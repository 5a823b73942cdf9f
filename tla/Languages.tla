----------------------------- MODULE Languages -----------------------------
(***************************************************************************)
(* What languages add to the ratings of their charsets: the hooks that     *)
(* decide between charsets differing in a few characters or in the end of  *)
(* lines (lib/filters.c), and the ratings of Chinese (lib/lang_zh.c).      *)
(*                                                                         *)
(* Ratings are integers, in any unit: all of them may be multiplied by a   *)
(* number without a change to the answer.  EPSILON is 0.                   *)
(***************************************************************************)
EXTENDS SampleScans, Ratings, UnicodeMaps

NoWinner == 0

\* The end of make_guess(), for a threshold of 1.1: the first in order must
\* outdo the second; otherwise ENCA_EWINNER.
Winner(r) ==
  IF 10 * r.ratings[r.order[1]] > 11 * r.ratings[r.order[2]]
  THEN r.order[1] ELSE NoWinner

Rated(ratings) == [ratings |-> ratings, order |-> FindMaxSec(ratings)]

\* The sum of weight per significancy over the sample, in thousandths.
RateByWeights(shares, s) ==
  Rated([cs \in DOMAIN shares |->
           MapThenSumSet(LAMBDA b : shares[cs][b] * Count(s, b),
                         DOMAIN shares[cs])])

\* The hook's charsets are not the first ones.
NotTheFirst(r, hookdata) ==
  {r.order[i] : i \in DOMAIN hookdata} # {h.cs : h \in ToSet(hookdata)}

Unchanged(r) == [r |-> r, changed |-> FALSE]
Extra(h, s) == Quantify(DOMAIN s, LAMBDA i : s[i] \in h.list)

\* Deviation: the order is not found again.
HookNcsUnordered(r, s, hookdata) ==
  LET hooks == ToSet(hookdata)
      maxcnt == Max({Extra(h, s) : h \in hooks})
      missing == [cs \in DOMAIN r.ratings |->
                    MapThenSumSet(LAMBDA h : maxcnt - Extra(h, s),
                                  {h \in hooks : h.cs = cs})]
  IN IF NotTheFirst(r, hookdata) \/ maxcnt = 0 THEN Unchanged(r)
     ELSE [r |-> [r EXCEPT !.ratings =
                    [cs \in DOMAIN r.ratings |->
                       2 * maxcnt * @[cs]
                       - r.ratings[r.order[1]] * missing[cs]]],
           changed |-> TRUE]

\* enca_language_hook_ncs() on sample s.  All ratings are multiplied by
\* 2 * maxcnt, so that what is taken off remains an integer.
HookNcs(r, s, hookdata) ==
  LET hooks == ToSet(hookdata)
      maxcnt == Max({Extra(h, s) : h \in hooks})
      missing == [cs \in DOMAIN r.ratings |->
                    MapThenSumSet(LAMBDA h : maxcnt - Extra(h, s),
                                  {h \in hooks : h.cs = cs})]
  IN IF NotTheFirst(r, hookdata) \/ maxcnt = 0 THEN Unchanged(r)
     ELSE [r |-> Rated([cs \in DOMAIN r.ratings |->
                          2 * maxcnt * r.ratings[cs]
                          - r.ratings[r.order[1]] * missing[cs]]),
           changed |-> TRUE]

\* enca_language_hook_eol(): of equally rated charsets the first whose mask
\* the surface meets stays, the others are zeroed.
HookEol(r, s, hookdata) ==
  LET hooks == ToSet(hookdata)
      match == SelectInSeq(hookdata, LAMBDA h : EolSurface(s) \in h.eol)
      rest == {h.cs : h \in hooks} \ {hookdata[match].cs}
  IN IF \/ NotTheFirst(r, hookdata) \/ match = 0
        \/ Cardinality({r.ratings[h.cs] : h \in hooks}) > 1
     THEN Unchanged(r)
     ELSE [r |-> Rated([cs \in DOMAIN r.ratings |->
                          IF cs \in rest THEN Min({0, r.ratings[cs]})
                          ELSE r.ratings[cs]]),
           changed |-> \E cs \in rest : r.ratings[cs] > 0]
-----------------------------------------------------------------------------
(* The hooks of a language.                                                *)

RunHook(lang, r, s, rows) ==
  LET hookdata == [i \in DOMAIN rows |->
                     [rows[i] EXCEPT !.cs = CharsetIndex(lang, @)]]
  IN IF "list" \in DOMAIN rows[1] THEN HookNcs(r, s, hookdata)
     ELSE HookEol(r, s, hookdata)

\* A step of hook(): its hooks in turn until one changes a rating.
RunStep(lang, r, s, step) ==
  FoldLeft(LAMBDA x, rows : IF x.changed THEN x ELSE RunHook(lang, x.r, s, rows),
           Unchanged(r), step).r

\* hook() of a language, on sample s
LanguageHook(lang, r, s) ==
  FoldLeft(LAMBDA x, step : RunStep(lang, x, s, step), r, lang.hook)

\* The charsets whose rating is within the threshold of the first one's.
NearTheFirst(r) ==
  {cs \in DOMAIN r.ratings :
     10 * r.ratings[r.order[1]] <= 11 * r.ratings[cs]} \ {r.order[1]}

\* Deviation: only the second charset is compared.
AmbiguousHookSecond(lang, r, s) ==
  IF ~SubsetIdentical(lang.charsets[r.order[1]], lang.charsets[r.order[2]],
                      ToSet(s))
  THEN NoWinner
  ELSE (IF lang.eolhook = <<>> THEN r
        ELSE RunHook(lang, r, s, lang.eolhook).r).order[1]

\* ambiguous_hook(): no winner unless the sample means the same in all near
\* charsets; then the ends of lines may choose.
AmbiguousHook(lang, r, s) ==
  IF \E cs \in NearTheFirst(r) :
       ~SubsetIdentical(lang.charsets[r.order[1]], lang.charsets[cs], ToSet(s))
  THEN NoWinner
  ELSE (IF lang.eolhook = <<>> THEN r
        ELSE RunHook(lang, r, s, lang.eolhook).r).order[1]

\* Lithuanian weights of the bytes 0xe1, 0xec, 0xf0 and 0xf9.
LithuanianShares ==
  LET Share(e1, ec, f0, f9) ==
        [b \in {225, 236, 240, 249} |->
           CASE b = 225 -> e1 [] b = 236 -> ec [] b = 240 -> f0 [] OTHER -> f9]
  IN <<Share(206, 0, 432, 0), Share(0, 628, 0, 438), Share(0, 0, 0, 0),
       Share(206, 0, 432, 0), Share(30, 372, 135, 0), Share(558, 0, 0, 562)>>
-----------------------------------------------------------------------------
(* Chinese.  freq[cs] gives the frequency of a pair of bytes in cs.        *)

GBK == 1
BIG5 == 2
HZ == 3

\* is_gbk(), is_big5(), is_hz()
IsValidIn(cs, high, low) ==
  CASE cs = GBK -> high \in 129 .. 254 /\ low \in 64 .. 254 \ {127}
    [] cs = BIG5 -> high \in 161 .. 249 /\ low \in 64 .. 126 \cup 161 .. 254
    [] OTHER -> FALSE

\* Deviation: a charset found invalid is rated on.
ZhPairRevived(rating, valid, f) == IF valid THEN rating + f ELSE -1

\* What a pair makes of a rating: -1 is final (continue_check).
ZhPair(rating, valid, f) ==
  IF rating = -1 THEN -1 ELSE IF valid THEN rating + f ELSE -1

\* calc_rating(): high is the first byte of a pair, or 0.
CalcRating(s, freq, strict) ==
  LET end == FoldLeft(
        LAMBDA r, b :
          IF r.high # 0
          THEN [high |-> 0,
                ratings |-> [cs \in {GBK, BIG5, HZ} |->
                   ZhPair(r.ratings[cs], IsValidIn(cs, r.high, b), freq[cs])]]
          ELSE [r EXCEPT !.high = IF b >= 128 THEN b ELSE 0],
        [high |-> 0, ratings |-> <<0, 0, 0>>], s)
  IN IF end.high # 0 /\ strict THEN <<0, 0, 0>> ELSE end.ratings

\* hook() of lib/lang_zh.c: negative ratings become such that the first wins,
\* if it is not negative itself.
ZhHook(r) ==
  LET first == r.order[1]
      second == r.order[2]
  IN IF r.ratings[second] >= 0 THEN r
     ELSE [r EXCEPT !.ratings[second] = 0,
                    !.ratings[first] = IF @ < 0 THEN 0 ELSE 1]
=============================================================================
