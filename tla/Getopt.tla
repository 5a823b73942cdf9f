------------------------------- MODULE Getopt -------------------------------
(***************************************************************************)
(* The scanner of command line arguments (src/getopt_long.c).  Its static  *)
(* variables are a record:                                                 *)
(*   argv      the words behind the program name, permuted as scanned      *)
(*   optind    the next of them                                            *)
(*   first_nonopt, last_nonopt   the skipped words are those between       *)
(*   nextchar  the rest of an option word being decoded, "" for none       *)
(*   optarg    the argument of the option returned                         *)
(*   c         the option letter returned, "?" or "end"                    *)
(* A word is a string; strings are sequences of characters.                *)
(***************************************************************************)
EXTENDS Words

CONSTANTS
  LongOptions, \* the table of long options: a set of [name, has_arg, val]
  Letters,     \* the letters of optstring
  WithArgument \* those of them followed by a colon

-----------------------------------------------------------------------------
(* exchange(): the words [first_nonopt, last_nonopt) change places with     *)
(* [last_nonopt, optind), by swaps of a part of the longer one.             *)

Swap(argv, i, j, len) ==
  [k \in DOMAIN argv |->
     CASE k \in i .. i + len - 1 -> argv[k - i + j]
       [] k \in j .. j + len - 1 -> argv[k - j + i]
       [] OTHER                  -> argv[k]]

\* Deviation: the short bottom segment is swapped with the bottom of the top
\* one, and the top is then excluded.
ExchangeRoundNear(s) ==
  LET below == s.middle - s.bottom
      above == s.top - s.middle
  IN IF above <= 0 \/ below <= 0 THEN s
     ELSE IF above > below
          THEN [s EXCEPT !.argv = Swap(@, s.bottom, s.middle, below),
                         !.top = @ - below]
          ELSE [s EXCEPT !.argv = Swap(@, s.bottom, s.middle, above),
                         !.bottom = @ + above]

\* A round of the loop; it changes nothing when a segment is empty.
ExchangeRound(s) ==
  LET below == s.middle - s.bottom
      above == s.top - s.middle
  IN IF above <= 0 \/ below <= 0 THEN s
     ELSE IF above > below
          THEN [s EXCEPT !.argv = Swap(@, s.bottom, s.top - below, below),
                         !.top = @ - below]
          ELSE [s EXCEPT !.argv = Swap(@, s.bottom, s.middle, above),
                         !.bottom = @ + above]

Exchange(g) ==
  LET start == [argv |-> g.argv, bottom |-> g.first_nonopt,
                middle |-> g.last_nonopt, top |-> g.optind]
      rounds == [i \in 1 .. g.optind - g.first_nonopt |-> i]
  IN [g EXCEPT !.argv = FoldLeft(LAMBDA s, i : ExchangeRound(s), start, rounds).argv,
               !.first_nonopt = @ + g.optind - g.last_nonopt,
               !.last_nonopt = g.optind]
-----------------------------------------------------------------------------
(* _getopt_internal().                                                      *)

Initialized(words) ==
  [argv |-> words, optind |-> 1, first_nonopt |-> 1, last_nonopt |-> 1,
   nextchar |-> "", optarg |-> "", c |-> "start"]

AtEnd(g) == g.optind = Len(g.argv) + 1
NonOption(w) == First(w) # "-" \/ Len(w) = 1

\* Options that followed skipped words are put in front of them, and the
\* words that are no options skipped.
SkipNonOptions(g) ==
  LET moved == IF g.last_nonopt = g.optind THEN g
               ELSE IF g.first_nonopt # g.last_nonopt THEN Exchange(g)
               ELSE [g EXCEPT !.first_nonopt = g.optind]
      next == CHOOSE i \in g.optind .. Len(g.argv) + 1 :
                /\ \A j \in g.optind .. i - 1 : NonOption(moved.argv[j])
                /\ i <= Len(g.argv) => ~NonOption(moved.argv[i])
  IN [moved EXCEPT !.optind = next, !.last_nonopt = next]

\* "--" is put in front of the skipped words, the rest is skipped.
EndOfOptions(g) ==
  IF AtEnd(g) \/ g.argv[g.optind] # "--" THEN g
  ELSE LET a == [g EXCEPT !.optind = @ + 1]
           moved == IF a.first_nonopt # a.last_nonopt THEN Exchange(a)
                    ELSE [a EXCEPT !.first_nonopt = a.optind]
       IN [moved EXCEPT !.last_nonopt = Len(g.argv) + 1,
                        !.optind = Len(g.argv) + 1]

\* Back over what was skipped.
BackOver(g) ==
  [g EXCEPT !.c = "end",
            !.optind = IF g.first_nonopt # g.last_nonopt THEN g.first_nonopt ELSE @]

Unknown(g) == [g EXCEPT !.c = "?", !.nextchar = "", !.optind = @ + 1]

\* The next word is the argument of the option just decoded.
TakeNext(g, val) ==
  IF AtEnd(g) THEN [g EXCEPT !.c = "?", !.nextchar = ""]
  ELSE [g EXCEPT !.c = val, !.nextchar = "",
                 !.optarg = g.argv[g.optind], !.optind = @ + 1]

\* A word that starts with "--": the option with that name, or the only one
\* whose name starts so.
LongOption(g) ==
  LET text == From(g.argv[g.optind], 3)
      eq == Place(text, "=")
      name == SubSeq(text, 1, eq - 1)
      exact == {o \in LongOptions : o.name = name}
      partial == {o \in LongOptions : StartsWith(o.name, name)}
      found == IF exact # {} THEN exact ELSE partial
      option == CHOOSE o \in found : TRUE
      past == [g EXCEPT !.optind = @ + 1]
  IN IF \A o \in LongOptions : found # {o} THEN Unknown(g)
     ELSE IF eq <= Len(text)
          THEN IF option.has_arg
               THEN [past EXCEPT !.c = option.val, !.optarg = From(text, eq + 1)]
               ELSE [past EXCEPT !.c = "?"]
     ELSE IF option.has_arg THEN TakeNext(past, option.val)
     ELSE [past EXCEPT !.c = option.val]

\* The next character of an option word.
ShortOption(g, text) ==
  LET c == First(text)
      rest == From(text, 2)
      past == [g EXCEPT !.optind = IF rest = "" THEN @ + 1 ELSE @,
                        !.nextchar = rest, !.c = c]
  IN IF c \notin Letters THEN [past EXCEPT !.c = "?"]
     ELSE IF c \notin WithArgument THEN past
     ELSE IF rest # ""
          THEN [past EXCEPT !.optarg = rest, !.nextchar = "", !.optind = @ + 1]
     ELSE TakeNext(past, c)

\* getopt_long() once; posix is POSIXLY_CORRECT, which stops at the first
\* word that is no option.
GetoptLong(g, posix) ==
  LET clean == [g EXCEPT !.optarg = ""]
      next == EndOfOptions(IF posix THEN clean ELSE SkipNonOptions(clean))
      word == next.argv[next.optind]
  IN CASE g.nextchar # "" -> ShortOption(clean, g.nextchar)
       [] g.nextchar = "" /\ AtEnd(next) -> BackOver(next)
       [] g.nextchar = "" /\ ~AtEnd(next) /\ NonOption(word)
            -> [next EXCEPT !.c = "end"]
       [] g.nextchar = "" /\ ~AtEnd(next) /\ ~NonOption(word)
            -> IF StartsWith(word, "--") THEN LongOption(next)
               ELSE ShortOption(next, From(word, 2))
=============================================================================
