------------------------------- MODULE Words -------------------------------
(***************************************************************************)
(* Words of the command line are strings, that is sequences of characters. *)
(* Here is what the C code does with them by strncmp(), strchr(), isalpha()*)
(* and by expand_abbreviation() (src/filebuf.c).  NULL is a string no word *)
(* is equal to.                                                            *)
(***************************************************************************)
EXTENDS Integers, Sequences, SequencesExt

Null == "(null)"

At(s, i) == IF i \in 1 .. Len(s) THEN SubSeq(s, i, i) ELSE ""
First(s) == At(s, 1)
From(s, i) == SubSeq(s, i, Len(s))
StartsWith(s, p) == Len(p) <= Len(s) /\ SubSeq(s, 1, Len(p)) = p

\* The first place of character c in s, or Len(s) + 1.
Place(s, c) ==
  CHOOSE i \in 1 .. Len(s) + 1 :
    /\ i <= Len(s) => At(s, i) = c
    /\ \A j \in 1 .. i - 1 : At(s, j) # c

HasPart(s, part) == \E i \in 1 .. Len(s) : StartsWith(From(s, i), part)

\* isalpha()
IsAlpha(c) ==
  c # "" /\ HasPart("abcdefghijklmnopqrstuvwxyzABCDEFGHIJKLMNOPQRSTUVWXYZ", c)

\* The members of s that are in S, in their order.
Kept(s, S) == FoldLeft(LAMBDA t, x : IF x \in S THEN Append(t, x) ELSE t, <<>>, s)

\* The parts of s between separators c.
Split(s, c) ==
  LET all == [i \in 1 .. Len(s) |-> i]
      places == <<0>> \o Kept(all, {i \in 1 .. Len(s) : At(s, i) = c}) \o <<Len(s) + 1>>
  IN [k \in 1 .. Len(places) - 1 |-> SubSeq(s, places[k] + 1, places[k + 1] - 1)]

\* expand_abbreviation(): the one name that starts so, or NULL.
ExpandAbbreviation(name, names) ==
  LET matches == {n \in ToSet(names) : StartsWith(n, name)}
  IN IF \E n \in matches : matches = {n} THEN CHOOSE n \in matches : TRUE
     ELSE Null
=============================================================================
