---------------------------- MODULE FilterBinary ----------------------------
(***************************************************************************)
(* filter_binary() (lib/guess.c): one pass over the sample that blanks     *)
(* blocks of binary characters in place.  A block goes on until Min text   *)
(* characters in a row were seen; these were blanked too by then, all but  *)
(* the last, and are put back from a small array of saved characters.      *)
(*                                                                         *)
(* Only the class of a character matters to the loop, so sample holds      *)
(* classes, and buf holds for each place the number of the character there *)
(* or 0 for the fill character.  Places are numbered from 1.               *)
(***************************************************************************)
EXTENDS Integers, Sequences, FiniteSets

CONSTANTS
  Min,      \* BIN_TEXT_CHAR_MIN, 5 in the program
  Samples   \* the samples: sequences of classes

Classes == {"text", "binary", "other"}

ASSUME FilterAssumption ==
  /\ Min \in Nat /\ Min >= 2
  /\ Samples \subseteq Seq(Classes)

VARIABLES sample, buf, i, mode, xout, old

vars == <<sample, buf, i, mode, xout, old>>

Size == Len(sample)

Init ==
  /\ sample \in Samples
  /\ buf = [j \in 1 .. Size |-> j]
  /\ i = 1 /\ mode = 0 /\ xout = 0
  /\ old = [k \in 1 .. Min - 1 |-> 0]
-----------------------------------------------------------------------------
Advance == i <= Size /\ i' = i + 1 /\ UNCHANGED sample
Fill == buf' = [buf EXCEPT ![i] = 0] /\ xout' = xout + 1

\* Outside a block nothing but a binary character has an effect.
Keep ==
  /\ Advance
  /\ mode = 0 /\ sample[i] # "binary"
  /\ UNCHANGED <<buf, mode, xout, old>>

\* A binary character starts a block; within one, any other that is no text
\* makes the count of text characters start again.
Blank ==
  /\ Advance
  /\ sample[i] = "binary" \/ (mode > 0 /\ sample[i] = "other")
  /\ mode' = Min
  /\ Fill
  /\ UNCHANGED old

\* Deviation: the slot is taken from the count before it was decremented.
SaveBeforeCount ==
  /\ Advance
  /\ mode > 1 /\ sample[i] = "text"
  /\ mode' = mode - 1
  /\ old' = [k \in DOMAIN old \cup {Min - mode} |->
               IF k = Min - mode THEN buf[i] ELSE old[k]]
  /\ Fill

\* A text character in a block, not yet the last of Min.
Save ==
  /\ Advance
  /\ mode > 1 /\ sample[i] = "text"
  /\ mode' = mode - 1
  /\ old' = [old EXCEPT ![Min - mode'] = buf[i]]
  /\ Fill

\* Deviation: the last character is counted among the restored.
RestoreOneMore ==
  /\ Advance
  /\ mode = 1 /\ sample[i] = "text"
  /\ mode' = 0
  /\ buf' = [j \in DOMAIN buf |->
               IF j \in i - Min + 1 .. i - 1 THEN old[j - i + Min] ELSE buf[j]]
  /\ xout' = xout - Min
  /\ UNCHANGED old

\* The last of Min text characters: the block ended before the first.
Restore ==
  /\ Advance
  /\ mode = 1 /\ sample[i] = "text"
  /\ mode' = 0
  /\ buf' = [j \in DOMAIN buf |->
               IF j \in i - Min + 1 .. i - 1 THEN old[j - i + Min] ELSE buf[j]]
  /\ xout' = xout - (Min - 1)
  /\ UNCHANGED old

Next == Keep \/ Blank \/ Save \/ Restore

Spec == Init /\ [][Next]_vars
-----------------------------------------------------------------------------
(* What the filter is for, told without its state. *)

\* Min characters from place k on are text.
TextRun(k) == \A m \in k .. k + Min - 1 : sample[m] = "text"

\* Place j belongs to a block when some binary character stands at or before
\* it and no run of Min text characters that ends by place n starts between.
Blanked(j, n) ==
  \E b \in 1 .. j :
    /\ sample[b] = "binary"
    /\ \A k \in b + 1 .. j : k + Min - 1 <= n => ~TextRun(k)

\* The part of the buffer the loop has passed is blank exactly in the blocks
\* and as it was everywhere else; every saved character is back at its own
\* place (lib/guess.c:443).
BlocksAreBlank ==
  \A j \in 1 .. Size :
    buf[j] = IF j < i /\ Blanked(j, i - 1) THEN 0 ELSE j

\* The returned count is that of the blank places, whatever was restored; so
\* size - fchars in make_guess() never wraps around (lib/guess.c:309, 317).
CountIsExact == xout = Cardinality({j \in 1 .. Size : buf[j] = 0})

\* Types; the saved characters never run over their array (lib/guess.c:453).
TypeOK ==
  /\ sample \in Seq(Classes)
  /\ i \in 1 .. Size + 1
  /\ mode \in 0 .. Min
  /\ buf \in [1 .. Size -> 0 .. Size]
  /\ old \in [1 .. Min - 1 -> 0 .. Size]
  /\ xout \in 0 .. i - 1
=============================================================================
