------------------------- MODULE FilterBinaryProofs -------------------------
(* filter_binary() is correct on every sample, of any length, and for every *)
(* BIN_TEXT_CHAR_MIN that is at least 2.                                     *)
EXTENDS FilterBinary, FiniteSetTheorems, TLAPS

(***************************************************************************)
(* The inductive invariant.  Within a block, Last is the last character    *)
(* that was not text; what follows it is text, and is saved.               *)
(***************************************************************************)
Last == i - 1 - (Min - mode)

Types ==
  /\ sample \in Seq(Classes)
  /\ i \in 1 .. Size + 1
  /\ mode \in 0 .. Min
  /\ buf \in [1 .. Size -> 0 .. Size]
  /\ old \in [1 .. Min - 1 -> 0 .. Size]
  /\ xout \in Int

\* Outside a block, every binary character so far was followed by a text run.
OutsideBlock ==
  mode = 0 =>
    \A b \in 1 .. i - 1 : sample[b] = "binary" =>
      \E k \in b + 1 .. i - Min : TextRun(k)

InBlock ==
  mode > 0 =>
    /\ Last >= 1 /\ sample[Last] # "text"
    /\ \A m \in Last + 1 .. i - 1 : sample[m] = "text" /\ old[m - Last] = m
    /\ \E b \in 1 .. Last :
         /\ sample[b] = "binary"
         /\ \A k \in b + 1 .. Last : ~TextRun(k)

BlankPlaces == {j \in 1 .. Size : buf[j] = 0}

IInv == Types /\ OutsideBlock /\ InBlock /\ BlocksAreBlank /\ CountIsExact
-----------------------------------------------------------------------------
LEMMA InitInv == Init => IInv
<1> SUFFICES ASSUME Init PROVE IInv
  OBVIOUS
<1> USE FilterAssumption DEF Init, Size
<1>1. Len(sample) \in Nat
  OBVIOUS
<1>2. Types /\ OutsideBlock /\ InBlock
  BY <1>1 DEF Types, OutsideBlock, InBlock
<1>3. BlocksAreBlank
  BY <1>1 DEF BlocksAreBlank
<1>4. CountIsExact
  <2>1. {j \in 1 .. Size : buf[j] = 0} = {}
    BY <1>1
  <2> QED BY <2>1, FS_EmptySet DEF CountIsExact
<1> QED BY <1>2, <1>3, <1>4 DEF IInv

LEMMA InvTypes == IInv => Types /\ Size \in Nat
BY DEF IInv, Types, Size

LEMMA Numbers ==
  ASSUME IInv
  PROVE  /\ Min \in Nat /\ Min >= 2 /\ Size \in Nat
         /\ i \in Nat /\ i >= 1 /\ i <= Size + 1
         /\ mode \in Nat /\ mode <= Min
         /\ Last \in Int /\ Last = i - 1 - (Min - mode)
<1>1. Min \in Nat /\ Min >= 2
  BY FilterAssumption
<1>2. Size \in Nat /\ i \in 1 .. Size + 1 /\ mode \in 0 .. Min
  BY InvTypes DEF Types
<1> QED BY <1>1, <1>2 DEF Last

LEMMA StepTypes == ASSUME IInv, Next PROVE Types' /\ Size' = Size
<1> USE FilterAssumption, InvTypes
    DEF Types, Size, Next, Keep, Blank, Save, Restore, Advance, Fill
<1>1. Size' = Size
  OBVIOUS
<1>2. sample' \in Seq(Classes) /\ i' \in 1 .. Size + 1 /\ mode' \in 0 .. Min
  BY SMTT(30)
<1>3. xout' \in Int
  OBVIOUS
<1>4. buf' \in [1 .. Size -> 0 .. Size] /\ old' \in [1 .. Min - 1 -> 0 .. Size]
  <2>1. CASE Keep
    BY <2>1
  <2>2. CASE Blank
    BY <2>2
  <2>3. CASE Save
    BY <2>3
  <2>4. CASE Restore
    <3> DEFINE Put(j) == IF j \in i - Min + 1 .. i - 1 THEN old[j - i + Min]
                                                      ELSE buf[j]
    <3>1. \A j \in i - Min + 1 .. i - 1 : j - i + Min \in 1 .. Min - 1
      <4> HIDE DEF Types, Next, Keep, Blank, Save, Restore, Advance, Fill
      <4> QED BY Numbers
    <3>2. \A j \in 1 .. Size : Put(j) \in 0 .. Size
      BY <3>1
    <3>3. buf' = [j \in 1 .. Size |-> Put(j)] /\ old' = old
      BY <2>4
    <3> QED BY <3>2, <3>3
  <2> QED BY <2>1, <2>2, <2>3, <2>4
<1> QED BY <1>1, <1>2, <1>3, <1>4

(* A text run cannot cover a character that is not text. *)
LEMMA RunIsText ==
  ASSUME NEW k \in Int, NEW m \in k .. k + Min - 1, TextRun(k)
  PROVE  sample[m] = "text"
BY DEF TextRun

LEMMA BufferOK ==
  ASSUME IInv
  PROVE  /\ DOMAIN buf = 1 .. Size /\ DOMAIN old = 1 .. Min - 1
         /\ \A j \in 1 .. Size : j >= i => buf[j] = j
BY DEF IInv, Types, BlocksAreBlank

(* What a block that ends leaves: its last Min - 1 places are as they were. *)
LEMMA Restored ==
  ASSUME IInv, Restore
  PROVE  /\ mode = 1 /\ mode' = 0 /\ i' = i + 1 /\ i <= Size /\ sample' = sample
         /\ xout' = xout - (Min - 1)
         /\ Last = i - Min /\ Last >= 1 /\ sample[Last] # "text"
         /\ \A m \in Last + 1 .. i : sample[m] = "text"
         /\ TextRun(Last + 1)
         /\ \A j \in 1 .. Size :
              buf'[j] = IF j \in Last + 1 .. i - 1 THEN j ELSE buf[j]
<1> USE Numbers
<1>1. /\ mode = 1 /\ mode' = 0 /\ i' = i + 1 /\ i <= Size /\ sample' = sample
      /\ xout' = xout - (Min - 1) /\ sample[i] = "text"
  BY DEF Restore, Advance
<1>2. Last = i - Min
  BY <1>1
<1>3. /\ Last >= 1 /\ sample[Last] # "text"
      /\ \A m \in Last + 1 .. i - 1 : sample[m] = "text" /\ old[m - Last] = m
  BY <1>1 DEF IInv, InBlock
<1>4. \A m \in Last + 1 .. i : sample[m] = "text"
  <2> TAKE m \in Last + 1 .. i
  <2>1. m = i \/ m \in Last + 1 .. i - 1
    OBVIOUS
  <2> QED BY <1>1, <1>3, <2>1
<1>5. TextRun(Last + 1)
  <2>1. Last + 1 + Min - 1 = i
    BY <1>2
  <2> QED BY <1>4, <2>1 DEF TextRun
<1>6. ASSUME NEW j \in 1 .. Size
      PROVE  buf'[j] = IF j \in Last + 1 .. i - 1 THEN j ELSE buf[j]
  <2>1. buf'[j] = IF j \in i - Min + 1 .. i - 1 THEN old[j - i + Min] ELSE buf[j]
    BY BufferOK DEF Restore
  <2>2. i - Min + 1 = Last + 1 /\ j - i + Min = j - Last
    BY <1>2
  <2> QED BY <1>3, <2>1, <2>2
<1> QED BY <1>1, <1>2, <1>3, <1>4, <1>5, <1>6

LEMMA StepControl ==
  ASSUME IInv, Next PROVE OutsideBlock' /\ InBlock'
<1> USE Numbers DEF Advance
<1>0. \A k : TextRun(k)' <=> TextRun(k)
  BY DEF Next, Keep, Blank, Save, Restore, TextRun
<1>1. CASE Keep
  <2>1. OutsideBlock'
    BY <1>0, <1>1 DEF Keep, IInv, OutsideBlock
  <2> QED BY <2>1, <1>1 DEF Keep, InBlock
<1>2. CASE Blank
  <2>1. mode' = Min /\ Last' = i /\ i' = i + 1 /\ sample' = sample
    BY <1>2 DEF Blank, Last
  <2>2. sample[i] # "text"
    BY <1>2 DEF Blank
  <2>3. \E b \in 1 .. i : /\ sample[b] = "binary"
                          /\ \A k \in b + 1 .. i : ~TextRun(k)
    <3>1. CASE sample[i] = "binary"
      BY <3>1, SMTT(30) DEF Size
    <3>2. CASE mode > 0 /\ sample[i] = "other"
      <4>1. PICK b \in 1 .. Last : /\ sample[b] = "binary"
                                   /\ \A k \in b + 1 .. Last : ~TextRun(k)
        BY <3>2 DEF IInv, InBlock
      <4>2. ASSUME NEW k \in Last + 1 .. i PROVE ~TextRun(k)
        <5>1. i \in k .. k + Min - 1
          BY <3>2 DEF Last
        <5> QED BY <5>1, <2>2, RunIsText
      <4>3. Last \in 1 .. i
        BY <3>2 DEF IInv, InBlock, Last
      <4> QED BY <4>1, <4>2, <4>3
    <3> QED BY <1>2, <3>1, <3>2 DEF Blank
  <2>4. InBlock'
    BY <1>0, <2>1, <2>2, <2>3 DEF InBlock
  <2> QED BY <2>1, <2>4 DEF OutsideBlock
<1>3. CASE Save
  <2>1. /\ mode' = mode - 1 /\ mode' > 0 /\ Last' = Last /\ i' = i + 1
        /\ sample' = sample /\ sample[i] = "text" /\ mode > 0
    BY <1>3 DEF Save, Last
  <2>2. ASSUME NEW m \in Last + 1 .. i
        PROVE  sample[m] = "text" /\ old'[m - Last] = m
    <3>1. CASE m = i
      <4>1. Min - mode' = i - Last /\ Min - mode' \in 1 .. Min - 1
        BY <2>1
      <4>2. buf[i] = i
        BY <1>3, BufferOK DEF Save
      <4> QED BY <1>3, <2>1, <3>1, <4>1, <4>2, BufferOK DEF Save
    <3>2. CASE m # i
      <4>1. m \in Last + 1 .. i - 1 /\ m - Last # Min - mode'
        BY <2>1, <3>2
      <4>2. m - Last \in 1 .. Min - 1
        BY <2>1, <4>1
      <4>3. sample[m] = "text" /\ old[m - Last] = m
        BY <2>1, <4>1 DEF IInv, InBlock
      <4> QED BY <1>3, <4>1, <4>2, <4>3, BufferOK DEF Save
    <3> QED BY <3>1, <3>2
  <2>3. InBlock'
    BY <1>0, <2>1, <2>2 DEF InBlock, IInv
  <2> QED BY <2>1, <2>3 DEF OutsideBlock
<1>4. CASE Restore
  <2>1. /\ mode' = 0 /\ i' = i + 1 /\ sample' = sample
        /\ Last = i - Min /\ TextRun(Last + 1)
    BY <1>4, Restored
  <2>2. ASSUME NEW b \in 1 .. i, sample[b] = "binary"
        PROVE  Last + 1 \in b + 1 .. i + 1 - Min
    <3>1. b \notin Last + 1 .. i
      BY <1>4, <2>2, Restored
    <3> QED BY <2>1, <3>1
  <2>3. OutsideBlock'
    <3>1. OutsideBlock' <=> \A b \in 1 .. i : sample[b] = "binary" =>
                              \E k \in b + 1 .. i + 1 - Min : TextRun(k)
      BY <1>0, <2>1 DEF OutsideBlock
    <3> QED BY <2>1, <2>2, <3>1
  <2> QED BY <2>1, <2>3 DEF InBlock
<1> QED BY <1>1, <1>2, <1>3, <1>4 DEF Next
-----------------------------------------------------------------------------
(* How the set of blanked places changes when one more character is seen.  *)

LEMMA SameBlanked ==
  ASSUME IInv, i <= Size, ~TextRun(i - Min + 1)
  PROVE  \A j \in 1 .. Size : Blanked(j, i) <=> Blanked(j, i - 1)
<1> TAKE j \in 1 .. Size
<1>1. \A b \in 1 .. j : \A k \in b + 1 .. j :
        k + Min - 1 <= i => k + Min - 1 <= i - 1 \/ k = i - Min + 1
  BY Numbers
<1>2. \A b \in 1 .. j : \A k \in b + 1 .. j :
        (k + Min - 1 <= i => ~TextRun(k)) <=> (k + Min - 1 <= i - 1 => ~TextRun(k))
  BY <1>1, Numbers
<1> QED BY <1>2 DEF Blanked

(* Within a block, everything after its last character that is not text is *)
(* blanked, the text character being looked at too.                        *)
LEMMA TailBlanked ==
  ASSUME IInv, mode > 0, NEW j \in Last .. i - 1
  PROVE  j \in 1 .. Size /\ Blanked(j, i - 1)
<1> USE Numbers
<1>1. PICK b \in 1 .. Last : /\ sample[b] = "binary"
                             /\ \A k \in b + 1 .. Last : ~TextRun(k)
  BY DEF IInv, InBlock
<1>2. \A k \in b + 1 .. j : k + Min - 1 <= i - 1 => k \in b + 1 .. Last
  BY DEF Last
<1>3. Last \in Int /\ Last >= 1
  BY DEF IInv, InBlock, Last
<1> QED BY <1>1, <1>2, <1>3 DEF Blanked

LEMMA StepBlank == ASSUME IInv, Next PROVE BlocksAreBlank'
<1> USE Numbers DEF Advance
<1>0. i <= Size /\ i' = i + 1 /\ sample' = sample /\ Size' = Size
  BY DEF Next, Keep, Blank, Save, Restore, Size
<1>1. \A j, n : Blanked(j, n)' <=> Blanked(j, n)
  BY <1>0 DEF Blanked, TextRun
<1>2. SUFFICES ASSUME NEW j \in 1 .. Size
               PROVE  buf'[j] = IF j <= i /\ Blanked(j, i) THEN 0 ELSE j
  BY <1>0, <1>1 DEF BlocksAreBlank
<1>3. buf[j] = IF j < i /\ Blanked(j, i - 1) THEN 0 ELSE j
  BY DEF IInv, BlocksAreBlank
<1>4. CASE Keep
  <2>1. mode = 0 /\ sample[i] # "binary" /\ buf' = buf
    BY <1>4 DEF Keep
  <2>2. ~Blanked(i, i)
    BY <2>1 DEF IInv, OutsideBlock, Blanked
  <2>3. CASE TextRun(i - Min + 1) /\ j \in i - Min + 1 .. i - 1
    <3>1. \A b \in 1 .. j : sample[b] = "binary" => b < i - Min + 1
      <4> TAKE b \in 1 .. j
      <4>1. b >= i - Min + 1 => b \in i - Min + 1 .. i - Min + 1 + Min - 1
        BY <2>3
      <4> QED BY <2>3, <4>1, RunIsText
    <3>2. ~Blanked(j, i - 1)
      BY <2>1, <2>3, <3>1 DEF IInv, OutsideBlock, Blanked
    <3>3. ~Blanked(j, i)
      BY <3>2 DEF Blanked
    <3> QED BY <1>3, <2>1, <3>2, <3>3
  <2>4. CASE ~TextRun(i - Min + 1) \/ j < i - Min + 1
    <3>1. j < i => (Blanked(j, i) <=> Blanked(j, i - 1))
      BY <2>4 DEF Blanked
    <3> QED BY <1>3, <2>1, <2>2, <3>1
  <2>5. CASE j >= i
    BY <1>3, <2>1, <2>2, <2>5
  <2> QED BY <2>3, <2>4, <2>5
<1>5. CASE Blank \/ Save
  <2>1. buf' = [buf EXCEPT ![i] = 0]
    BY <1>5 DEF Blank, Save, Fill
  <2>2. (mode' > 0 /\ Last' \in 1 .. i) /\ IInv
    BY <1>5, StepControl DEF InBlock, Blank, Save, Last
  <2>3. Blanked(i, i)
    <3>1. PICK b \in 1 .. Last' : /\ sample[b] = "binary"
                                  /\ \A k \in b + 1 .. Last' : ~TextRun(k)
      BY <1>0, <2>2, StepControl DEF InBlock, TextRun
    <3>2. \A k \in b + 1 .. i : k + Min - 1 <= i => k \in b + 1 .. Last'
      BY <1>0, <1>5 DEF Last, Blank, Save
    <3> QED BY <2>2, <3>1, <3>2 DEF Blanked
  <2>4. ~TextRun(i - Min + 1)
    <3>1. Last' \in i - Min + 1 .. i /\ sample[Last'] # "text"
      BY <1>0, <1>5, <2>2, StepControl DEF InBlock, Last, Blank, Save
    <3> QED BY <3>1, RunIsText
  <2>5. buf'[j] = IF j = i THEN 0 ELSE buf[j]
    BY <2>1, BufferOK
  <2> QED BY <1>0, <1>3, <2>3, <2>4, <2>5, SameBlanked
<1>6. CASE Restore
  <2>1. /\ Last = i - Min /\ Last >= 1 /\ TextRun(Last + 1)
        /\ \A m \in Last + 1 .. i : sample[m] = "text"
        /\ buf'[j] = IF j \in Last + 1 .. i - 1 THEN j ELSE buf[j]
    BY <1>6, Restored
  <2>2. CASE j \in Last + 1 .. i
    <3>1. \A b \in 1 .. j : sample[b] = "binary" => Last + 1 \in b + 1 .. j
      <4> TAKE b \in 1 .. j
      <4>1. b \in Last + 1 .. i \/ b <= Last
        BY <2>2
      <4> QED BY <2>1, <2>2, <4>1
    <3>2. ~Blanked(j, i)
      BY <2>1, <3>1 DEF Blanked
    <3>3. j = i => buf[j] = j
      BY <1>3
    <3> QED BY <2>1, <2>2, <3>2, <3>3
  <2>3. CASE j \notin Last + 1 .. i
    <3>1. j <= Last => (Blanked(j, i) <=> Blanked(j, i - 1))
      <4>1. \A b \in 1 .. j : \A k \in b + 1 .. j :
              j <= Last => (k + Min - 1 <= i <=> k + Min - 1 <= i - 1)
        BY <2>1
      <4> QED BY <4>1 DEF Blanked
    <3> QED BY <1>3, <2>1, <2>3, <3>1
  <2> QED BY <2>2, <2>3
<1> QED BY <1>4, <1>5, <1>6 DEF Next
-----------------------------------------------------------------------------
LEMMA StepCount == ASSUME IInv, Next PROVE CountIsExact'
<1> USE Numbers DEF Advance
<1>0. xout = Cardinality(BlankPlaces) /\ Size' = Size /\ i \in 1 .. Size
  BY DEF IInv, CountIsExact, BlankPlaces, Next, Keep, Blank, Save, Restore, Size
<1>1. IsFiniteSet(BlankPlaces)
  <2>1. IsFiniteSet(1 .. Size)
    BY FS_Interval
  <2> QED BY <2>1, FS_Subset DEF BlankPlaces
<1>2. SUFFICES xout' = Cardinality(BlankPlaces')
  BY DEF CountIsExact, BlankPlaces
<1>3. CASE Keep
  BY <1>0, <1>3 DEF Keep, BlankPlaces
<1>4. CASE Blank \/ Save
  <2>1. buf' = [buf EXCEPT ![i] = 0] /\ xout' = xout + 1
    BY <1>4 DEF Blank, Save, Fill
  <2>2. BlankPlaces' = BlankPlaces \cup {i}
    BY <1>0, <2>1, BufferOK DEF BlankPlaces
  <2>3. i \notin BlankPlaces
    BY <1>0 DEF BlankPlaces, IInv, BlocksAreBlank
  <2> QED BY <1>0, <1>1, <2>1, <2>2, <2>3, FS_AddElement
<1>5. CASE Restore
  <2> DEFINE Back == Last + 1 .. i - 1
  <2>1. /\ mode = 1 /\ Last = i - Min /\ Last >= 1 /\ xout' = xout - (Min - 1)
        /\ \A j \in 1 .. Size : buf'[j] = IF j \in Back THEN j ELSE buf[j]
    BY <1>5, Restored
  <2>2. Back \subseteq BlankPlaces
    <3>1. \A j \in Back : j \in 1 .. Size /\ Blanked(j, i - 1) /\ j < i
      BY <1>0, <2>1, TailBlanked
    <3> QED BY <3>1 DEF BlankPlaces, IInv, BlocksAreBlank
  <2>3. BlankPlaces' = BlankPlaces \ Back
    BY <1>0, <2>1 DEF BlankPlaces
  <2>4. Cardinality(Back) = Min - 1
    BY <2>1, FS_Interval
  <2>5. Cardinality(BlankPlaces \ Back)
          = Cardinality(BlankPlaces) - Cardinality(BlankPlaces \cap Back)
    BY <1>1, FS_Difference, Zenon
  <2>6. BlankPlaces \cap Back = Back
    BY <2>2, Zenon
  <2> HIDE DEF Back
  <2> QED BY <1>0, <2>1, <2>3, <2>4, <2>5, <2>6
<1> QED BY <1>3, <1>4, <1>5 DEF Next

LEMMA StepInv == IInv /\ [Next]_vars => IInv'
<1> SUFFICES ASSUME IInv, [Next]_vars PROVE IInv'
  OBVIOUS
<1>1. CASE Next
  BY <1>1, StepTypes, StepControl, StepBlank, StepCount DEF IInv
<1>2. CASE UNCHANGED vars
  BY <1>2 DEF vars, IInv, Types, Size, OutsideBlock, InBlock, Last,
              BlocksAreBlank, CountIsExact, Blanked, TextRun
<1> QED BY <1>1, <1>2
-----------------------------------------------------------------------------
(* After any number of characters the buffer is blank in the blocks and as *)
(* it was elsewhere (filter_binary(), lib/guess.c:423).                    *)
THEOREM FilterBlanks == Spec => []BlocksAreBlank
<1>1. IInv => BlocksAreBlank
  BY DEF IInv
<1> QED BY <1>1, InitInv, StepInv, PTL DEF Spec

(* The returned count is the number of blank places (lib/guess.c:466).     *)
THEOREM FilterCounts == Spec => []CountIsExact
<1>1. IInv => CountIsExact
  BY DEF IInv
<1> QED BY <1>1, InitInv, StepInv, PTL DEF Spec

(* Types; the count never exceeds the characters seen, and saved characters *)
(* stay within their array (lib/guess.c:453).                               *)
THEOREM FilterTypes == Spec => []TypeOK
<1>1. IInv => TypeOK
  <2> SUFFICES ASSUME IInv PROVE TypeOK
    OBVIOUS
  <2>1. Types /\ Size \in Nat
    BY InvTypes
  <2>2. xout = Cardinality(BlankPlaces)
    BY DEF IInv, CountIsExact, BlankPlaces
  <2>3. BlankPlaces \subseteq 1 .. i - 1
    BY <2>1 DEF BlankPlaces, IInv, BlocksAreBlank, Types
  <2>4. /\ IsFiniteSet(1 .. i - 1) /\ i - 1 \in Nat
        /\ Cardinality(1 .. i - 1) = i - 1
    BY <2>1, FS_Interval DEF Types
  <2>5. xout \in Nat /\ xout <= i - 1
    BY <2>2, <2>3, <2>4, FS_Subset, FS_CardinalityType
  <2> QED BY <2>1, <2>5 DEF Types, TypeOK
<1> QED BY <1>1, InitInv, StepInv, PTL DEF Spec
=============================================================================
