-------------------------- MODULE CommandLineProofs --------------------------
(***************************************************************************)
(* Theorems of CommandLine, for every command line, environment and        *)
(* system: the argument scanner stays within the words, whatever options   *)
(* do to one another the type of the output is the one asked for, and the  *)
(* files are begun only with settings that fit together.                   *)
(***************************************************************************)
EXTENDS CommandLine, FoldLemmas, SequenceTheorems

(* Words. *)

LEMMA WordParts ==
  ASSUME NEW w \in Word
  PROVE  /\ Len(w) \in Nat /\ w # Null
         /\ \A i \in 1 .. Len(w) + 2, j \in 0 .. Len(w) : SubSeq(w, i, j) \in Word
         /\ \A i \in 1 .. Len(w) + 2 : From(w, i) \in Word
         /\ \A i : At(w, i) \in Word
<1>1. Len(w) \in Nat
  BY WordsAssumption
<1>w. w # Null /\ "" \in Word
  BY WordsAssumption
<1>2. ASSUME NEW i \in 1 .. Len(w) + 2, NEW j \in 0 .. Len(w)
      PROVE  SubSeq(w, i, j) \in Word
  <2>1. Parts(w) \subseteq Word
    BY WordsAssumption
  <2>2. SubSeq(w, i, j) \in Parts(w)
    BY DEF Parts
  <2> QED BY <2>1, <2>2
<1>3. ASSUME NEW i \in 1 .. Len(w) + 2 PROVE From(w, i) \in Word
  <2>1. Len(w) \in 0 .. Len(w)
    BY <1>1
  <2> QED BY <1>2, <2>1 DEF From
<1>4. ASSUME NEW i PROVE At(w, i) \in Word
  <2>1. CASE i \in 1 .. Len(w)
    <3>1. i \in 1 .. Len(w) + 2 /\ i \in 0 .. Len(w)
      BY <1>1, <2>1
    <3> QED BY <1>2, <2>1, <3>1 DEF At
  <2>2. CASE i \notin 1 .. Len(w)
    BY <1>w, <2>2 DEF At
  <2> QED BY <2>1, <2>2
<1> QED BY <1>1, <1>w, <1>2, <1>3, <1>4

(* strchr() finds a place, or the end. *)
LEMMA PlaceFound ==
  ASSUME NEW s, NEW c, NEW n \in Nat, n = Len(s)
  PROVE  Place(s, c) \in 1 .. n + 1
<1> DEFINE S == {i \in 1 .. n + 1 : i <= n => At(s, i) = c}
<1>1. S \subseteq Int /\ (\A y \in S : 1 <= y) /\ n + 1 \in S
  OBVIOUS
<1>2. Min(S) \in S /\ \A y \in S : Min(S) <= y
  BY <1>1, MinExists
<1> DEFINE m == Min(S)
<1> HIDE DEF m
<1>3. m \in S /\ \A y \in S : m <= y
  BY <1>2 DEF m
<1>4. m \in 1 .. n + 1 /\ (m <= n => At(s, m) = c)
  BY <1>3
<1>5. \A j \in 1 .. m - 1 : At(s, j) # c
  <2> SUFFICES ASSUME NEW j \in 1 .. m - 1, At(s, j) = c PROVE FALSE
    OBVIOUS
  <2>1. j \in 1 .. n + 1 /\ j < m
    BY <1>4
  <2>2. j \in S
    BY <2>1
  <2>3. m <= j
    BY <1>3, <2>2
  <2> QED BY <1>4, <2>1, <2>3
<1>6. \E i \in 1 .. Len(s) + 1 : /\ i <= Len(s) => At(s, i) = c
                                 /\ \A j \in 1 .. i - 1 : At(s, j) # c
  BY <1>4, <1>5
<1> QED BY <1>6 DEF Place

(* The members of a sequence that are in a set are found one by one, and are *)
(* a sequence, too.                                                          *)
KeptSteps(s, S, P) ==
  /\ P[0] = <<>> /\ P[Len(s)] = Kept(s, S)
  /\ \A k \in 1 .. Len(s) :
       P[k] = IF s[k] \in S THEN Append(P[k - 1], s[k]) ELSE P[k - 1]

LEMMA KeptRounds ==
  ASSUME NEW D, NEW s \in Seq(D), NEW S
  PROVE  \E P \in [0 .. Len(s) -> Seq(D \cap S)] : KeptSteps(s, S, P)
<1> DEFINE X == Seq(D \cap S)  q == s  base == <<>>  n == Len(s)
           Next1(x, t) == IF x \in S THEN Append(t, x) ELSE t
           Is(iter) ==
             iter = [z \in SUBSET DOMAIN q |->
                       IF z = {} THEN base ELSE Next1(q[Max(z)], iter[z \ {Max(z)}])]
           It == CHOOSE iter : Is(iter)
           H == [p \in D \X X |-> Next1(p[1], p[2])]
<1>1. Kept(s, S) = It[DOMAIN q]
  BY DEF Kept, FoldLeft, MapThenFoldSet
<1>2. n \in Nat /\ DOMAIN q = 1 .. n /\ (\A i \in 1 .. n : q[i] \in D) /\ base \in X
  OBVIOUS
<1>3. ASSUME NEW x \in D, NEW t \in X PROVE Next1(x, t) \in X
  OBVIOUS
<1>4. H \in [D \X X -> X] /\ \A x \in D, t \in X : H[<<x, t>>] = Next1(x, t)
  BY <1>3
<1> HIDE DEF H, X, q, base, Next1, n
<1>5. PICK f \in [SUBSET DOMAIN q -> X] : FoldingOver(q, base, H, f)
  BY <1>2, <1>4, FoldOverExists
<1>6. Is(f)
  <2>1. ASSUME NEW z \in SUBSET DOMAIN q
        PROVE  f[z] = IF z = {} THEN base ELSE Next1(q[Max(z)], f[z \ {Max(z)}])
    <3>1. f[z] = IF z = {} THEN base ELSE H[<<q[Max(z)], f[z \ {Max(z)}]>>]
      BY <1>5 DEF FoldingOver
    <3>2. z # {} => Max(z) \in DOMAIN q /\ z \ {Max(z)} \in SUBSET DOMAIN q
      BY <1>2, PlacesOf
    <3> QED BY <1>2, <1>4, <3>1, <3>2
  <2> QED BY <2>1
<1>7. Is(It)
  BY <1>6
<1>8. FoldedBy(q, base, H, X, It)
  <2> HIDE DEF It
  <2>1. \A z \in SUBSET DOMAIN q : z # {} => q[Max(z)] \in D
    BY <1>2, PlacesOf
  <2> QED BY <1>4, <1>7, <2>1 DEF FoldedBy
<1> HIDE DEF It
<1>9. PICK P \in [0 .. n -> X] : FoldRun(n, q, base, H, P, It[DOMAIN q])
  BY <1>2, <1>4, <1>8, FoldRounds
<1>10. ASSUME NEW k \in 1 .. n PROVE P[k] = Next1(q[k], P[k - 1])
  <2>1. q[k] \in D /\ P[k - 1] \in X
    BY <1>2
  <2> QED BY <1>4, <1>9, <2>1 DEF FoldRun
<1>11. /\ P[0] = <<>> /\ P[n] = Kept(s, S)
       /\ \A k \in 1 .. n : P[k] = IF q[k] \in S THEN Append(P[k - 1], q[k]) ELSE P[k - 1]
  BY <1>1, <1>9, <1>10 DEF FoldRun, base, Next1
<1>12. KeptSteps(s, S, P)
  BY <1>11 DEF KeptSteps, n, q
<1> QED BY <1>12 DEF X, n, q

LEMMA KeptIsSeq ==
  ASSUME NEW D, NEW s \in Seq(D), NEW S
  PROVE  Kept(s, S) \in Seq(D \cap S)
<1>1. PICK P \in [0 .. Len(s) -> Seq(D \cap S)] : KeptSteps(s, S, P)
  BY KeptRounds
<1>2. Len(s) \in 0 .. Len(s)
  OBVIOUS
<1> QED BY <1>1, <1>2 DEF KeptSteps

(* The parts of a word between separators are words. *)
LEMMA SplitIsSeq ==
  ASSUME NEW s \in Word, NEW c
  PROVE  Split(s, c) \in Seq(Word)
<1> DEFINE n == Len(s)
           all == [i \in 1 .. n |-> i]
           S == {i \in 1 .. n : At(s, i) = c}
           K == Kept(all, S)
           places == <<0>> \o K \o <<n + 1>>
<1>1. n \in Nat
  BY WordParts
<1>2. \A i \in 1 .. n + 2, j \in 0 .. n : SubSeq(s, i, j) \in Word
  BY WordParts
<1>3. Split(s, c) = [k \in 1 .. Len(places) - 1 |->
                       SubSeq(s, places[k] + 1, places[k + 1] - 1)]
  BY DEF Split
<1> HIDE DEF n
<1>4. all \in Seq(1 .. n)
  BY <1>1
<1>5. K \in Seq(1 .. n \cap S)
  <2> HIDE DEF all, S
  <2> QED BY <1>4, KeptIsSeq
<1> HIDE DEF K, all, S
<1> DEFINE k0 == Len(K)
<1>6. k0 \in Nat /\ DOMAIN K = 1 .. k0 /\ \A i \in 1 .. k0 : K[i] \in 1 .. n
  BY <1>5
<1>7. /\ Len(places) = k0 + 2
      /\ places[1] = 0 /\ places[k0 + 2] = n + 1
      /\ \A i \in 1 .. k0 : places[i + 1] = K[i]
  BY <1>1, <1>5, <1>6
<1> HIDE DEF places, k0
<1>8. ASSUME NEW k \in 1 .. k0 + 1
      PROVE  SubSeq(s, places[k] + 1, places[k + 1] - 1) \in Word
  <2>1. places[k] \in 0 .. n
    <3>1. CASE k = 1
      BY <1>1, <1>7, <3>1
    <3>2. CASE k # 1
      <4>1. k - 1 \in 1 .. k0 /\ (k - 1) + 1 = k
        BY <1>6, <3>2
      <4>2. places[k] = K[k - 1]
        BY <1>7, <4>1
      <4>3. K[k - 1] \in 1 .. n
        BY <1>6, <4>1
      <4> QED BY <1>1, <4>2, <4>3
    <3> QED BY <3>1, <3>2
  <2>2. places[k + 1] \in 1 .. n + 1
    <3>1. CASE k = k0 + 1
      <4>1. k + 1 = k0 + 2
        BY <1>6, <3>1
      <4> QED BY <1>1, <1>7, <4>1
    <3>2. CASE k # k0 + 1
      <4>1. k \in 1 .. k0
        BY <1>6, <3>2
      <4>2. places[k + 1] = K[k] /\ K[k] \in 1 .. n
        BY <1>6, <1>7, <4>1
      <4> QED BY <1>1, <4>2
    <3> QED BY <3>1, <3>2
  <2>3. places[k] + 1 \in 1 .. n + 2 /\ places[k + 1] - 1 \in 0 .. n
    BY <1>1, <2>1, <2>2
  <2> QED BY <1>2, <2>3
<1>9. k0 + 1 \in Nat /\ (k0 + 2) - 1 = k0 + 1
  BY <1>6
<1>10. Split(s, c) = [k \in 1 .. k0 + 1 |->
                        SubSeq(s, places[k] + 1, places[k + 1] - 1)]
  BY <1>3, <1>7, <1>9
<1> DEFINE e(k) == SubSeq(s, places[k] + 1, places[k + 1] - 1)
<1>11. \A k \in 1 .. k0 + 1 : e(k) \in Word
  BY <1>8
<1>12. Split(s, c) = [k \in 1 .. k0 + 1 |-> e(k)]
  BY <1>10
<1> HIDE DEF e
<1> QED BY <1>9, <1>11, <1>12

(* So are the words of the environment variable. *)
LEMMA TokensAreWords ==
  ASSUME NEW s \in Word
  PROVE  Tokens(s) \in Seq(Word)
<1> DEFINE words == Split(s, " ")  S == ToSet(words) \ {""}
<1>1. words \in Seq(Word)
  BY SplitIsSeq
<1>2. Tokens(s) = Kept(words, S)
  BY DEF Tokens
<1> HIDE DEF words, S
<1>3. Kept(words, S) \in Seq(Word \cap S)
  BY <1>1, KeptIsSeq
<1> QED BY <1>2, <1>3

(* An abbreviation stands for one of the names, or none.  The seconds are   *)
(* the names of output types and of lists.                                  *)
LEMMA Expanded ==
  ASSUME NEW name, NEW names
  PROVE  ExpandAbbreviation(name, names) \in ToSet(names) \cup {Null}
<1> DEFINE matches == {m \in ToSet(names) : StartsWith(m, name)}
<1>1. matches \subseteq ToSet(names)
  OBVIOUS
<1>2. ExpandAbbreviation(name, names)
        = IF \E m \in matches : matches = {m} THEN CHOOSE m \in matches : TRUE ELSE Null
  BY DEF ExpandAbbreviation
<1> HIDE DEF matches
<1>3. CASE \E m \in matches : matches = {m}
  <2>1. (CHOOSE m \in matches : TRUE) \in matches
    BY <1>3
  <2> QED BY <1>1, <1>2, <1>3, <2>1
<1>4. CASE ~\E m \in matches : matches = {m}
  BY <1>2, <1>4
<1> QED BY <1>3, <1>4

LEMMA TypeNames ==
  ASSUME NEW name, NEW otype, otype \in ToSet(OTS) \cup {"CONVERT"}
  PROVE  /\ OtypeFromName(name, otype) \in ToSet(OTS) \cup {"CONVERT"}
         /\ IF ExpandAbbreviation(name, OTNAMES) = Null
            THEN OtypeFromName(name, otype) = otype
            ELSE OtypeFromName(name, otype) \in ToSet(OTS)
<1> DEFINE n == ExpandAbbreviation(name, OTNAMES)
           I == {i \in 1 .. Len(OTNAMES) : OTNAMES[i] = n}
           k == IF I # {} THEN Min(I) ELSE 0
<1>1. n \in ToSet(OTNAMES) \cup {Null}
  BY Expanded
<1>2. OtypeFromName(name, otype) = IF n = Null THEN otype ELSE OTS[k]
  BY DEF OtypeFromName, SelectInSeq
<1> HIDE DEF n
<1>3. DOMAIN OTNAMES = 1 .. Len(OTNAMES) /\ Len(OTNAMES) = 8 /\ DOMAIN OTS = 1 .. 8
  BY DEF OTNAMES, OTS
<1>4. ASSUME n # Null PROVE k \in 1 .. 8
  <2>1. PICK i \in 1 .. 8 : OTNAMES[i] = n
    BY <1>1, <1>3, <1>4 DEF ToSet
  <2>2. I \subseteq Int /\ I # {} /\ \A y \in I : 1 <= y
    BY <1>3, <2>1
  <2>3. Min(I) \in I
    BY <2>2, MinExists
  <2> QED BY <1>3, <2>2, <2>3
<1> HIDE DEF k
<1>5. n # Null => OTS[k] \in ToSet(OTS)
  BY <1>3, <1>4 DEF ToSet
<1> QED BY <1>2, <1>5 DEF n

LEMMA TypesOfOutput ==
  ToSet(OTS) = {"ALIASES", "ICONV", "DETAILS", "CANON", "HUMAN", "CS2CS", "MIME", "RFC1345"}
<1>1. DOMAIN OTS = 1 .. 8
  BY DEF OTS
<1>2. /\ OTS[1] = "ALIASES" /\ OTS[2] = "ICONV" /\ OTS[3] = "DETAILS"
      /\ OTS[4] = "CANON" /\ OTS[5] = "HUMAN" /\ OTS[6] = "CS2CS"
      /\ OTS[7] = "MIME" /\ OTS[8] = "RFC1345"
  BY DEF OTS
<1>3. ToSet(OTS) = {OTS[i] : i \in 1 .. 8}
  BY <1>1 DEF ToSet
<1>4. \A i \in 1 .. 8 : i = 1 \/ i = 2 \/ i = 3 \/ i = 4 \/ i = 5 \/ i = 6 \/ i = 7 \/ i = 8
  OBVIOUS
<1> HIDE DEF OTS
<1> QED BY <1>2, <1>3, <1>4

LEMMA ListNames ==
  ToSet(LISTS) = {"built-in-charsets", "converters", "charsets", "languages",
                  "lists", "names", "surfaces"}
<1>1. DOMAIN LISTS = 1 .. 7
  BY DEF LISTS
<1>2. /\ LISTS[1] = "built-in-charsets" /\ LISTS[2] = "converters"
      /\ LISTS[3] = "charsets" /\ LISTS[4] = "languages" /\ LISTS[5] = "lists"
      /\ LISTS[6] = "names" /\ LISTS[7] = "surfaces"
  BY DEF LISTS
<1>3. ToSet(LISTS) = {LISTS[i] : i \in 1 .. 7}
  BY <1>1 DEF ToSet
<1>4. \A i \in 1 .. 7 : i = 1 \/ i = 2 \/ i = 3 \/ i = 4 \/ i = 5 \/ i = 6 \/ i = 7
  OBVIOUS
<1> QED BY <1>2, <1>3, <1>4

(* Lists of converters hold names of converters, whatever is added.         *)
ConvNames == ToSet(ConverterNames)
Lists == [convs : Seq(ConvNames), nc : Nat]

LEMMA ConverterAdded ==
  ASSUME NEW convs \in Seq(ConvNames), NEW name
  PROVE  AddConverter(convs, name) \in [convs : Seq(ConvNames), added : {0, 1}]
<1> DEFINE cname == ExpandAbbreviation(name, ConverterNames)
<1>1. cname \in ConvNames \cup {Null}
  BY Expanded DEF ConvNames
<1>2. AddConverter(convs, name)
        = IF name = "none" THEN [convs |-> <<>>, added |-> 1]
          ELSE IF cname = Null THEN [convs |-> convs, added |-> 0]
          ELSE [convs |-> Append(convs, cname), added |-> 1]
  BY DEF AddConverter
<1> HIDE DEF cname, ConvNames
<1>3. cname # Null => Append(convs, cname) \in Seq(ConvNames)
  BY <1>1
<1>4. <<>> \in Seq(ConvNames)
  OBVIOUS
<1>5. CASE name = "none"
  BY <1>2, <1>4, <1>5
<1>6. CASE name # "none" /\ cname = Null
  BY <1>2, <1>6
<1>7. CASE name # "none" /\ cname # Null
  BY <1>2, <1>3, <1>7
<1> QED BY <1>5, <1>6, <1>7

AddedSteps(convs, n, list, P) ==
  LET q == Split(list, ",")
  IN /\ P[0] = [convs |-> convs, nc |-> n]
     /\ P[Len(q)] = AddParsedConverters(convs, n, list)
     /\ \A k \in 1 .. Len(q) :
          P[k] = [convs |-> AddConverter(P[k - 1].convs, q[k]).convs,
                  nc |-> P[k - 1].nc + AddConverter(P[k - 1].convs, q[k]).added]

LEMMA AddedRounds ==
  ASSUME NEW convs \in Seq(ConvNames), NEW n \in Nat, NEW list \in Word
  PROVE  \E P \in [0 .. Len(Split(list, ",")) -> Lists] : AddedSteps(convs, n, list, P)
<1> DEFINE X == Lists  q == Split(list, ",")  D == Word
           base == [convs |-> convs, nc |-> n]  l == Len(q)
           Next1(name, acc) == [convs |-> AddConverter(acc.convs, name).convs,
                                nc |-> acc.nc + AddConverter(acc.convs, name).added]
           Is(iter) ==
             iter = [z \in SUBSET DOMAIN q |->
                       IF z = {} THEN base ELSE Next1(q[Max(z)], iter[z \ {Max(z)}])]
           It == CHOOSE iter : Is(iter)
           H == [p \in D \X X |-> Next1(p[1], p[2])]
<1>1. AddParsedConverters(convs, n, list) = It[DOMAIN q]
  BY DEF AddParsedConverters, FoldLeft, MapThenFoldSet
<1>2. l \in Nat /\ DOMAIN q = 1 .. l /\ (\A i \in 1 .. l : q[i] \in D) /\ base \in X
  <2>1. q \in Seq(Word)
    BY SplitIsSeq
  <2> HIDE DEF q
  <2> QED BY <2>1 DEF Lists
<1>3. ASSUME NEW name \in D, NEW acc \in X PROVE Next1(name, acc) \in X
  <2>1. acc.convs \in Seq(ConvNames) /\ acc.nc \in Nat
    BY DEF Lists
  <2>2. AddConverter(acc.convs, name) \in [convs : Seq(ConvNames), added : {0, 1}]
    BY <2>1, ConverterAdded
  <2> QED BY <2>1, <2>2 DEF Lists
<1>4. H \in [D \X X -> X] /\ \A name \in D, acc \in X : H[<<name, acc>>] = Next1(name, acc)
  BY <1>3
<1> HIDE DEF H, X, q, base, Next1, l, D
<1>5. PICK f \in [SUBSET DOMAIN q -> X] : FoldingOver(q, base, H, f)
  BY <1>2, <1>4, FoldOverExists
<1>6. Is(f)
  <2>1. ASSUME NEW z \in SUBSET DOMAIN q
        PROVE  f[z] = IF z = {} THEN base ELSE Next1(q[Max(z)], f[z \ {Max(z)}])
    <3>1. f[z] = IF z = {} THEN base ELSE H[<<q[Max(z)], f[z \ {Max(z)}]>>]
      BY <1>5 DEF FoldingOver
    <3>2. z # {} => Max(z) \in DOMAIN q /\ z \ {Max(z)} \in SUBSET DOMAIN q
      BY <1>2, PlacesOf
    <3> QED BY <1>2, <1>4, <3>1, <3>2
  <2> QED BY <2>1
<1>7. Is(It)
  BY <1>6
<1>8. FoldedBy(q, base, H, X, It)
  <2> HIDE DEF It
  <2>1. \A z \in SUBSET DOMAIN q : z # {} => q[Max(z)] \in D
    BY <1>2, PlacesOf
  <2> QED BY <1>4, <1>7, <2>1 DEF FoldedBy
<1> HIDE DEF It
<1>9. PICK P \in [0 .. l -> X] : FoldRun(l, q, base, H, P, It[DOMAIN q])
  BY <1>2, <1>4, <1>8, FoldRounds
<1>10. ASSUME NEW k \in 1 .. l PROVE P[k] = Next1(q[k], P[k - 1])
  <2>1. q[k] \in D /\ P[k - 1] \in X
    BY <1>2
  <2> QED BY <1>4, <1>9, <2>1 DEF FoldRun
<1>11. /\ P[0] = base /\ P[l] = AddParsedConverters(convs, n, list)
       /\ \A k \in 1 .. l : P[k] = Next1(q[k], P[k - 1])
  BY <1>1, <1>9, <1>10 DEF FoldRun
<1>12. AddedSteps(convs, n, list, P)
  BY <1>11 DEF AddedSteps, base, Next1, l, q
<1> QED BY <1>12 DEF X, l, q

LEMMA ConvertersAdded ==
  ASSUME NEW convs \in Seq(ConvNames), NEW n \in Nat, NEW list \in Word
  PROVE  AddParsedConverters(convs, n, list) \in Lists
<1>1. \A t \in Seq(Word) : Len(t) \in Nat
  OBVIOUS
<1> DEFINE l == Len(Split(list, ","))
<1>2. PICK P \in [0 .. l -> Lists] : AddedSteps(convs, n, list, P)
  BY AddedRounds
<1>3. P[l] = AddParsedConverters(convs, n, list)
  BY <1>2 DEF AddedSteps
<1>4. l \in Nat
  BY <1>1, SplitIsSeq
<1> HIDE DEF l
<1> QED BY <1>2, <1>3, <1>4
-----------------------------------------------------------------------------
(* The scanner.  Skipped words lie before the next one, and that is one of   *)
(* the words or just behind them.                                           *)
Codes == Word \cup Letters \cup {"?", "end", "start"}
Scanners == [argv : Seq(Word), optind : Nat, first_nonopt : Nat, last_nonopt : Nat,
             nextchar : Word, optarg : Word, c : Codes]
InOrder(s) == /\ 1 <= s.first_nonopt /\ s.first_nonopt <= s.last_nonopt
              /\ s.last_nonopt <= s.optind /\ s.optind <= Len(s.argv) + 1
Inside(s) == s \in Scanners /\ InOrder(s)
Scanning(s) == Inside(s) /\ (s.nextchar # "" => s.optind <= Len(s.argv))

(* Swaps and rounds of exchange() stay within the words. *)
Argv(n) == [1 .. n -> Word]
Segments(n) == {s \in [argv : Argv(n), bottom : 1 .. n + 1, middle : 1 .. n + 1,
                       top : 1 .. n + 1] : s.bottom <= s.middle /\ s.middle <= s.top}

LEMMA Swapped ==
  ASSUME NEW n \in Nat, NEW a \in Argv(n), NEW i \in Nat, NEW j \in Nat, NEW len \in Nat,
         1 <= i, i + len <= n + 1, 1 <= j, j + len <= n + 1
  PROVE  Swap(a, i, j, len) \in Argv(n)
<1>1. DOMAIN a = 1 .. n
  BY DEF Argv
<1>2. ASSUME NEW k \in 1 .. n
      PROVE  (CASE k \in i .. i + len - 1 -> a[k - i + j]
                [] k \in j .. j + len - 1 -> a[k - j + i]
                [] OTHER -> a[k]) \in Word
  <2>1. CASE k \in i .. i + len - 1
    <3>1. k - i + j \in 1 .. n
      BY <2>1
    <3> QED BY <2>1, <3>1 DEF Argv
  <2>2. CASE k \notin i .. i + len - 1 /\ k \in j .. j + len - 1
    <3>1. k - j + i \in 1 .. n
      BY <2>2
    <3> QED BY <2>2, <3>1 DEF Argv
  <2>3. CASE k \notin i .. i + len - 1 /\ k \notin j .. j + len - 1
    BY <2>3 DEF Argv
  <2> QED BY <2>1, <2>2, <2>3
<1> QED BY <1>1, <1>2 DEF Swap, Argv

LEMMA RoundKeeps ==
  ASSUME NEW n \in Nat, NEW s \in Segments(n)
  PROVE  ExchangeRound(s) \in Segments(n)
<1> DEFINE below == s.middle - s.bottom
           above == s.top - s.middle
<1>1. /\ s \in [argv : Argv(n), bottom : 1 .. n + 1, middle : 1 .. n + 1, top : 1 .. n + 1]
      /\ s.bottom <= s.middle /\ s.middle <= s.top
      /\ s.argv \in Argv(n) /\ s.bottom \in 1 .. n + 1 /\ s.middle \in 1 .. n + 1
      /\ s.top \in 1 .. n + 1
  BY DEF Segments
<1>2. below \in Int /\ above \in Int
  BY <1>1
<1>3. CASE above <= 0 \/ below <= 0
  BY <1>3 DEF ExchangeRound
<1>4. CASE above > 0 /\ below > 0 /\ above > below
  <2> DEFINE a == Swap(s.argv, s.bottom, s.top - below, below)  t == s.top - below
  <2>1. below \in Nat /\ s.bottom \in Nat /\ 1 <= s.bottom /\ s.bottom + below <= n + 1
        /\ t \in Nat /\ 1 <= t /\ t + below <= n + 1 /\ t \in 1 .. n + 1 /\ s.middle <= t
    BY <1>1, <1>4
  <2>2. a \in Argv(n)
    <3> HIDE DEF below, t
    <3> QED BY <1>1, <2>1, Swapped DEF t
  <2>3. ExchangeRound(s) = [s EXCEPT !.argv = a, !.top = t]
    BY <1>2, <1>4 DEF ExchangeRound
  <2> HIDE DEF a, t
  <2> QED BY <1>1, <2>1, <2>2, <2>3 DEF Segments
<1>5. CASE above > 0 /\ below > 0 /\ ~(above > below)
  <2> DEFINE a == Swap(s.argv, s.bottom, s.middle, above)  b == s.bottom + above
  <2>1. above \in Nat /\ s.bottom \in Nat /\ 1 <= s.bottom /\ s.bottom + above <= n + 1
        /\ s.middle \in Nat /\ 1 <= s.middle /\ s.middle + above <= n + 1
        /\ b \in 1 .. n + 1 /\ b <= s.middle
    BY <1>1, <1>5
  <2>2. a \in Argv(n)
    <3> HIDE DEF above
    <3> QED BY <1>1, <2>1, Swapped
  <2>3. ExchangeRound(s) = [s EXCEPT !.argv = a, !.bottom = b]
    BY <1>2, <1>5 DEF ExchangeRound
  <2> HIDE DEF a, b
  <2> QED BY <1>1, <2>1, <2>2, <2>3 DEF Segments
<1> QED BY <1>2, <1>3, <1>4, <1>5

AfterRounds(base, l) ==
  FoldLeft(LAMBDA s, i : ExchangeRound(s), base, [i \in 1 .. l |-> i])

LEMMA RoundsKeep ==
  ASSUME NEW n \in Nat, NEW base \in Segments(n), NEW l \in Nat
  PROVE  AfterRounds(base, l) \in Segments(n)
<1> DEFINE X == Segments(n)  q == [i \in 1 .. l |-> i]  D == 1 .. l
           Next1(i, s) == ExchangeRound(s)
           Is(iter) ==
             iter = [z \in SUBSET DOMAIN q |->
                       IF z = {} THEN base ELSE Next1(q[Max(z)], iter[z \ {Max(z)}])]
           It == CHOOSE iter : Is(iter)
           H == [p \in D \X X |-> Next1(p[1], p[2])]
<1>1. AfterRounds(base, l) = It[DOMAIN q]
  BY DEF AfterRounds, FoldLeft, MapThenFoldSet
<1>2. l \in Nat /\ DOMAIN q = 1 .. l /\ (\A i \in 1 .. l : q[i] \in D) /\ base \in X
  OBVIOUS
<1>3. ASSUME NEW i \in D, NEW s \in X PROVE Next1(i, s) \in X
  BY RoundKeeps
<1>4. H \in [D \X X -> X] /\ \A i \in D, s \in X : H[<<i, s>>] = Next1(i, s)
  BY <1>3
<1> HIDE DEF H, X, q, Next1, D
<1>5. PICK f \in [SUBSET DOMAIN q -> X] : FoldingOver(q, base, H, f)
  BY <1>2, <1>4, FoldOverExists
<1>6. Is(f)
  <2>1. ASSUME NEW z \in SUBSET DOMAIN q
        PROVE  f[z] = IF z = {} THEN base ELSE Next1(q[Max(z)], f[z \ {Max(z)}])
    <3>1. f[z] = IF z = {} THEN base ELSE H[<<q[Max(z)], f[z \ {Max(z)}]>>]
      BY <1>5 DEF FoldingOver
    <3>2. z # {} => Max(z) \in DOMAIN q /\ z \ {Max(z)} \in SUBSET DOMAIN q
      BY <1>2, PlacesOf
    <3> QED BY <1>2, <1>4, <3>1, <3>2
  <2> QED BY <2>1
<1>7. Is(It)
  BY <1>6
<1>8. FoldedBy(q, base, H, X, It)
  <2> HIDE DEF It
  <2>1. \A z \in SUBSET DOMAIN q : z # {} => q[Max(z)] \in D
    BY <1>2, PlacesOf
  <2> QED BY <1>4, <1>7, <2>1 DEF FoldedBy
<1> HIDE DEF It
<1>9. PICK P \in [0 .. l -> X] : FoldRun(l, q, base, H, P, It[DOMAIN q])
  BY <1>2, <1>4, <1>8, FoldRounds
<1>10. l \in 0 .. l
  BY <1>2
<1> QED BY <1>1, <1>9, <1>10 DEF FoldRun, X, q

\* What exchange() makes of s, and of the counters.
Exchanged(s, h) ==
  /\ h \in Scanners /\ Len(h.argv) = Len(s.argv)
  /\ h.first_nonopt = s.first_nonopt + s.optind - s.last_nonopt
  /\ h.last_nonopt = s.optind /\ h.optind = s.optind
  /\ h.nextchar = s.nextchar /\ h.optarg = s.optarg /\ h.c = s.c

LEMMA ExchangeMoves ==
  ASSUME NEW s, Inside(s)
  PROVE  Exchanged(s, Exchange(s))
<1> DEFINE n == Len(s.argv)
           start == [argv |-> s.argv, bottom |-> s.first_nonopt,
                     middle |-> s.last_nonopt, top |-> s.optind]
           l == s.optind - s.first_nonopt
           f == s.first_nonopt + s.optind - s.last_nonopt
           a == AfterRounds(start, l).argv
<1>1. /\ s \in Scanners /\ s.argv \in Seq(Word) /\ n \in Nat /\ s.first_nonopt \in Nat
      /\ s.last_nonopt \in Nat /\ s.optind \in Nat
  BY DEF Inside, Scanners
<1>2. /\ 1 <= s.first_nonopt /\ s.first_nonopt <= s.last_nonopt
      /\ s.last_nonopt <= s.optind /\ s.optind <= n + 1
  BY DEF Inside, InOrder
<1>3. Exchange(s) = [s EXCEPT !.argv = a, !.first_nonopt = f, !.last_nonopt = s.optind]
  <2>1. Exchange(s) = [s EXCEPT !.argv = a,
                                !.first_nonopt = @ + s.optind - s.last_nonopt,
                                !.last_nonopt = s.optind]
    BY DEF Exchange, AfterRounds, FoldLeft, MapThenFoldSet
  <2> HIDE DEF a
  <2> QED BY <1>1, <2>1
<1>4. s.argv \in Argv(n)
  BY <1>1 DEF Argv
<1>5. s.first_nonopt \in 1 .. n + 1 /\ s.last_nonopt \in 1 .. n + 1 /\ s.optind \in 1 .. n + 1
  BY <1>1, <1>2
<1>6. start \in Segments(n)
  <2> HIDE DEF n
  <2> QED BY <1>2, <1>4, <1>5 DEF Segments
<1>7. l \in Nat /\ f \in Nat
  BY <1>1, <1>2
<1>8. AfterRounds(start, l) \in Segments(n)
  <2> HIDE DEF start, l, n
  <2> QED BY <1>1, <1>6, <1>7, RoundsKeep
<1>9. a \in Argv(n)
  <2> HIDE DEF start, l, n
  <2> QED BY <1>8 DEF Segments
<1> HIDE DEF a, f
<1>10. a \in Seq(Word) /\ Len(a) = n
  BY <1>1, <1>9 DEF Argv
<1> HIDE DEF n, l, start
<1>11. Exchange(s) \in Scanners /\ Exchange(s).argv = a /\ Exchange(s).first_nonopt = f
       /\ Exchange(s).last_nonopt = s.optind /\ Exchange(s).optind = s.optind
       /\ Exchange(s).nextchar = s.nextchar /\ Exchange(s).optarg = s.optarg
       /\ Exchange(s).c = s.c
  BY <1>1, <1>3, <1>7, <1>10 DEF Scanners
<1> QED BY <1>10, <1>11 DEF Exchanged, f, n

LEMMA ExchangeStaysInside ==
  ASSUME NEW s, Inside(s), NEW h, Exchanged(s, h)
  PROVE  Inside(h) /\ h.optind = s.optind /\ h.last_nonopt = s.optind
         /\ Len(h.argv) = Len(s.argv)
<1>1. /\ s.argv \in Seq(Word) /\ s.first_nonopt \in Nat
      /\ s.last_nonopt \in Nat /\ s.optind \in Nat
  BY DEF Inside, Scanners
<1> QED BY <1>1 DEF Inside, InOrder, Exchanged

(* Words that are no options are skipped up to the first that is, or to the *)
(* end.                                                                     *)
LEMMA SkipStaysInside ==
  ASSUME NEW s, Inside(s)
  PROVE  Inside(SkipNonOptions(s)) /\ SkipNonOptions(s).nextchar = s.nextchar
<1> DEFINE n == Len(s.argv)
           moved == IF s.last_nonopt = s.optind THEN s
                    ELSE IF s.first_nonopt # s.last_nonopt THEN Exchange(s)
                    ELSE [s EXCEPT !.first_nonopt = s.optind]
           next == CHOOSE i \in s.optind .. n + 1 :
                     /\ \A j \in s.optind .. i - 1 : NonOption(moved.argv[j])
                     /\ i <= n => ~NonOption(moved.argv[i])
<1>1. /\ s \in Scanners /\ s.argv \in Seq(Word) /\ n \in Nat /\ s.first_nonopt \in Nat
      /\ s.last_nonopt \in Nat /\ s.optind \in Nat
  BY DEF Inside, Scanners
<1>2. /\ 1 <= s.first_nonopt /\ s.first_nonopt <= s.last_nonopt
      /\ s.last_nonopt <= s.optind /\ s.optind <= n + 1
  BY DEF Inside, InOrder
<1>3. SkipNonOptions(s) = [moved EXCEPT !.optind = next, !.last_nonopt = next]
  BY DEF SkipNonOptions
<1>4. /\ moved \in Scanners /\ Len(moved.argv) = n /\ moved.nextchar = s.nextchar
      /\ moved.first_nonopt \in Nat /\ 1 <= moved.first_nonopt
      /\ moved.first_nonopt <= s.optind
  <2>1. CASE s.last_nonopt = s.optind
    BY <1>1, <1>2, <2>1
  <2>2. CASE s.last_nonopt # s.optind /\ s.first_nonopt # s.last_nonopt
    <3>1. Exchanged(s, Exchange(s))
      BY ExchangeMoves
    <3>2. moved = Exchange(s)
      BY <2>2
    <3> HIDE DEF moved
    <3> QED BY <1>1, <1>2, <3>1, <3>2 DEF Exchanged
  <2>3. CASE s.last_nonopt # s.optind /\ s.first_nonopt = s.last_nonopt
    <3>1. moved = [s EXCEPT !.first_nonopt = s.optind]
      BY <2>3
    <3> HIDE DEF moved
    <3> QED BY <1>1, <1>2, <3>1 DEF Scanners
  <2> QED BY <2>1, <2>2, <2>3
<1> HIDE DEF moved
<1> DEFINE S == {i \in s.optind .. n + 1 : i <= n => ~NonOption(moved.argv[i])}
<1>5. S \subseteq Int /\ (\A y \in S : 1 <= y) /\ n + 1 \in S
  BY <1>1, <1>2
<1> DEFINE m == Min(S)
<1>6. m \in S /\ \A y \in S : m <= y
  <2> HIDE DEF S
  <2>1. 1 \in Int /\ S # {}
    BY <1>5
  <2> QED BY <1>5, <2>1, MinExists
<1> HIDE DEF m
<1>7. m \in s.optind .. n + 1 /\ (m <= n => ~NonOption(moved.argv[m]))
  BY <1>6
<1>8. \A j \in s.optind .. m - 1 : NonOption(moved.argv[j])
  <2> SUFFICES ASSUME NEW j \in s.optind .. m - 1, ~NonOption(moved.argv[j]) PROVE FALSE
    OBVIOUS
  <2>1. j \in s.optind .. n + 1 /\ j < m
    BY <1>1, <1>7
  <2>2. m <= j
    BY <1>6, <2>1
  <2> QED BY <1>1, <1>7, <2>1, <2>2
<1>9. next \in s.optind .. n + 1
  BY <1>7, <1>8
<1> HIDE DEF next, S
<1>10. next \in Nat /\ s.optind <= next /\ next <= n + 1
  BY <1>1, <1>9
<1>11. /\ SkipNonOptions(s) \in Scanners /\ SkipNonOptions(s).optind = next
       /\ SkipNonOptions(s).last_nonopt = next
       /\ SkipNonOptions(s).first_nonopt = moved.first_nonopt
       /\ SkipNonOptions(s).nextchar = moved.nextchar
       /\ SkipNonOptions(s).argv = moved.argv
  BY <1>3, <1>4, <1>10 DEF Scanners
<1> QED BY <1>1, <1>4, <1>10, <1>11 DEF Inside, InOrder

LEMMA EndStaysInside ==
  ASSUME NEW s, Inside(s)
  PROVE  Inside(EndOfOptions(s)) /\ EndOfOptions(s).nextchar = s.nextchar
<1> DEFINE n == Len(s.argv)
           a == [s EXCEPT !.optind = s.optind + 1]
           moved == IF a.first_nonopt # a.last_nonopt THEN Exchange(a)
                    ELSE [a EXCEPT !.first_nonopt = a.optind]
<1>1. /\ s \in Scanners /\ s.argv \in Seq(Word) /\ n \in Nat /\ s.first_nonopt \in Nat
      /\ s.last_nonopt \in Nat /\ s.optind \in Nat
  BY DEF Inside, Scanners
<1>2. /\ 1 <= s.first_nonopt /\ s.first_nonopt <= s.last_nonopt
      /\ s.last_nonopt <= s.optind /\ s.optind <= n + 1
  BY DEF Inside, InOrder
<1>3. CASE AtEnd(s) \/ s.argv[s.optind] # "--"
  BY <1>3 DEF EndOfOptions
<1>4. CASE ~AtEnd(s) /\ s.argv[s.optind] = "--"
  <2>1. EndOfOptions(s) = [moved EXCEPT !.last_nonopt = n + 1, !.optind = n + 1]
    BY <1>1, <1>4 DEF EndOfOptions
  <2>2. a \in Scanners /\ a.optind = s.optind + 1 /\ a.argv = s.argv
        /\ a.first_nonopt = s.first_nonopt /\ a.last_nonopt = s.last_nonopt
        /\ a.nextchar = s.nextchar
    BY <1>1 DEF Scanners
  <2>3. s.optind <= n
    BY <1>1, <1>2, <1>4 DEF AtEnd
  <2> HIDE DEF a
  <2>4. Inside(a)
    BY <1>1, <1>2, <2>2, <2>3 DEF Inside, InOrder
  <2>5. /\ moved \in Scanners /\ Len(moved.argv) = n /\ moved.nextchar = s.nextchar
        /\ moved.first_nonopt \in Nat /\ 1 <= moved.first_nonopt
        /\ moved.first_nonopt <= n + 1
    <3>1. CASE a.first_nonopt # a.last_nonopt
      <4>1. Exchanged(a, Exchange(a)) /\ moved = Exchange(a)
        BY <2>4, <3>1, ExchangeMoves
      <4> HIDE DEF moved
      <4> QED BY <1>1, <1>2, <2>2, <2>3, <4>1 DEF Exchanged
    <3>2. CASE a.first_nonopt = a.last_nonopt
      <4>1. moved = [a EXCEPT !.first_nonopt = a.optind]
        BY <3>2
      <4> HIDE DEF moved
      <4> QED BY <1>1, <1>2, <2>2, <2>3, <4>1 DEF Scanners
    <3> QED BY <3>1, <3>2
  <2> HIDE DEF moved
  <2>6. n + 1 \in Nat
    BY <1>1
  <2>7. /\ EndOfOptions(s) \in Scanners /\ EndOfOptions(s).optind = n + 1
        /\ EndOfOptions(s).last_nonopt = n + 1
        /\ EndOfOptions(s).first_nonopt = moved.first_nonopt
        /\ EndOfOptions(s).nextchar = moved.nextchar
        /\ EndOfOptions(s).argv = moved.argv
    BY <2>1, <2>5, <2>6 DEF Scanners
  <2> QED BY <1>1, <2>5, <2>6, <2>7 DEF Inside, InOrder
<1> QED BY <1>3, <1>4

(* The next one moves on, the words stay. *)
LEMMA StaysInside ==
  ASSUME NEW s, Inside(s), NEW h \in Scanners, h.argv = s.argv,
         h.first_nonopt = s.first_nonopt, h.last_nonopt = s.last_nonopt,
         s.optind <= h.optind, h.optind <= Len(s.argv) + 1
  PROVE  Inside(h)
<1>1. s.argv \in Seq(Word) /\ s.first_nonopt \in Nat /\ s.last_nonopt \in Nat
      /\ s.optind \in Nat /\ h.optind \in Nat
  BY DEF Inside, Scanners
<1> QED BY <1>1 DEF Inside, InOrder

\* What a call returns before the options end.
Returns(h) == Scanning(h) /\ h.c \in Letters \cup {"?"}

LEMMA TakesNext ==
  ASSUME NEW s, Inside(s), NEW val \in Letters
  PROVE  Returns(TakeNext(s, val))
<1> DEFINE n == Len(s.argv)  h == TakeNext(s, val)
<1>1. /\ s \in Scanners /\ s.argv \in Seq(Word) /\ n \in Nat /\ s.optind \in Nat
      /\ 1 <= s.optind /\ s.optind <= n + 1
  BY DEF Inside, InOrder, Scanners
<1>2. "" \in Word
  BY WordsAssumption
<1>3. CASE AtEnd(s)
  <2>1. h = [s EXCEPT !.c = "?", !.nextchar = ""]
    BY <1>3 DEF TakeNext
  <2> HIDE DEF h
  <2>2. h \in Scanners /\ h.argv = s.argv /\ h.first_nonopt = s.first_nonopt
        /\ h.last_nonopt = s.last_nonopt /\ h.optind = s.optind
    BY <1>1, <1>2, <2>1 DEF Scanners, Codes
  <2>c. h.c = "?" /\ h.nextchar = ""
    BY <1>1, <2>1 DEF Scanners
  <2>3. s.optind <= h.optind /\ h.optind <= Len(s.argv) + 1
    BY <1>1, <2>2
  <2>4. Inside(h)
    BY <2>2, <2>3, StaysInside
  <2> QED BY <2>c, <2>4 DEF Returns, Scanning, h
<1>4. CASE ~AtEnd(s)
  <2>1. h = [s EXCEPT !.c = val, !.nextchar = "", !.optarg = s.argv[s.optind],
                      !.optind = s.optind + 1]
    BY <1>1, <1>4 DEF TakeNext, Scanners
  <2>2. s.optind <= n /\ s.optind + 1 \in Nat /\ s.optind <= s.optind + 1
        /\ s.optind + 1 <= n + 1
    BY <1>1, <1>4 DEF AtEnd
  <2>3. s.argv[s.optind] \in Word
    BY <1>1, <2>2
  <2> HIDE DEF h
  <2>4. h \in Scanners /\ h.argv = s.argv /\ h.first_nonopt = s.first_nonopt
        /\ h.last_nonopt = s.last_nonopt /\ h.optind = s.optind + 1 /\ h.c = val
        /\ h.nextchar = ""
    BY <1>1, <1>2, <2>1, <2>2, <2>3 DEF Scanners, Codes
  <2>5. Inside(h)
    BY <1>1, <2>2, <2>4, StaysInside
  <2> QED BY <2>4, <2>5 DEF Returns, Scanning, h
<1> QED BY <1>3, <1>4

LEMMA ShortReturns ==
  ASSUME NEW s, Inside(s), s.optind <= Len(s.argv), NEW text \in Word,
         From(text, 2) \in Word
  PROVE  Returns(ShortOption(s, text))
<1> DEFINE n == Len(s.argv)  ch == First(text)  behind == From(text, 2)
           o == IF behind = "" THEN s.optind + 1 ELSE s.optind
           past == [s EXCEPT !.optind = o, !.nextchar = behind, !.c = ch]
           h == ShortOption(s, text)
<1>1. /\ s \in Scanners /\ s.argv \in Seq(Word) /\ n \in Nat /\ s.optind \in Nat
      /\ 1 <= s.optind /\ s.optind <= n
  BY DEF Inside, InOrder, Scanners
<1>2. "" \in Word
  BY WordsAssumption
<1>3. ch \in Word
  BY WordParts DEF First
<1>4. h = IF ch \notin Letters THEN [past EXCEPT !.c = "?"]
          ELSE IF ch \notin WithArgument THEN past
          ELSE IF behind # ""
               THEN [past EXCEPT !.optarg = behind, !.nextchar = "", !.optind = past.optind + 1]
          ELSE TakeNext(past, ch)
  <2>1. h = IF ch \notin Letters THEN [past EXCEPT !.c = "?"]
            ELSE IF ch \notin WithArgument THEN past
            ELSE IF behind # ""
                 THEN [past EXCEPT !.optarg = behind, !.nextchar = "", !.optind = @ + 1]
            ELSE TakeNext(past, ch)
    BY <1>1 DEF ShortOption, Scanners
  <2>2. past.optind = o
    BY <1>1 DEF Scanners
  <2> HIDE DEF h, past, ch, behind, o
  <2>3. [past EXCEPT !.optarg = behind, !.nextchar = "", !.optind = @ + 1]
          = [past EXCEPT !.optarg = behind, !.nextchar = "", !.optind = past.optind + 1]
    OBVIOUS
  <2> QED BY <2>1, <2>3
<1>b. behind \in Word
  OBVIOUS
<1> HIDE DEF behind
<1>5. o \in Nat /\ s.optind <= o /\ o <= n + 1
  <2>1. o = s.optind \/ o = s.optind + 1
    OBVIOUS
  <2> HIDE DEF o
  <2> QED BY <1>1, <2>1
<1>d. behind # "" => o = s.optind
  OBVIOUS
<1> HIDE DEF h, o, ch
<1>6. past \in Scanners /\ past.argv = s.argv /\ past.first_nonopt = s.first_nonopt
      /\ past.last_nonopt = s.last_nonopt /\ past.optind = o
  BY <1>1, <1>3, <1>b, <1>5 DEF Scanners, Codes
<1>c. past.c = ch /\ past.nextchar = behind
  BY <1>1 DEF Scanners
<1> HIDE DEF past
<1>7. Inside(past)
  BY <1>1, <1>5, <1>6, StaysInside
<1>8. Scanning(past)
  <2>1. past.nextchar # "" => past.optind = s.optind
    BY <1>d, <1>6, <1>c
  <2> QED BY <1>1, <1>6, <1>7, <2>1 DEF Scanning
<1>9. ASSUME ch \notin Letters PROVE Returns(h)
  <2>1. h = [past EXCEPT !.c = "?"]
    BY <1>4, <1>9
  <2>2. h \in Scanners /\ h.argv = past.argv /\ h.first_nonopt = past.first_nonopt
        /\ h.last_nonopt = past.last_nonopt /\ h.optind = past.optind
        /\ h.nextchar = past.nextchar
    BY <1>6, <2>1 DEF Scanners, Codes
  <2>c. h.c = "?"
    BY <1>6, <2>1 DEF Scanners
  <2>3. past.optind <= h.optind /\ h.optind <= Len(past.argv) + 1
    BY <1>1, <1>5, <1>6, <2>2
  <2>4. Inside(h)
    BY <1>7, <2>2, <2>3, StaysInside
  <2>5. Scanning(h)
    BY <1>8, <2>2, <2>4 DEF Scanning
  <2> QED BY <2>c, <2>5 DEF Returns
<1>10. ASSUME ch \in Letters /\ ch \notin WithArgument PROVE Returns(h)
  <2>1. h = past
    BY <1>4, <1>10
  <2>2. past.c = ch
    BY <1>c
  <2> QED BY <1>8, <1>10, <2>1, <2>2 DEF Returns
<1>11. ASSUME ch \in Letters /\ ch \in WithArgument /\ behind # "" PROVE Returns(h)
  <2>1. h = [past EXCEPT !.optarg = behind, !.nextchar = "", !.optind = past.optind + 1]
    BY <1>4, <1>11
  <2>2. past.optind + 1 \in Nat /\ past.optind <= past.optind + 1
        /\ past.optind + 1 <= Len(past.argv) + 1
    <3>1. past.optind = s.optind
      BY <1>d, <1>6, <1>11
    <3> QED BY <1>1, <1>6, <3>1
  <2>3. h \in Scanners /\ h.argv = past.argv /\ h.first_nonopt = past.first_nonopt
        /\ h.last_nonopt = past.last_nonopt /\ h.optind = past.optind + 1
    <3> DEFINE k == past.optind + 1  e == ""
    <3>1. k \in Nat /\ e \in Word
      BY <1>2, <2>2
    <3>2. h = [past EXCEPT !.optarg = behind, !.nextchar = e, !.optind = k]
      BY <2>1
    <3>k. k = past.optind + 1
      OBVIOUS
    <3> HIDE DEF k, e
    <3>3. h \in Scanners /\ h.argv = past.argv /\ h.first_nonopt = past.first_nonopt
          /\ h.last_nonopt = past.last_nonopt /\ h.optind = k
      BY <1>b, <1>6, <3>1, <3>2 DEF Scanners
    <3> QED BY <3>k, <3>3
  <2>c. h.c = ch /\ h.nextchar = ""
    <3>1. h.c = past.c /\ h.nextchar = ""
      BY <1>6, <2>1 DEF Scanners
    <3> QED BY <1>c, <3>1
  <2>t. past.optind <= h.optind /\ h.optind <= Len(past.argv) + 1
    BY <2>2, <2>3
  <2>4. Inside(h)
    BY <1>7, <2>3, <2>t, StaysInside
  <2> QED BY <1>11, <2>c, <2>4 DEF Returns, Scanning
<1>12. ASSUME ch \in Letters /\ ch \in WithArgument /\ behind = "" PROVE Returns(h)
  BY <1>4, <1>7, <1>12, TakesNext
<1> QED BY <1>9, <1>10, <1>11, <1>12 DEF h

(* The table of long options. *)
LEMMA LongOptionsTyped ==
  ASSUME NEW o \in LongOptions
  PROVE  o.val \in Letters
<1>1. DOMAIN LongName \subseteq Letters
  BY DEF LongName, Letters
<1>2. PICK l \in DOMAIN LongName :
        o = [name |-> LongName[l], has_arg |-> l \in WithArgument, val |-> l]
  BY DEF LongOptions
<1> HIDE DEF LongName, Letters
<1> QED BY <1>1, <1>2

NothingLeft(s) == s.nextchar = ""

LEMMA LongReturns ==
  ASSUME NEW s, Inside(s), s.optind <= Len(s.argv), NothingLeft(s),
         From(s.argv[s.optind], 3) \in Word
  PROVE  Returns(LongOption(s))
<1> DEFINE n == Len(s.argv)
           text == From(s.argv[s.optind], 3)
           eq == Place(text, "=")
           name == SubSeq(text, 1, eq - 1)
           exact == {o \in LongOptions : o.name = name}
           partial == {o \in LongOptions : StartsWith(o.name, name)}
           found == IF exact # {} THEN exact ELSE partial
           option == CHOOSE o \in found : TRUE
           next == s.optind + 1
           past == [s EXCEPT !.optind = next]
           h == LongOption(s)
           Given(a) == [past EXCEPT !.c = option.val, !.optarg = a]
<1>1. /\ s \in Scanners /\ s.argv \in Seq(Word) /\ n \in Nat /\ s.optind \in Nat
      /\ 1 <= s.optind /\ s.optind <= n
  BY DEF Inside, InOrder, Scanners
<1>2. "" \in Word
  BY WordsAssumption
<1>3. next \in Nat /\ s.optind <= next /\ next <= n + 1
  BY <1>1
<1>4. h = IF \A o \in LongOptions : found # {o}
          THEN [s EXCEPT !.c = "?", !.nextchar = "", !.optind = next]
          ELSE IF eq <= Len(text)
               THEN IF option.has_arg THEN Given(From(text, eq + 1))
                    ELSE [past EXCEPT !.c = "?"]
          ELSE IF option.has_arg THEN TakeNext(past, option.val)
          ELSE [past EXCEPT !.c = option.val]
  BY <1>1 DEF LongOption, Unknown
<1>5. ASSUME NEW o \in LongOptions, found = {o} PROVE option.val \in Letters
  <2>1. option = o
    BY <1>5
  <2> QED BY <2>1, LongOptionsTyped
<1>6. eq <= Len(text) => From(text, eq + 1) \in Word
  <2>1. text \in Word
    OBVIOUS
  <2> HIDE DEF text
  <2>2. Len(text) \in Nat /\ \A i \in 1 .. Len(text) + 2, j \in 0 .. Len(text) :
                               SubSeq(text, i, j) \in Word
    BY <2>1, WordParts
  <2> DEFINE z == Len(text)
  <2>z. z \in Nat /\ z = Len(text)
    BY <2>2
  <2> HIDE DEF z
  <2>3. eq \in 1 .. z + 1
    BY <2>z, PlaceFound
  <2> HIDE DEF eq
  <2>4. eq + 1 \in 1 .. Len(text) + 2 /\ Len(text) \in 0 .. Len(text)
    BY <2>z, <2>3
  <2> QED BY <2>2, <2>4 DEF From
<1> HIDE DEF h, text, eq, exact, partial, found, option, name, next
<1>7. past \in Scanners /\ past.argv = s.argv /\ past.first_nonopt = s.first_nonopt
      /\ past.last_nonopt = s.last_nonopt /\ past.optind = next
  BY <1>1, <1>3 DEF Scanners
<1>8. past.nextchar = ""
  BY <1>1 DEF Scanners, NothingLeft
<1> HIDE DEF past
<1>9. Inside(past)
  BY <1>1, <1>3, <1>7, StaysInside
<1>10. ASSUME NEW a \in Word, NEW l \in Letters \cup {"?"}, NEW k,
              k = [past EXCEPT !.c = l, !.optarg = a]
       PROVE  Returns(k)
  <2>1. k \in Scanners /\ k.argv = past.argv /\ k.first_nonopt = past.first_nonopt
        /\ k.last_nonopt = past.last_nonopt /\ k.optind = past.optind
    BY <1>7, <1>10 DEF Scanners, Codes
  <2>2. k.c = l /\ k.nextchar = past.nextchar
    BY <1>7, <1>10 DEF Scanners
  <2>3. past.optind <= k.optind /\ k.optind <= Len(past.argv) + 1
    BY <1>1, <1>3, <1>7, <2>1
  <2>4. Inside(k)
    BY <1>9, <2>1, <2>3, StaysInside
  <2> QED BY <1>8, <2>2, <2>4 DEF Returns, Scanning
<1>11. ASSUME NEW l \in Letters \cup {"?"}, NEW k, k = [past EXCEPT !.c = l]
       PROVE  Returns(k)
  <2>1. k = [past EXCEPT !.c = l, !.optarg = past.optarg] /\ past.optarg \in Word
    BY <1>7, <1>11 DEF Scanners
  <2> QED BY <1>10, <2>1
<1>12. "?" \in Letters \cup {"?"}
  OBVIOUS
<1>13. CASE \A o \in LongOptions : found # {o}
  <2> DEFINE k == [s EXCEPT !.c = "?", !.nextchar = "", !.optind = next]
  <2> DEFINE e == ""  w == "?"
  <2>0. s.nextchar = e
    BY DEF NothingLeft
  <2>1. k = [past EXCEPT !.c = "?"]
    <3>1. k = [s EXCEPT !.c = w, !.nextchar = e, !.optind = next]
      OBVIOUS
    <3> HIDE DEF k, e, w
    <3>2. k = [past EXCEPT !.c = w]
      BY <1>1, <2>0, <3>1 DEF Scanners, past
    <3> QED BY <3>2 DEF w
  <2> HIDE DEF k
  <2>2. Returns(k)
    BY <1>11, <1>12, <2>1
  <2> QED BY <1>4, <1>13, <2>2 DEF h, k
<1>14. ASSUME NEW o \in LongOptions, found = {o} PROVE Returns(h)
  <2>1. option.val \in Letters
    BY <1>5, <1>14
  <2>2. CASE eq <= Len(text) /\ option.has_arg
    <3>1. h = Given(From(text, eq + 1))
      BY <1>4, <1>14, <2>2
    <3> QED BY <1>6, <1>10, <2>1, <2>2, <3>1
  <2>3. CASE eq <= Len(text) /\ ~option.has_arg
    <3>1. h = [past EXCEPT !.c = "?"]
      BY <1>4, <1>14, <2>3
    <3> QED BY <1>11, <1>12, <3>1
  <2>4. CASE ~(eq <= Len(text)) /\ option.has_arg
    <3>1. h = TakeNext(past, option.val)
      BY <1>4, <1>14, <2>4
    <3> QED BY <1>9, <2>1, <3>1, TakesNext
  <2>5. CASE ~(eq <= Len(text)) /\ ~option.has_arg
    <3>1. h = [past EXCEPT !.c = option.val]
      BY <1>4, <1>14, <2>5
    <3> QED BY <1>11, <2>1, <3>1
  <2> QED BY <2>2, <2>3, <2>4, <2>5
<1> QED BY <1>13, <1>14 DEF h

LEMMA OptionWord ==
  ASSUME NEW w \in Word
  PROVE  From(w, 2) \in Word /\ (~NonOption(w) => From(w, 3) \in Word)
<1> DEFINE n == Len(w)
<1>1. n \in Nat /\ \A i \in 1 .. n + 2, j \in 0 .. n : SubSeq(w, i, j) \in Word
  BY WordParts
<1>2. ~NonOption(w) => 1 \in 1 .. n
  BY DEF NonOption, First, At
<1>3. From(w, 2) = SubSeq(w, 2, n) /\ From(w, 3) = SubSeq(w, 3, n)
  BY DEF From
<1> HIDE DEF n
<1>4. 2 \in 1 .. n + 2 /\ n \in 0 .. n /\ (1 \in 1 .. n => 3 \in 1 .. n + 2)
  BY <1>1
<1> QED BY <1>1, <1>2, <1>3, <1>4

(* A call returns an option or ends the options, and until then the next     *)
(* word is one of the words or just behind them.                            *)
LEMMA GetoptReturns ==
  ASSUME NEW s, Scanning(s), NEW posix
  PROVE  GetoptLong(s, posix).c = "end" \/ Returns(GetoptLong(s, posix))
<1> DEFINE clean == [s EXCEPT !.optarg = ""]
           skipped == IF posix THEN clean ELSE SkipNonOptions(clean)
           next == EndOfOptions(skipped)
           word == next.argv[next.optind]
           h == GetoptLong(s, posix)
<1>1. h = CASE s.nextchar # "" -> ShortOption(clean, s.nextchar)
            [] s.nextchar = "" /\ AtEnd(next) -> BackOver(next)
            [] s.nextchar = "" /\ ~AtEnd(next) /\ NonOption(word)
                 -> [next EXCEPT !.c = "end"]
            [] s.nextchar = "" /\ ~AtEnd(next) /\ ~NonOption(word)
                 -> IF StartsWith(word, "--") THEN LongOption(next)
                    ELSE ShortOption(next, From(word, 2))
  BY DEF GetoptLong
<1>2. s \in Scanners /\ Inside(s) /\ s.nextchar \in Word
      /\ (s.nextchar # "" => s.optind <= Len(s.argv))
  BY DEF Scanning, Inside, Scanners
<1>3. clean \in Scanners /\ clean.argv = s.argv /\ clean.first_nonopt = s.first_nonopt
      /\ clean.last_nonopt = s.last_nonopt /\ clean.optind = s.optind
      /\ clean.nextchar = s.nextchar
  <2> DEFINE e == ""
  <2>1. e \in Word /\ clean = [s EXCEPT !.optarg = e]
    BY WordsAssumption
  <2> HIDE DEF e, clean
  <2> QED BY <1>2, <2>1 DEF Scanners
<1> HIDE DEF clean
<1>4. Inside(clean)
  <2>1. s.optind \in Nat /\ s.optind <= Len(s.argv) + 1
    BY DEF Scanning, Inside, InOrder, Scanners
  <2>2. s.optind <= clean.optind /\ clean.optind <= Len(s.argv) + 1
    BY <1>3, <2>1
  <2> QED BY <1>2, <1>3, <2>2, StaysInside
<1>5. Inside(skipped) /\ skipped.nextchar = s.nextchar
  BY <1>3, <1>4, SkipStaysInside
<1> HIDE DEF skipped
<1>6. Inside(next) /\ next.nextchar = s.nextchar
  BY <1>5, EndStaysInside
<1> HIDE DEF next, h, word
<1>7. ASSUME s.nextchar # "" PROVE Returns(h)
  <2>1. h = ShortOption(clean, s.nextchar)
    BY <1>1, <1>7
  <2>2. From(s.nextchar, 2) \in Word
    BY <1>2, OptionWord
  <2>3. clean.optind <= Len(clean.argv)
    BY <1>2, <1>3, <1>7
  <2> QED BY <1>2, <1>4, <2>1, <2>2, <2>3, ShortReturns
<1>8. ASSUME s.nextchar = "", AtEnd(next) PROVE h.c = "end"
  <2>1. h = BackOver(next)
    BY <1>1, <1>8
  <2>2. next \in Scanners
    BY <1>6 DEF Inside
  <2> QED BY <2>1, <2>2 DEF BackOver, Scanners
<1>9. ASSUME s.nextchar = "", ~AtEnd(next), NonOption(word) PROVE h.c = "end"
  <2>1. h = [next EXCEPT !.c = "end"]
    BY <1>1, <1>9
  <2>2. next \in Scanners
    BY <1>6 DEF Inside
  <2> QED BY <2>1, <2>2 DEF Scanners
<1>10. ASSUME s.nextchar = "", ~AtEnd(next), ~NonOption(word) PROVE Returns(h)
  <2>1. next.optind <= Len(next.argv)
    <3>1. next.optind # Len(next.argv) + 1
      BY <1>10 DEF AtEnd
    <3> QED BY <1>6, <3>1 DEF Inside, InOrder, Scanners
  <2>2. word \in Word
    BY <1>6, <2>1 DEF Inside, InOrder, Scanners, word
  <2>3. From(word, 2) \in Word /\ From(word, 3) \in Word
    BY <1>10, <2>2, OptionWord
  <2>4. CASE StartsWith(word, "--")
    <3>1. h = LongOption(next)
      BY <1>1, <1>10, <2>4
    <3>2. NothingLeft(next)
      BY <1>6, <1>10 DEF NothingLeft
    <3>3. From(next.argv[next.optind], 3) \in Word
      BY <2>3 DEF word
    <3> QED BY <1>6, <2>1, <3>1, <3>2, <3>3, LongReturns
  <2>5. CASE ~StartsWith(word, "--")
    <3> DEFINE text == From(word, 2)
    <3>1. h = ShortOption(next, text)
      BY <1>1, <1>10, <2>5
    <3>2. text \in Word
      BY <2>3
    <3> HIDE DEF text
    <3>3. From(text, 2) \in Word
      BY <3>2, OptionWord
    <3> QED BY <1>6, <2>1, <3>1, <3>2, <3>3, ShortReturns
  <2> QED BY <2>4, <2>5
<1> QED BY <1>7, <1>8, <1>9, <1>10 DEF h
-----------------------------------------------------------------------------
(* What the options so far, a sequence of letters with arguments, ask for.   *)
Options == Seq(Codes \X Word)
Of(s, cs) == {i \in DOMAIN s : s[i][1] \in cs}
LastOf(s, cs) == IF Of(s, cs) = {} THEN 0 ELSE Max(Of(s, cs))
TypeLetters == DOMAIN OptcharToOtype \cup {"n", "x"}
NoType(o) == o[1] = "n" /\ ExpandAbbreviation(o[2], OTNAMES) = Null
TypesOf(s) == {i \in Of(s, TypeLetters) : ~NoType(s[i])}
Explicit(s) == TypesOf(s) # {} /\ s[Max(TypesOf(s))][1] = "x"
Enconv(p, s) == IF LastOf(s, {"g", "c"}) = 0 THEN CalledAs(p, "enconv")
                ELSE s[LastOf(s, {"g", "c"})][1] = "c"
AskedFor(s) == IF LastOf(s, {"E"}) = 0 THEN DefaultExternalConverter
               ELSE s[LastOf(s, {"E"})][2]
Targets(s) == TargetStrings(s[LastOf(s, {"x"})][2])

(* One option more: t is s and o, and places counts o among those of S.      *)
More(s, o, t) == t \in Options /\ t = Append(s, o)

LEMMA MorePlaces ==
  ASSUME NEW s \in Options, NEW o, NEW t, More(s, o, t)
  PROVE  /\ Len(s) \in Nat /\ DOMAIN s = 1 .. Len(s) /\ DOMAIN t = 1 .. Len(s) + 1
         /\ t[Len(s) + 1] = o
         /\ \A i \in DOMAIN s : t[i] = s[i]
BY DEF More, Options

LEMMA LastPlace ==
  ASSUME NEW n \in Nat, NEW S, S \subseteq 1 .. n, NEW T
  PROVE  /\ S # {} => Max(S) \in S /\ Max(S) # 0
         /\ T = S \cup {n + 1} => T # {} /\ Max(T) = n + 1 /\ n + 1 # 0
<1>1. ASSUME S # {} PROVE Max(S) \in S /\ Max(S) # 0
  <2>1. S \subseteq Int /\ n \in Int /\ \A y \in S : y <= n
    OBVIOUS
  <2>2. Max(S) \in S
    BY <1>1, <2>1, MaxExists
  <2> QED BY <2>2
<1>2. ASSUME T = S \cup {n + 1} PROVE T # {} /\ Max(T) = n + 1 /\ n + 1 # 0
  <2>1. T \subseteq Int /\ n + 1 \in T /\ \A y \in T : n + 1 >= y
    BY <1>2
  <2>2. Max(T) = n + 1
    BY <2>1, MaxIs
  <2> QED BY <2>1, <2>2
<1> QED BY <1>1, <1>2

LEMMA MoreOf ==
  ASSUME NEW s \in Options, NEW o, NEW t, More(s, o, t), NEW cs
  PROVE  /\ o[1] \in cs => /\ Of(t, cs) # {} /\ LastOf(t, cs) # 0
                           /\ t[LastOf(t, cs)] = o
         /\ o[1] \notin cs => /\ Of(t, cs) = Of(s, cs) /\ LastOf(t, cs) = LastOf(s, cs)
                              /\ LastOf(s, cs) # 0 => t[LastOf(s, cs)] = s[LastOf(s, cs)]
         /\ LastOf(s, cs) = 0 <=> Of(s, cs) = {}
<1> DEFINE n == Len(s)  S == Of(s, cs)  T == Of(t, cs)
<1>1. /\ n \in Nat /\ DOMAIN s = 1 .. n /\ DOMAIN t = 1 .. n + 1
      /\ t[n + 1] = o /\ \A i \in DOMAIN s : t[i] = s[i]
  BY MorePlaces
<1>2. S \subseteq 1 .. n
  BY <1>1 DEF Of
<1>3. T = IF o[1] \in cs THEN S \cup {n + 1} ELSE S
  <2>1. \A i : i \in 1 .. n + 1 <=> i \in 1 .. n \/ i = n + 1
    BY <1>1
  <2>2. \A i \in 1 .. n : i # n + 1
    BY <1>1
  <2> HIDE DEF n
  <2> QED BY <1>1, <2>1, <2>2 DEF Of
<1> HIDE DEF n, S, T
<1>4. S # {} => Max(S) \in S /\ Max(S) # 0
  BY <1>1, <1>2, LastPlace
<1>5. o[1] \in cs => T # {} /\ Max(T) = n + 1 /\ n + 1 # 0
  BY <1>1, <1>2, <1>3, LastPlace
<1>6. LastOf(s, cs) = (IF S = {} THEN 0 ELSE Max(S))
      /\ LastOf(t, cs) = (IF T = {} THEN 0 ELSE Max(T))
  BY DEF LastOf, S, T
<1>7. S # {} => t[Max(S)] = s[Max(S)]
  BY <1>1, <1>2, <1>4
<1> QED BY <1>1, <1>3, <1>4, <1>5, <1>6, <1>7 DEF S, T

LEMMA MoreEnconv ==
  ASSUME NEW s \in Options, NEW o, NEW t, More(s, o, t), NEW p
  PROVE  Enconv(p, t) <=> IF o[1] \in {"g", "c"} THEN o[1] = "c" ELSE Enconv(p, s)
<1> DEFINE cs == {"g", "c"}
<1>1. /\ o[1] \in cs => LastOf(t, cs) # 0 /\ t[LastOf(t, cs)] = o
      /\ o[1] \notin cs => /\ LastOf(t, cs) = LastOf(s, cs)
                           /\ LastOf(s, cs) # 0 => t[LastOf(s, cs)] = s[LastOf(s, cs)]
  BY MoreOf
<1> QED BY <1>1 DEF Enconv

LEMMA MoreAsked ==
  ASSUME NEW s \in Options, NEW o, NEW t, More(s, o, t)
  PROVE  AskedFor(t) = IF o[1] = "E" THEN o[2] ELSE AskedFor(s)
<1> DEFINE cs == {"E"}
<1>1. /\ o[1] \in cs => LastOf(t, cs) # 0 /\ t[LastOf(t, cs)] = o
      /\ o[1] \notin cs => /\ LastOf(t, cs) = LastOf(s, cs)
                           /\ LastOf(s, cs) # 0 => t[LastOf(s, cs)] = s[LastOf(s, cs)]
  BY MoreOf
<1>2. o[1] \in cs <=> o[1] = "E"
  OBVIOUS
<1> QED BY <1>1, <1>2 DEF AskedFor

LEMMA MoreTargets ==
  ASSUME NEW s \in Options, NEW o, NEW t, More(s, o, t)
  PROVE  /\ o[1] = "x" => Of(t, {"x"}) # {} /\ Targets(t) = TargetStrings(o[2])
         /\ o[1] # "x" => /\ Of(t, {"x"}) = Of(s, {"x"})
                          /\ Of(s, {"x"}) # {} => Targets(t) = Targets(s)
<1> DEFINE cs == {"x"}
<1>1. /\ o[1] \in cs => Of(t, cs) # {} /\ t[LastOf(t, cs)] = o
      /\ o[1] \notin cs => /\ Of(t, cs) = Of(s, cs) /\ LastOf(t, cs) = LastOf(s, cs)
                           /\ LastOf(s, cs) # 0 => t[LastOf(s, cs)] = s[LastOf(s, cs)]
      /\ LastOf(s, cs) = 0 <=> Of(s, cs) = {}
  BY MoreOf
<1>2. o[1] \in cs <=> o[1] = "x"
  OBVIOUS
<1>3. Targets(t) = TargetStrings(t[LastOf(t, cs)][2])
      /\ Targets(s) = TargetStrings(s[LastOf(s, cs)][2])
  BY DEF Targets
<1> QED BY <1>1, <1>2, <1>3

LEMMA MoreExplicit ==
  ASSUME NEW s \in Options, NEW o, NEW t, More(s, o, t)
  PROVE  Explicit(t) <=> IF o[1] \in TypeLetters /\ ~NoType(o) THEN o[1] = "x"
                         ELSE Explicit(s)
<1> DEFINE n == Len(s)  S == TypesOf(s)  T == TypesOf(t)
           new == o[1] \in TypeLetters /\ ~NoType(o)
<1>1. /\ n \in Nat /\ DOMAIN s = 1 .. n /\ DOMAIN t = 1 .. n + 1
      /\ t[n + 1] = o /\ \A i \in DOMAIN s : t[i] = s[i]
  BY MorePlaces
<1>2. S \subseteq 1 .. n
  BY <1>1 DEF Of, TypesOf
<1>3. T = IF new THEN S \cup {n + 1} ELSE S
  <2>1. \A i : i \in 1 .. n + 1 <=> i \in 1 .. n \/ i = n + 1
    BY <1>1
  <2>2. \A i \in 1 .. n : i # n + 1
    BY <1>1
  <2> HIDE DEF n
  <2> QED BY <1>1, <2>1, <2>2 DEF Of, TypesOf
<1> HIDE DEF n, S, T, new
<1>4. S # {} => Max(S) \in S /\ Max(S) # 0
  BY <1>1, <1>2, LastPlace
<1>5. new => T # {} /\ Max(T) = n + 1
  BY <1>1, <1>2, <1>3, LastPlace
<1>6. S # {} => t[Max(S)] = s[Max(S)]
  BY <1>1, <1>2, <1>4
<1>7. (Explicit(s) <=> S # {} /\ s[Max(S)][1] = "x")
      /\ (Explicit(t) <=> T # {} /\ t[Max(T)][1] = "x")
  BY DEF Explicit, S, T
<1> QED BY <1>1, <1>3, <1>5, <1>6, <1>7 DEF new
-----------------------------------------------------------------------------
(* The inductive invariant.  Acted are the options that have taken effect;   *)
(* one that was returned waits at "option".                                 *)
Acted == IF pc = "option" THEN SubSeq(seen, 1, Len(seen) - 1) ELSE seen
Going == outcome \in {"running", "ready"}
Untold == pc \in {"getopt", "option", "language", "behaviour"}
ByName(p, s) == Of(s, TypeLetters) = {} /\ Enconv(p, s)

\* What they have made of the settings.
TypeKept(s) ==
  /\ otype_set <=> Of(s, TypeLetters) # {}
  /\ Untold => behaviour = IF Enconv(setup.program, s) THEN "ENCONV" ELSE "ENCA"
  /\ options.output_type = "CONVERT" <=> Explicit(s) \/ (Decided /\ ByName(setup.program, s))
TargetKept(s) ==
  /\ Of(s, {"x"}) # {} => options.target_enc_str \in Targets(s)
  /\ options.output_type = "CONVERT" => options.target_enc_str # Null
  /\ options.target_enc \in {options.target_enc_str, Null}
  /\ Decided /\ ByName(setup.program, s) /\ setup.charset # Null =>
       options.target_enc_str \in TargetStrings(setup.charset)
ExternalKept(s) == pc # "start" => extern_converter = ExternalConverter(AskedFor(s))
History == Going => TypeKept(Acted) /\ TargetKept(Acted) /\ ExternalKept(Acted)

Fields == {"language", "output_type", "target_enc", "target_enc_str", "prefix_filename"}
Checked == options.output_type = "CONVERT" /\ "extern" \in ToSet(converters)
             => extern_converter \in setup.exec

Shape ==
  /\ setup \in CommandLines /\ DOMAIN options = Fields
  /\ seen \in Options /\ converters \in Seq(ConvNames)
  /\ pc \in {"getopt", "option"} => Scanning(g)
  /\ pc = "option" => seen # <<>> /\ seen[Len(seen)] = <<g.c, g.optarg>>
  /\ pc \in {"start", "getopt", "option", "language"} =>
       options.language \in Word \cup {Null} /\ codeset = Null
  /\ pc = "start" => seen = <<>> /\ options.output_type = "HUMAN" /\ ~otype_set
                     /\ options.target_enc_str = Null /\ options.target_enc = Null
Stage ==
  /\ pc \in {"prefix", "analyser"} \/ outcome = "ready" => Checked
  /\ pc = "analyser" \/ outcome = "ready" => options.prefix_filename # -1
  /\ outcome = "ready" => options.language \in GetLanguages

Inv == TypeOK /\ Shape /\ Stage /\ NativeCharsetFits /\ History

(* What one option more changes, all together. *)
Grown(p, s, o, t) ==
  /\ Enconv(p, t) <=> IF o[1] \in {"g", "c"} THEN o[1] = "c" ELSE Enconv(p, s)
  /\ AskedFor(t) = IF o[1] = "E" THEN o[2] ELSE AskedFor(s)
  /\ o[1] = "x" => Of(t, {"x"}) # {} /\ Targets(t) = TargetStrings(o[2])
  /\ o[1] # "x" => /\ Of(t, {"x"}) = Of(s, {"x"})
                   /\ Of(s, {"x"}) # {} => Targets(t) = Targets(s)
  /\ Explicit(t) <=> IF o[1] \in TypeLetters /\ ~NoType(o) THEN o[1] = "x"
                     ELSE Explicit(s)
  /\ o[1] \in TypeLetters => Of(t, TypeLetters) # {}
  /\ o[1] \notin TypeLetters => Of(t, TypeLetters) = Of(s, TypeLetters)

LEMMA Grows ==
  ASSUME NEW s \in Options, NEW o, NEW t, More(s, o, t), NEW p
  PROVE  Grown(p, s, o, t)
<1>1. Enconv(p, t) <=> IF o[1] \in {"g", "c"} THEN o[1] = "c" ELSE Enconv(p, s)
  BY MoreEnconv
<1>2. AskedFor(t) = IF o[1] = "E" THEN o[2] ELSE AskedFor(s)
  BY MoreAsked
<1>3. /\ o[1] = "x" => Of(t, {"x"}) # {} /\ Targets(t) = TargetStrings(o[2])
      /\ o[1] # "x" => /\ Of(t, {"x"}) = Of(s, {"x"})
                       /\ Of(s, {"x"}) # {} => Targets(t) = Targets(s)
  BY MoreTargets
<1>4. Explicit(t) <=> IF o[1] \in TypeLetters /\ ~NoType(o) THEN o[1] = "x"
                      ELSE Explicit(s)
  BY MoreExplicit
<1>5. /\ o[1] \in TypeLetters => Of(t, TypeLetters) # {}
      /\ o[1] \notin TypeLetters => Of(t, TypeLetters) = Of(s, TypeLetters)
  BY MoreOf
<1> QED BY <1>1, <1>2, <1>3, <1>4, <1>5 DEF Grown

LEMMA LettersOfTypes ==
  /\ DOMAIN OptcharToOtype = {"d", "e", "f", "i", "r", "s", "m"}
  /\ TypeLetters = {"d", "e", "f", "i", "r", "s", "m", "n", "x"}
  /\ \A l \in DOMAIN OptcharToOtype : OptcharToOtype[l] \in ToSet(OTS)
  /\ "CONVERT" \notin ToSet(OTS)
<1>1. DOMAIN OptcharToOtype = {"d", "e", "f", "i", "r", "s", "m"}
  BY DEF OptcharToOtype
<1>2. TypeLetters = {"d", "e", "f", "i", "r", "s", "m", "n", "x"}
  BY <1>1 DEF TypeLetters
<1>3. \A l \in DOMAIN OptcharToOtype : OptcharToOtype[l] \in ToSet(OTS)
  BY TypesOfOutput DEF OptcharToOtype
<1>4. "CONVERT" \notin ToSet(OTS)
  BY TypesOfOutput
<1> QED BY <1>1, <1>2, <1>3, <1>4

LEMMA Waiting ==
  ASSUME Shape, pc = "option"
  PROVE  Acted \in Options /\ More(Acted, <<g.c, g.optarg>>, seen)
<1>1. seen \in Options /\ seen # <<>> /\ seen[Len(seen)] = <<g.c, g.optarg>>
  BY DEF Shape
<1> DEFINE n == Len(seen)
<1>2. n \in Nat /\ n >= 1 /\ DOMAIN seen = 1 .. n /\ seen \in [1 .. n -> Codes \X Word]
  BY <1>1 DEF Options
<1>3. Acted = SubSeq(seen, 1, n - 1)
  BY DEF Acted
<1> DEFINE a == SubSeq(seen, 1, n - 1)
<1>4. /\ a \in Seq(Codes \X Word) /\ Len(a) = n - 1
      /\ \A i \in 1 .. n - 1 : a[i] = seen[i]
  BY <1>1, <1>2 DEF Options
<1> HIDE DEF a
<1> DEFINE e == <<g.c, g.optarg>>  t == Append(a, e)
<1>5. e \in Codes \X Word
  BY <1>1, <1>2
<1> HIDE DEF e
<1>6. /\ t \in Seq(Codes \X Word) /\ Len(t) = n
      /\ \A i \in 1 .. n : t[i] = IF i = n THEN e ELSE a[i]
  <2> DEFINE C == Codes \X Word
  <2>1. a \in Seq(C) /\ e \in C /\ Len(a) + 1 = n
    BY <1>2, <1>4, <1>5
  <2> HIDE DEF C, n
  <2>2. /\ t \in Seq(C) /\ Len(t) = Len(a) + 1
        /\ \A i \in 1 .. Len(a) + 1 : t[i] = IF i = Len(a) + 1 THEN e ELSE a[i]
    BY <2>1
  <2> QED BY <2>1, <2>2 DEF C
<1>e. seen[n] = e
  BY <1>1 DEF e
<1> HIDE DEF t
<1>7. \A i \in 1 .. n : t[i] = seen[i]
  <2> SUFFICES ASSUME NEW i \in 1 .. n PROVE t[i] = seen[i]
    OBVIOUS
  <2>1. CASE i = n
    <3> HIDE DEF n
    <3>1. t[n] = e
      BY <1>6, <2>1
    <3>2. t[i] = t[n] /\ seen[i] = seen[n]
      BY <2>1
    <3> QED BY <1>e, <3>1, <3>2
  <2>2. CASE i # n
    <3>1. i \in 1 .. n - 1
      <4> HIDE DEF n
      <4>1. n \in Nat
        BY <1>2
      <4> QED BY <2>2, <4>1
    <3> QED BY <1>4, <1>6, <2>2, <3>1
  <2> QED BY <2>1, <2>2
<1>8. t = seen
  BY <1>1, <1>6, <1>7, SeqEqual DEF Options
<1> QED BY <1>1, <1>3, <1>4, <1>8 DEF More, Options, t, e, a

(* Every option that is taken leaves its mark in this way alone. *)
LEMMA OptionTaken ==
  ASSUME Inv, pc = "option", pc' = "getopt", UNCHANGED rest, DOMAIN options' = Fields,
         options'.language \in Word \cup {Null}, converters' \in Seq(ConvNames)
  PROVE  /\ Shape' /\ Stage' /\ NativeCharsetFits'
         /\ Grown(setup.program, Acted, <<g.c, g.optarg>>, Acted')
         /\ TypeKept(Acted) /\ TargetKept(Acted) /\ ExternalKept(Acted)
         /\ outcome = "running" /\ outcome' = "running" /\ setup' = setup
<1>1. Shape /\ outcome = "running" /\ codeset = Null
  BY DEF Inv, TypeOK, Shape
<1>2. setup' = setup /\ g' = g /\ codeset' = codeset /\ outcome' = outcome /\ seen' = seen
  BY DEF rest
<1>3. Shape'
  BY <1>1, <1>2 DEF Shape
<1>4. Stage' /\ NativeCharsetFits'
  BY <1>1, <1>2 DEF Stage, NativeCharsetFits
<1>5. Acted \in Options /\ More(Acted, <<g.c, g.optarg>>, seen)
  BY <1>1, Waiting
<1>6. Acted' = seen
  BY <1>2 DEF Acted
<1>7. Grown(setup.program, Acted, <<g.c, g.optarg>>, seen)
  BY <1>5, Grows
<1>8. TypeKept(Acted) /\ TargetKept(Acted) /\ ExternalKept(Acted)
  BY <1>1 DEF Inv, History, Going
<1> QED BY <1>1, <1>2, <1>3, <1>4, <1>6, <1>7, <1>8

LEMMA MembersOf ==
  ASSUME NEW C, NEW s \in Seq(C)
  PROVE  ToSet(s) \subseteq C
BY DEF ToSet

LEMMA SetOutputTypeKeeps ==
  ASSUME Inv, SetOutputType
  PROVE  Inv'
<1> DEFINE o == <<g.c, g.optarg>>
           type == IF g.c = "n" THEN OtypeFromName(g.optarg, options.output_type)
                   ELSE OptcharToOtype[g.c]
<1>1. /\ pc = "option" /\ pc' = "getopt" /\ UNCHANGED rest
      /\ g.c \in {"d", "e", "f", "i", "r", "s", "m", "n"}
      /\ otype_set' = TRUE /\ behaviour' = behaviour /\ converters' = converters
      /\ nc' = nc /\ extern_converter' = extern_converter
  BY LettersOfTypes DEF SetOutputType, Option
<1>2. TypeOK /\ Shape /\ DOMAIN options = Fields /\ options.language \in Word \cup {Null}
      /\ converters \in Seq(ConvNames)
  BY <1>1 DEF Inv, Shape
<1>3. options' = [options EXCEPT !.output_type = type]
  BY DEF SetOutputType
<1>4. /\ type \in ToSet(OTS) \cup {"CONVERT"}
      /\ type = "CONVERT" <=> options.output_type = "CONVERT" /\ NoType(o)
  <2>1. options.output_type \in ToSet(OTS) \cup {"CONVERT"}
    BY <1>2 DEF TypeOK
  <2>2. CASE g.c = "n"
    BY <2>1, <2>2, TypeNames, LettersOfTypes DEF NoType
  <2>3. CASE g.c # "n"
    BY <1>1, <2>3, LettersOfTypes DEF NoType
  <2> QED BY <2>2, <2>3
<1> HIDE DEF type
<1>5. /\ DOMAIN options' = Fields /\ options'.output_type = type
      /\ options'.language = options.language /\ options'.target_enc = options.target_enc
      /\ options'.target_enc_str = options.target_enc_str
      /\ options'.prefix_filename = options.prefix_filename
  BY <1>2, <1>3 DEF Fields
<1>6. /\ Shape' /\ Stage' /\ NativeCharsetFits'
      /\ Grown(setup.program, Acted, o, Acted')
      /\ TypeKept(Acted) /\ TargetKept(Acted) /\ ExternalKept(Acted)
      /\ outcome = "running" /\ outcome' = "running" /\ setup' = setup
  BY <1>1, <1>2, <1>5, OptionTaken
<1>7. TypeOK'
  BY <1>1, <1>2, <1>4, <1>5, <1>6 DEF TypeOK
<1>8. o[1] = g.c /\ o[2] = g.optarg
  OBVIOUS
<1> HIDE DEF o
<1>9. TypeKept(Acted)'
  BY <1>1, <1>4, <1>5, <1>6, <1>8, LettersOfTypes DEF TypeKept, Grown, Untold, Decided
<1>10. TargetKept(Acted)'
  BY <1>1, <1>4, <1>5, <1>6, <1>8 DEF TargetKept, Grown, Decided
<1>11. ExternalKept(Acted)'
  BY <1>1, <1>6, <1>8 DEF ExternalKept, Grown
<1> QED BY <1>6, <1>7, <1>9, <1>10, <1>11 DEF Inv, History, Going

LEMMA ConvertToKeeps ==
  ASSUME Inv, ConvertTo
  PROVE  Inv'
<1> DEFINE o == <<g.c, g.optarg>>
<1>1. /\ pc = "option" /\ pc' = "getopt" /\ UNCHANGED rest /\ g.c = "x"
      /\ otype_set' = TRUE /\ behaviour' = behaviour /\ converters' = converters
      /\ nc' = nc /\ extern_converter' = extern_converter
  BY DEF ConvertTo, Option
<1>2. TypeOK /\ Shape /\ DOMAIN options = Fields /\ options.language \in Word \cup {Null}
      /\ converters \in Seq(ConvNames) /\ g.optarg \in Word
  BY <1>1 DEF Inv, Shape, Scanning, Inside, Scanners
<1>3. PICK str \in TargetStrings(g.optarg) :
        options' = [WithTarget(options, str) EXCEPT !.output_type = "CONVERT"]
  BY DEF ConvertTo
<1>4. str # Null
  BY <1>2, WordParts DEF TargetStrings, BehindTheEnd, Null
<1>5. /\ DOMAIN options' = Fields /\ options'.output_type = "CONVERT"
      /\ options'.language = options.language /\ options'.target_enc = TargetEnc(str)
      /\ options'.target_enc_str = str
      /\ options'.prefix_filename = options.prefix_filename
  BY <1>2, <1>3 DEF Fields, WithTarget
<1>6. /\ Shape' /\ Stage' /\ NativeCharsetFits'
      /\ Grown(setup.program, Acted, o, Acted')
      /\ TypeKept(Acted) /\ TargetKept(Acted) /\ ExternalKept(Acted)
      /\ outcome = "running" /\ outcome' = "running" /\ setup' = setup
  BY <1>1, <1>2, <1>5, OptionTaken
<1>7. TypeOK'
  BY <1>1, <1>2, <1>5, <1>6 DEF TypeOK
<1>8. o[1] = g.c /\ o[2] = g.optarg /\ ~NoType(o)
  BY <1>1 DEF NoType
<1> HIDE DEF o
<1>9. TypeKept(Acted)'
  BY <1>1, <1>5, <1>6, <1>8, LettersOfTypes DEF TypeKept, Grown, Untold, Decided
<1>10. TargetKept(Acted)'
  <2>1. TargetEnc(str) \in {str, Null}
    BY DEF TargetEnc
  <2>2. Targets(Acted') = TargetStrings(g.optarg)
    BY <1>1, <1>6, <1>8 DEF Grown
  <2>3. ~Decided'
    BY <1>1, <1>6 DEF Decided
  <2> QED BY <1>3, <1>4, <1>5, <2>1, <2>2, <2>3 DEF TargetKept
<1>11. ExternalKept(Acted)'
  BY <1>1, <1>6, <1>8 DEF ExternalKept, Grown
<1> QED BY <1>6, <1>7, <1>9, <1>10, <1>11 DEF Inv, History, Going

LEMMA SetPrefixKeeps ==
  ASSUME Inv, SetPrefix
  PROVE  Inv'
<1> DEFINE o == <<g.c, g.optarg>>
<1>1. /\ pc = "option" /\ pc' = "getopt" /\ UNCHANGED rest /\ g.c \in {"p", "P"}
      /\ otype_set' = otype_set /\ behaviour' = behaviour /\ converters' = converters
      /\ nc' = nc /\ extern_converter' = extern_converter
  BY DEF SetPrefix, Option
<1>2. TypeOK /\ Shape /\ DOMAIN options = Fields /\ options.language \in Word \cup {Null}
      /\ converters \in Seq(ConvNames)
  BY <1>1 DEF Inv, Shape
<1>3. options' = [options EXCEPT !.prefix_filename = IF g.c = "p" THEN 1 ELSE 0]
  BY DEF SetPrefix
<1>4. /\ DOMAIN options' = Fields /\ options'.output_type = options.output_type
      /\ options'.language = options.language /\ options'.target_enc = options.target_enc
      /\ options'.target_enc_str = options.target_enc_str
  BY <1>2, <1>3 DEF Fields
<1>5. options'.prefix_filename \in {-1, 0, 1}
  BY <1>2, <1>3 DEF Fields
<1>6. /\ Shape' /\ Stage' /\ NativeCharsetFits'
      /\ Grown(setup.program, Acted, o, Acted')
      /\ TypeKept(Acted) /\ TargetKept(Acted) /\ ExternalKept(Acted)
      /\ outcome = "running" /\ outcome' = "running" /\ setup' = setup
  BY <1>1, <1>2, <1>4, OptionTaken
<1>7. TypeOK'
  BY <1>1, <1>2, <1>4, <1>5, <1>6 DEF TypeOK
<1>8. o[1] = g.c /\ o[2] = g.optarg
  OBVIOUS
<1> HIDE DEF o
<1>9. TypeKept(Acted)'
  BY <1>1, <1>4, <1>6, <1>8, LettersOfTypes DEF TypeKept, Grown, Untold, Decided
<1>10. TargetKept(Acted)'
  BY <1>1, <1>4, <1>6, <1>8 DEF TargetKept, Grown, Decided
<1>11. ExternalKept(Acted)'
  BY <1>1, <1>6, <1>8 DEF ExternalKept, Grown
<1> QED BY <1>6, <1>7, <1>9, <1>10, <1>11 DEF Inv, History, Going

LEMMA SetLanguageKeeps ==
  ASSUME Inv, SetLanguage
  PROVE  Inv'
<1> DEFINE o == <<g.c, g.optarg>>
<1>1. /\ pc = "option" /\ pc' = "getopt" /\ UNCHANGED rest /\ g.c = "L"
      /\ otype_set' = otype_set /\ behaviour' = behaviour /\ converters' = converters
      /\ nc' = nc /\ extern_converter' = extern_converter
  BY DEF SetLanguage, Option
<1>2. TypeOK /\ Shape /\ DOMAIN options = Fields /\ g.optarg \in Word
      /\ converters \in Seq(ConvNames)
  BY <1>1 DEF Inv, Shape, Scanning, Inside, Scanners
<1>3. options' = [options EXCEPT !.language = g.optarg]
  BY DEF SetLanguage
<1>4. /\ DOMAIN options' = Fields /\ options'.output_type = options.output_type
      /\ options'.language = g.optarg /\ options'.target_enc = options.target_enc
      /\ options'.target_enc_str = options.target_enc_str
      /\ options'.prefix_filename = options.prefix_filename
  BY <1>2, <1>3 DEF Fields
<1>6. /\ Shape' /\ Stage' /\ NativeCharsetFits'
      /\ Grown(setup.program, Acted, o, Acted')
      /\ TypeKept(Acted) /\ TargetKept(Acted) /\ ExternalKept(Acted)
      /\ outcome = "running" /\ outcome' = "running" /\ setup' = setup
  BY <1>1, <1>2, <1>4, OptionTaken
<1>7. TypeOK'
  BY <1>1, <1>2, <1>4, <1>6 DEF TypeOK
<1>8. o[1] = g.c /\ o[2] = g.optarg
  OBVIOUS
<1> HIDE DEF o
<1>9. TypeKept(Acted)'
  BY <1>1, <1>4, <1>6, <1>8, LettersOfTypes DEF TypeKept, Grown, Untold, Decided
<1>10. TargetKept(Acted)'
  BY <1>1, <1>4, <1>6, <1>8 DEF TargetKept, Grown, Decided
<1>11. ExternalKept(Acted)'
  BY <1>1, <1>6, <1>8 DEF ExternalKept, Grown
<1> QED BY <1>6, <1>7, <1>9, <1>10, <1>11 DEF Inv, History, Going

(* The options that change no field of options.                             *)
LEMMA OtherOptionKeeps ==
  ASSUME Inv, Behave \/ AddConverters \/ SetExternal \/ Verbose
  PROVE  Inv'
<1> DEFINE o == <<g.c, g.optarg>>
<1>1. /\ pc = "option" /\ pc' = "getopt" /\ UNCHANGED rest
      /\ g.c \in {"g", "c", "C", "E", "V"} /\ options' = options
      /\ otype_set' = otype_set
      /\ behaviour' = IF g.c = "g" THEN "ENCA" ELSE IF g.c = "c" THEN "ENCONV" ELSE behaviour
      /\ extern_converter' = IF g.c = "E" THEN ExternalConverter(g.optarg)
                             ELSE extern_converter
  BY DEF Behave, AddConverters, SetExternal, Verbose, Option
<1>2. TypeOK /\ Shape /\ DOMAIN options = Fields /\ options.language \in Word \cup {Null}
      /\ converters \in Seq(ConvNames) /\ g.optarg \in Word /\ nc \in Nat
  BY <1>1 DEF Inv, Shape, TypeOK, Scanning, Inside, Scanners
<1>3. converters' \in Seq(ConvNames) /\ nc' \in Nat
  <2>1. CASE AddConverters
    <3> DEFINE added == AddParsedConverters(converters, nc, g.optarg)
    <3>1. added \in Lists
      BY <1>2, ConvertersAdded
    <3>2. converters' = added.convs /\ nc' = added.nc
      BY <2>1 DEF AddConverters
    <3> HIDE DEF added
    <3> QED BY <3>1, <3>2 DEF Lists
  <2>2. CASE Behave \/ SetExternal \/ Verbose
    BY <1>2, <2>2 DEF Behave, SetExternal, Verbose
  <2> QED BY <2>1, <2>2
<1>4. ToSet(converters') \subseteq ToSet(ConverterNames)
  BY <1>3, MembersOf DEF ConvNames
<1>6. /\ Shape' /\ Stage' /\ NativeCharsetFits'
      /\ Grown(setup.program, Acted, o, Acted')
      /\ TypeKept(Acted) /\ TargetKept(Acted) /\ ExternalKept(Acted)
      /\ outcome = "running" /\ outcome' = "running" /\ setup' = setup
  BY <1>1, <1>2, <1>3, OptionTaken
<1>7. TypeOK'
  BY <1>1, <1>2, <1>3, <1>4, <1>6 DEF TypeOK
<1>8. o[1] = g.c /\ o[2] = g.optarg
  OBVIOUS
<1> HIDE DEF o
<1>9. TypeKept(Acted)'
  BY <1>1, <1>6, <1>8, LettersOfTypes DEF TypeKept, Grown, Untold, Decided
<1>10. TargetKept(Acted)'
  BY <1>1, <1>6, <1>8 DEF TargetKept, Grown, Decided
<1>11. ExternalKept(Acted)'
  BY <1>1, <1>6, <1>8 DEF ExternalKept, Grown
<1> QED BY <1>6, <1>7, <1>9, <1>10, <1>11 DEF Inv, History, Going
-----------------------------------------------------------------------------
(* Before the options. *)
LEMMA NoOptions ==
  /\ <<>> \in Options /\ \A cs : Of(<<>>, cs) = {} /\ LastOf(<<>>, cs) = 0
  /\ ~Explicit(<<>>) /\ AskedFor(<<>>) = DefaultExternalConverter
  /\ \A p : Enconv(p, <<>>) <=> CalledAs(p, "enconv")
<1>1. DOMAIN <<>> = {}
  OBVIOUS
<1>2. <<>> \in Options
  BY DEF Options
<1>3. ASSUME NEW cs PROVE Of(<<>>, cs) = {} /\ LastOf(<<>>, cs) = 0
  BY <1>1 DEF Of, LastOf
<1>4. ~Explicit(<<>>)
  BY <1>3 DEF Explicit, TypesOf
<1>5. AskedFor(<<>>) = DefaultExternalConverter
  BY <1>3 DEF AskedFor
<1>6. ASSUME NEW p PROVE Enconv(p, <<>>) <=> CalledAs(p, "enconv")
  BY <1>3 DEF Enconv
<1> QED BY <1>2, <1>3, <1>4, <1>5, <1>6

LEMMA InitInv == Init => Inv
<1> SUFFICES ASSUME Init PROVE Inv
  OBVIOUS
<1>1. /\ setup \in CommandLines /\ pc = "start" /\ behaviour = "ENCA" /\ otype_set = FALSE
      /\ codeset = Null /\ converters = <<>> /\ nc = 0 /\ outcome = "running" /\ seen = <<>>
  BY DEF Init
<1>2. /\ DOMAIN options = Fields /\ options.language = Null /\ options.output_type = "HUMAN"
      /\ options.target_enc = Null /\ options.target_enc_str = Null
      /\ options.prefix_filename = -1
  BY DEF Init, Fields
<1>3. Acted = <<>> /\ ~Decided
  BY <1>1 DEF Acted, Decided
<1>4. TypeOK
  <2>1. "HUMAN" \in ToSet(OTS)
    BY TypesOfOutput
  <2>2. ToSet(converters) \subseteq ToSet(ConverterNames)
    BY <1>1 DEF ToSet
  <2> QED BY <1>1, <1>2, <2>1, <2>2 DEF TypeOK
<1>5. Shape
  <2>1. converters \in Seq(ConvNames)
    BY <1>1
  <2> QED BY <1>1, <1>2, <2>1, NoOptions DEF Shape
<1>6. Stage /\ NativeCharsetFits
  BY <1>1 DEF Stage, NativeCharsetFits
<1>7. TypeKept(<<>>)
  BY <1>1, <1>2, <1>3, NoOptions DEF TypeKept, Untold
<1>8. TargetKept(<<>>) /\ ExternalKept(<<>>)
  BY <1>1, <1>2, <1>3, NoOptions DEF TargetKept, ExternalKept
<1> QED BY <1>3, <1>4, <1>5, <1>6, <1>7, <1>8 DEF Inv, History

LEMMA StartScans ==
  ASSUME NEW words \in Seq(Word)
  PROVE  Scanning(Initialized(words))
<1> DEFINE h == Initialized(words)  e == ""  w == "start"  n == Len(words)
<1>1. /\ h.argv = words /\ h.optind = 1 /\ h.first_nonopt = 1 /\ h.last_nonopt = 1
      /\ h.nextchar = e
      /\ h = [argv |-> words, optind |-> 1, first_nonopt |-> 1, last_nonopt |-> 1,
              nextchar |-> e, optarg |-> e, c |-> w]
  BY DEF Initialized
<1>2. e \in Word /\ w \in Codes
  BY WordsAssumption DEF Codes
<1>3. n \in Nat
  OBVIOUS
<1>4. Scanning(h) <=> h \in Scanners /\ InOrder(h)
  BY <1>1 DEF Scanning, Inside
<1> HIDE DEF h, e, w, n
<1>5. h \in Scanners
  BY <1>1, <1>2 DEF Scanners
<1>6. InOrder(h)
  <2>1. Len(h.argv) = n
    BY <1>1 DEF n
  <2> QED BY <1>1, <1>3, <2>1 DEF InOrder
<1> QED BY <1>4, <1>5, <1>6 DEF h

LEMMA StartKeeps ==
  ASSUME Inv, Start
  PROVE  Inv'
<1> DEFINE env == IF setup.expands THEN Tokens(setup.encaopt) ELSE <<>>
<1>1. /\ pc = "start" /\ pc' = "getopt" /\ behaviour' = Behaviour(setup.program)
      /\ extern_converter' = ExternalConverter(DefaultExternalConverter)
      /\ g' = Initialized(env \o setup.words)
      /\ setup' = setup /\ options' = options /\ otype_set' = otype_set
      /\ codeset' = codeset /\ converters' = converters /\ nc' = nc
      /\ outcome' = outcome /\ seen' = seen
  BY DEF Start
<1>2. /\ TypeOK /\ Shape /\ setup \in CommandLines /\ seen = <<>> /\ codeset = Null
      /\ options.output_type = "HUMAN" /\ ~otype_set /\ outcome = "running"
      /\ options.target_enc_str = Null /\ options.target_enc = Null
  BY <1>1 DEF Inv, Shape, TypeOK
<1>3. Scanning(g')
  <2>1. setup.encaopt \in Word /\ setup.words \in Seq(Word)
    BY <1>2, WordsAssumption
  <2>2. env \in Seq(Word)
    BY <2>1, TokensAreWords
  <2> HIDE DEF env
  <2>3. env \o setup.words \in Seq(Word)
    BY <2>1, <2>2
  <2> QED BY <1>1, <2>3, StartScans
<1>4. Shape'
  BY <1>1, <1>2, <1>3 DEF Shape
<1>5. TypeOK'
  BY <1>1, <1>2 DEF TypeOK, Behaviour
<1>6. Stage' /\ NativeCharsetFits'
  BY <1>1, <1>2 DEF Stage, NativeCharsetFits
<1>7. Acted' = <<>> /\ ~Decided'
  BY <1>1, <1>2 DEF Acted, Decided
<1>8. TypeKept(<<>>)'
  BY <1>1, <1>2, <1>7, NoOptions DEF TypeKept, Behaviour
<1>9. TargetKept(<<>>)' /\ ExternalKept(<<>>)'
  BY <1>1, <1>2, <1>7, NoOptions DEF TargetKept, ExternalKept
<1> QED BY <1>4, <1>5, <1>6, <1>7, <1>8, <1>9 DEF Inv, History

LEMMA NextReturned ==
  ASSUME Inv, NextOption
  PROVE  /\ g'.c # "end" => Scanning(g') /\ <<g'.c, g'.optarg>> \in Codes \X Word
         /\ Acted = seen /\ Acted' = Acted
<1> DEFINE o == <<g'.c, g'.optarg>>
<1>1. /\ pc = "getopt" /\ g' = GetoptLong(g, setup.posix)
      /\ pc' = IF g'.c = "end" THEN "language" ELSE "option"
      /\ seen' = IF g'.c = "end" THEN seen ELSE Append(seen, o)
  BY DEF NextOption
<1>2. Scanning(g) /\ setup \in CommandLines /\ seen \in Options
  BY <1>1 DEF Inv, Shape
<1>3. g'.c # "end" => Scanning(g') /\ o \in Codes \X Word
  <2>1. g'.c = "end" \/ Returns(g')
    BY <1>1, <1>2, GetoptReturns
  <2> QED BY <2>1 DEF Returns, Scanning, Inside, Scanners
<1> HIDE DEF o
<1>4. Acted = seen
  BY <1>1 DEF Acted
<1>5. CASE g'.c = "end"
  BY <1>1, <1>3, <1>4, <1>5 DEF Acted, o
<1>6. CASE g'.c # "end"
  <2>1. Acted' = SubSeq(Append(seen, o), 1, Len(Append(seen, o)) - 1)
    BY <1>1, <1>6 DEF Acted
  <2>2. SubSeq(Append(seen, o), 1, Len(Append(seen, o)) - 1) = seen
    BY <1>2, <1>3, <1>6 DEF Options
  <2> QED BY <1>3, <1>4, <2>1, <2>2 DEF o
<1> QED BY <1>5, <1>6

LEMMA NextOptionKeeps ==
  ASSUME Inv, NextOption
  PROVE  Inv'
<1> DEFINE o == <<g'.c, g'.optarg>>
<1>1. /\ pc = "getopt" /\ g' = GetoptLong(g, setup.posix)
      /\ pc' = IF g'.c = "end" THEN "language" ELSE "option"
      /\ seen' = IF g'.c = "end" THEN seen ELSE Append(seen, o)
      /\ UNCHANGED <<setup, options, behaviour, otype_set, codeset, converters, nc,
                     extern_converter, flist, outcome>>
  BY DEF NextOption
<1>2. /\ TypeOK /\ Shape /\ seen \in Options /\ outcome = "running" /\ codeset = Null
      /\ Scanning(g) /\ options.language \in Word \cup {Null}
  BY <1>1 DEF Inv, Shape, TypeOK
<1>3. g'.c # "end" => Scanning(g') /\ o \in Codes \X Word
  BY NextReturned
<1>4. Acted = seen /\ Acted' = Acted
  BY NextReturned
<1> HIDE DEF o
<1>5. seen' \in Options /\ (g'.c # "end" => seen' # <<>> /\ seen'[Len(seen')] = o)
  BY <1>1, <1>2, <1>3 DEF Options
<1>6. Shape'
  BY <1>1, <1>2, <1>3, <1>5 DEF Shape, o
<1>7. TypeOK'
  BY <1>1, <1>2 DEF TypeOK
<1>8. Stage' /\ NativeCharsetFits'
  BY <1>1, <1>2 DEF Stage, NativeCharsetFits
<1>9. TypeKept(Acted) /\ TargetKept(Acted) /\ ExternalKept(Acted)
  BY <1>2 DEF Inv, History, Going
<1>10. ~Decided /\ ~Decided' /\ Untold /\ Untold'
  BY <1>1, <1>2 DEF Decided, Untold
<1>11. TypeKept(Acted)'
  BY <1>1, <1>4, <1>9, <1>10 DEF TypeKept
<1>12. TargetKept(Acted)' /\ ExternalKept(Acted)'
  BY <1>1, <1>4, <1>9, <1>10 DEF TargetKept, ExternalKept
<1> QED BY <1>6, <1>7, <1>8, <1>11, <1>12 DEF Inv, History

(* An end that is not the start of reading files keeps everything.          *)
LEMMA EndKeeps ==
  ASSUME Inv, pc' = "ended", outcome' \notin {"running", "ready"},
         outcome' \in {"text", Null} \cup ToSet(LISTS) \cup Troubles,
         UNCHANGED <<setup, behaviour, otype_set, seen>>, DOMAIN options' = Fields,
         options'.output_type \in ToSet(OTS) \cup {"CONVERT"},
         options'.prefix_filename \in {-1, 0, 1},
         converters' \in Seq(ConvNames), nc' \in Nat, NativeCharsetFits'
  PROVE  Inv'
<1>1. TypeOK /\ Shape
  BY DEF Inv
<1>2. ToSet(converters') \subseteq ToSet(ConverterNames)
  BY MembersOf DEF ConvNames
<1>3. TypeOK'
  BY <1>1, <1>2 DEF TypeOK
<1>4. Shape'
  BY <1>1 DEF Shape
<1>5. Stage' /\ History'
  BY DEF Stage, History, Going
<1> QED BY <1>3, <1>4, <1>5 DEF Inv

LEMMA HowOptionsEnd ==
  ASSUME UnknownOption \/ Inform
  PROVE  /\ outcome' \notin {"running", "ready"}
         /\ outcome' \in {"text", Null} \cup ToSet(LISTS) \cup Troubles
<1>1. PrintSomeList(g.optarg) \in ToSet(LISTS) \cup {Null}
  BY Expanded DEF PrintSomeList
<1>2. "running" \notin ToSet(LISTS) \cup {Null} /\ "ready" \notin ToSet(LISTS) \cup {Null}
  BY ListNames DEF Null
<1>3. outcome' \in {"usage", "text", PrintSomeList(g.optarg)}
  BY DEF UnknownOption, Inform, Exit
<1> QED BY <1>1, <1>2, <1>3 DEF Troubles

LEMMA OptionEnds ==
  ASSUME Inv, UnknownOption \/ Inform
  PROVE  Inv'
<1>1. /\ pc = "option" /\ pc' = "ended"
      /\ UNCHANGED <<setup, g, options, behaviour, otype_set, codeset, converters, nc, seen>>
  BY DEF UnknownOption, Inform, Exit
<1>2. /\ TypeOK /\ DOMAIN options = Fields /\ converters \in Seq(ConvNames) /\ codeset = Null
  BY <1>1 DEF Inv, Shape
<1>3. outcome' \notin {"running", "ready"}
      /\ outcome' \in {"text", Null} \cup ToSet(LISTS) \cup Troubles
  BY HowOptionsEnd
<1>4. NativeCharsetFits'
  BY <1>1, <1>2 DEF NativeCharsetFits
<1> QED BY <1>1, <1>2, <1>3, <1>4, EndKeeps DEF TypeOK

(* The charset that is kept with the language.                              *)
LEMMA DetectedFits ==
  ASSUME NEW sys \in {s.sys : s \in CommandLines}, NEW lang \in Word \cup {Null},
         DetectLang(sys, lang).codeset # Null
  PROVE  \E locname \in DOMAIN sys.codesets :
           /\ sys.codesets[locname] = DetectLang(sys, lang).codeset
           /\ StripLocaleName(LocaleAliasConvert(sys, locname))
                = DetectLang(sys, lang).language
<1> DEFINE found == DetectLang(sys, lang)
           locname == IF lang = Null THEN DetectUserLanguage(sys) ELSE lang
           converted == LocaleAliasConvert(sys, locname)
           direct == DetectTargetCharset(sys, locname)
<1>1. /\ found.language = StripLocaleName(converted)
      /\ found.codeset = IF lang # Null /\ direct = Null
                         THEN DetectTargetCharset(sys, converted) ELSE direct
  BY DEF DetectLang
<1>2. CASE lang # Null /\ direct = Null
  <2>1. found.codeset = DetectTargetCharset(sys, converted)
    BY <1>1, <1>2
  <2>2. converted \in DOMAIN sys.codesets /\ sys.codesets[converted] = found.codeset
    BY <2>1 DEF DetectTargetCharset
  <2>3. lang \in Word /\ converted = LocaleAliasConvert(sys, lang)
    BY <1>2
  <2> HIDE DEF converted, found
  <2>4. LocaleAliasConvert(sys, converted) = converted
    BY <2>2, <2>3, AliasesAssumption
  <2> QED BY <1>1, <2>2, <2>4 DEF found
<1>3. CASE ~(lang # Null /\ direct = Null)
  <2>1. found.codeset = DetectTargetCharset(sys, locname)
    BY <1>1, <1>3
  <2>2. locname \in DOMAIN sys.codesets /\ sys.codesets[locname] = found.codeset
    BY <2>1 DEF DetectTargetCharset
  <2>3. found.language = StripLocaleName(LocaleAliasConvert(sys, locname))
    BY <1>1
  <2> HIDE DEF locname
  <2> QED BY <2>2, <2>3
<1> QED BY <1>2, <1>3

LEMMA DetectLanguageKeeps ==
  ASSUME Inv, DetectLanguage
  PROVE  Inv'
<1> DEFINE found == DetectLang(setup.sys, options.language)
<1>1. /\ pc = "language" /\ options' = [options EXCEPT !.language = found.language]
      /\ codeset' = found.codeset
      /\ IF found.language = Null THEN outcome' = "no language" /\ pc' = "ended"
         ELSE pc' = "behaviour" /\ outcome' = outcome
      /\ setup' = setup /\ behaviour' = behaviour /\ otype_set' = otype_set
      /\ converters' = converters /\ nc' = nc /\ extern_converter' = extern_converter
      /\ seen' = seen
  BY DEF DetectLanguage, Exit
<1>2. /\ TypeOK /\ Shape /\ DOMAIN options = Fields /\ converters \in Seq(ConvNames)
      /\ setup \in CommandLines /\ options.language \in Word \cup {Null}
      /\ outcome = "running"
  BY <1>1 DEF Inv, Shape, TypeOK
<1>3. NativeCharsetFits'
  <2>1. setup.sys \in {s.sys : s \in CommandLines}
    BY <1>2
  <2>2. options'.language = found.language
    BY <1>1, <1>2 DEF Fields
  <2> QED BY <1>1, <1>2, <2>1, <2>2, DetectedFits DEF NativeCharsetFits
<1> HIDE DEF found
<1>4. /\ DOMAIN options' = Fields /\ options'.output_type = options.output_type
      /\ options'.target_enc = options.target_enc
      /\ options'.target_enc_str = options.target_enc_str
      /\ options'.prefix_filename = options.prefix_filename
  BY <1>1, <1>2 DEF Fields
<1>5. CASE found.language = Null
  BY <1>1, <1>2, <1>3, <1>4, <1>5, EndKeeps DEF TypeOK, Troubles
<1>6. CASE found.language # Null
  <2>1. pc' = "behaviour" /\ outcome' = "running" /\ Acted = seen /\ Acted' = seen
        /\ ~Decided /\ ~Decided'
    BY <1>1, <1>2, <1>6 DEF Acted, Decided
  <2>2. TypeKept(seen) /\ TargetKept(seen) /\ ExternalKept(seen)
    BY <1>2, <2>1 DEF Inv, History, Going
  <2>3. TypeKept(seen)' /\ TargetKept(seen)' /\ ExternalKept(seen)'
    BY <1>1, <1>4, <2>1, <2>2 DEF TypeKept, TargetKept, ExternalKept, Untold
  <2>4. TypeOK' /\ Shape' /\ Stage'
    BY <1>1, <1>2, <1>4, <2>1 DEF TypeOK, Shape, Stage
  <2> QED BY <1>1, <1>3, <2>1, <2>3, <2>4 DEF Inv, History
<1> QED BY <1>5, <1>6

(* From the choice of what to do to the reading of files.                   *)
LEMMA DecideBehaviourKeeps ==
  ASSUME Inv, DecideBehaviour
  PROVE  Inv'
<1> DEFINE string == IF setup.charset # Null THEN setup.charset
                     ELSE LangCodeset([codeset |-> codeset])
           p == setup.program
<1>1. /\ pc = "behaviour" /\ behaviour' = (IF otype_set THEN "ENCA" ELSE behaviour)
      /\ setup' = setup /\ otype_set' = otype_set /\ codeset' = codeset
      /\ converters' = converters /\ nc' = nc /\ extern_converter' = extern_converter
      /\ seen' = seen
  BY DEF DecideBehaviour
<1>2. /\ TypeOK /\ Shape /\ DOMAIN options = Fields /\ converters \in Seq(ConvNames)
      /\ seen \in Options /\ outcome = "running" /\ behaviour \in {"ENCA", "ENCONV"}
      /\ nc \in Nat /\ Stage /\ NativeCharsetFits /\ Acted = seen /\ ~Decided /\ Untold
  BY <1>1 DEF Inv, Shape, TypeOK, Acted, Decided, Untold
<1>3. TypeKept(seen) /\ TargetKept(seen) /\ ExternalKept(seen)
  BY <1>2 DEF Inv, History, Going
<1>4. behaviour' = "ENCONV" <=> ByName(p, seen)
  BY <1>1, <1>2, <1>3 DEF TypeKept, ByName
<1>5. ByName(p, seen) => ~Explicit(seen) /\ Of(seen, {"x"}) = {}
  <2>1. Of(seen, {"x"}) \subseteq Of(seen, TypeLetters)
    BY LettersOfTypes DEF Of
  <2>2. TypesOf(seen) \subseteq Of(seen, TypeLetters)
    BY DEF TypesOf
  <2> QED BY <2>1, <2>2 DEF ByName, Explicit
<1>6. CASE behaviour' = "ENCA"
  <2>1. pc' = "files" /\ options' = options /\ outcome' = "running" /\ Decided' /\ Acted' = seen
    BY <1>1, <1>2, <1>6 DEF DecideBehaviour, Decided, Acted
  <2>2. ~ByName(p, seen)
    BY <1>4, <1>6
  <2>3. TypeOK' /\ Shape' /\ Stage' /\ NativeCharsetFits'
    BY <1>1, <1>2, <2>1 DEF TypeOK, Shape, Stage, NativeCharsetFits
  <2>4. TypeKept(seen)' /\ TargetKept(seen)' /\ ExternalKept(seen)'
    BY <1>1, <1>2, <1>3, <2>1, <2>2 DEF TypeKept, TargetKept, ExternalKept, Untold, ByName
  <2> QED BY <1>1, <2>1, <2>3, <2>4 DEF Inv, History
<1>7. CASE behaviour' = "ENCONV"
  <2>1. PICK target \in TargetStrings(string) :
          IF target = ""
          THEN options' = WithTarget(options, target) /\ outcome' = "no charset" /\ pc' = "ended"
          ELSE /\ options' = [WithTarget(options, target) EXCEPT !.output_type = "CONVERT"]
               /\ pc' = "files" /\ outcome' = outcome
    BY <1>7 DEF DecideBehaviour, Exit
  <2>2. /\ DOMAIN options' = Fields /\ options'.language = options.language
        /\ options'.output_type = IF target = "" THEN options.output_type ELSE "CONVERT"
        /\ options'.target_enc = TargetEnc(target) /\ options'.target_enc_str = target
        /\ options'.prefix_filename = options.prefix_filename
    BY <1>2, <2>1 DEF Fields, WithTarget
  <2>3. NativeCharsetFits'
    BY <1>1, <1>2, <2>2 DEF NativeCharsetFits
  <2>4. CASE target = ""
    <3>1. UNCHANGED <<setup, otype_set, seen>> /\ behaviour' \in {"ENCA", "ENCONV"}
      BY <1>1, <1>2
    <3>2. TypeOK' /\ Shape' /\ Stage'
      BY <1>1, <1>2, <2>1, <2>2, <2>4 DEF TypeOK, Shape, Stage, Troubles
    <3>3. History'
      BY <2>1, <2>4 DEF History, Going
    <3> QED BY <2>3, <3>2, <3>3 DEF Inv
  <2>5. CASE target # ""
    <3>1. pc' = "files" /\ outcome' = "running" /\ Decided' /\ Acted' = seen
      BY <1>1, <1>2, <2>1, <2>5 DEF Decided, Acted
    <3>2. TypeOK' /\ Shape' /\ Stage'
      BY <1>1, <1>2, <2>2, <2>5, <3>1 DEF TypeOK, Shape, Stage
    <3>3. target # Null
      BY DEF TargetStrings, BehindTheEnd, Null, LangCodeset
    <3>4. TypeKept(seen)'
      BY <1>1, <1>3, <1>4, <1>5, <1>7, <2>2, <2>5, <3>1 DEF TypeKept, Untold, ByName
    <3>5. TargetKept(seen)'
      <4>1. TargetEnc(target) \in {target, Null}
        BY DEF TargetEnc
      <4>2. setup.charset # Null => target \in TargetStrings(setup.charset)
        BY <2>1
      <4> QED BY <1>1, <1>4, <1>5, <1>7, <2>2, <3>3, <4>1, <4>2 DEF TargetKept
    <3>6. ExternalKept(seen)'
      BY <1>1, <1>3, <3>1 DEF ExternalKept
    <3> QED BY <1>1, <2>3, <3>1, <3>2, <3>4, <3>5, <3>6 DEF Inv, History
  <2> QED BY <2>4, <2>5
<1> QED BY <1>1, <1>2, <1>6, <1>7

LEMMA TakeFilesKeeps ==
  ASSUME Inv, TakeFiles
  PROVE  Inv'
<1> DEFINE default == AddParsedConverters(<<>>, 0, DefaultConverterList)
           bare == flist' = <<>> /\ setup.tty /\ setup.words = <<>>
           lost == /\ options.output_type = "CONVERT"
                   /\ ExternalConverterListed(converters') /\ ~CheckExternalConverter
<1>1. /\ pc = "files" /\ converters' = (IF nc = 0 THEN default.convs ELSE converters)
      /\ nc' = (IF nc = 0 THEN default.nc ELSE nc)
      /\ IF bare THEN outcome' = "text" /\ pc' = "ended"
         ELSE IF lost THEN outcome' = "no converter" /\ pc' = "ended"
         ELSE pc' = "prefix" /\ outcome' = outcome
      /\ setup' = setup /\ options' = options /\ behaviour' = behaviour
      /\ otype_set' = otype_set /\ codeset' = codeset
      /\ extern_converter' = extern_converter /\ seen' = seen
  BY DEF TakeFiles, Exit
<1>2. /\ TypeOK /\ Shape /\ DOMAIN options = Fields /\ converters \in Seq(ConvNames)
      /\ outcome = "running" /\ nc \in Nat /\ Stage /\ NativeCharsetFits
      /\ Acted = seen /\ Decided
  BY <1>1 DEF Inv, Shape, TypeOK, Acted, Decided
<1>3. TypeKept(seen) /\ TargetKept(seen) /\ ExternalKept(seen)
  BY <1>2 DEF Inv, History, Going
<1>4. converters' \in Seq(ConvNames) /\ nc' \in Nat
  <2>1. DefaultConverterList \in Word
    BY WordsAssumption
  <2>2. <<>> \in Seq(ConvNames) /\ 0 \in Nat
    OBVIOUS
  <2>3. default \in Lists
    BY <2>1, <2>2, ConvertersAdded
  <2> HIDE DEF default
  <2> QED BY <1>1, <1>2, <2>3 DEF Lists
<1>5. NativeCharsetFits'
  BY <1>1, <1>2 DEF NativeCharsetFits
<1> HIDE DEF default, bare, lost
<1>6. CASE bare \/ lost
  BY <1>1, <1>2, <1>4, <1>5, <1>6, EndKeeps DEF TypeOK, Troubles
<1>7. CASE ~bare /\ ~lost
  <2>1. pc' = "prefix" /\ outcome' = "running" /\ Acted' = seen /\ Decided'
    BY <1>1, <1>2, <1>7 DEF Acted, Decided
  <2>2. Checked'
    BY <1>1, <1>7 DEF Checked, lost, ExternalConverterListed, CheckExternalConverter
  <2>3. ToSet(converters') \subseteq ToSet(ConverterNames)
    BY <1>4, MembersOf DEF ConvNames
  <2>4. TypeOK' /\ Shape' /\ Stage'
    BY <1>1, <1>2, <1>4, <2>1, <2>2, <2>3 DEF TypeOK, Shape, Stage
  <2>5. TypeKept(seen)' /\ TargetKept(seen)' /\ ExternalKept(seen)'
    BY <1>1, <1>2, <1>3, <2>1 DEF TypeKept, TargetKept, ExternalKept, Untold
  <2> QED BY <1>1, <1>5, <2>1, <2>4, <2>5 DEF Inv, History
<1> QED BY <1>6, <1>7

LEMMA DecidePrefixKeeps ==
  ASSUME Inv, DecidePrefix
  PROVE  Inv'
<1> DEFINE prefix == IF options.prefix_filename # -1 THEN options.prefix_filename
                     ELSE IF Len(flist) <= 1 /\ options.output_type # "DETAILS"
                          THEN 0 ELSE 1
<1>1. /\ pc = "prefix" /\ pc' = "analyser"
      /\ options' = [options EXCEPT !.prefix_filename = prefix]
      /\ setup' = setup /\ behaviour' = behaviour /\ otype_set' = otype_set
      /\ codeset' = codeset /\ converters' = converters /\ nc' = nc
      /\ extern_converter' = extern_converter /\ outcome' = outcome /\ seen' = seen
  BY DEF DecidePrefix
<1>2. /\ TypeOK /\ Shape /\ DOMAIN options = Fields /\ outcome = "running"
      /\ Stage /\ NativeCharsetFits /\ Acted = seen /\ Decided
  BY <1>1 DEF Inv, Shape, TypeOK, Acted, Decided
<1>3. TypeKept(seen) /\ TargetKept(seen) /\ ExternalKept(seen)
  BY <1>2 DEF Inv, History, Going
<1>4. prefix \in {0, 1}
  BY <1>2 DEF TypeOK
<1> HIDE DEF prefix
<1>5. /\ DOMAIN options' = Fields /\ options'.output_type = options.output_type
      /\ options'.language = options.language /\ options'.target_enc = options.target_enc
      /\ options'.target_enc_str = options.target_enc_str
      /\ options'.prefix_filename = prefix
  BY <1>1, <1>2 DEF Fields
<1>6. NativeCharsetFits'
  BY <1>1, <1>2, <1>5 DEF NativeCharsetFits
<1>7. Checked'
  BY <1>1, <1>2, <1>5 DEF Stage, Checked
<1>8. TypeOK' /\ Shape' /\ Stage' /\ Acted' = seen /\ Decided'
  <2>1. prefix # -1
    BY <1>4
  <2> QED BY <1>1, <1>2, <1>4, <1>5, <1>7, <2>1 DEF TypeOK, Shape, Stage, Acted, Decided
<1>9. TypeKept(seen)' /\ TargetKept(seen)' /\ ExternalKept(seen)'
  BY <1>1, <1>2, <1>3, <1>5, <1>8 DEF TypeKept, TargetKept, ExternalKept, Untold
<1> QED BY <1>1, <1>6, <1>8, <1>9 DEF Inv, History

LEMMA AllocAnalyserKeeps ==
  ASSUME Inv, AllocAnalyser
  PROVE  Inv'
<1>1. /\ pc = "analyser" /\ pc' = "ended"
      /\ outcome' = IF options.language \in GetLanguages THEN "ready"
                    ELSE "unknown language"
      /\ setup' = setup /\ options' = options /\ behaviour' = behaviour
      /\ otype_set' = otype_set /\ codeset' = codeset /\ converters' = converters
      /\ nc' = nc /\ extern_converter' = extern_converter /\ seen' = seen
  BY DEF AllocAnalyser, Exit
<1>2. /\ TypeOK /\ Shape /\ DOMAIN options = Fields /\ outcome = "running"
      /\ Stage /\ NativeCharsetFits /\ Acted = seen /\ Decided /\ Acted' = seen
  BY <1>1 DEF Inv, Shape, TypeOK, Acted, Decided
<1>3. TypeKept(seen) /\ TargetKept(seen) /\ ExternalKept(seen)
  BY <1>2 DEF Inv, History, Going
<1>4. TypeOK' /\ Shape' /\ NativeCharsetFits'
  BY <1>1, <1>2 DEF TypeOK, Shape, NativeCharsetFits, Troubles
<1>5. Stage'
  BY <1>1, <1>2 DEF Stage, Checked
<1>6. CASE options.language \in GetLanguages
  <2>1. Decided'
    BY <1>1, <1>6 DEF Decided
  <2>2. TypeKept(seen)' /\ TargetKept(seen)' /\ ExternalKept(seen)'
    BY <1>1, <1>2, <1>3, <2>1 DEF TypeKept, TargetKept, ExternalKept, Untold
  <2> QED BY <1>1, <1>2, <1>4, <1>5, <2>2 DEF Inv, History
<1>7. CASE options.language \notin GetLanguages
  BY <1>1, <1>4, <1>5, <1>7 DEF Inv, History, Going
<1> QED BY <1>6, <1>7

LEMMA StepKeeps == Inv /\ [Next]_vars => Inv'
<1> SUFFICES ASSUME Inv, [Next]_vars PROVE Inv'
  OBVIOUS
<1>1. CASE Start
  BY <1>1, StartKeeps
<1>2. CASE NextOption
  BY <1>2, NextOptionKeeps
<1>3. CASE UnknownOption \/ Inform
  BY <1>3, OptionEnds
<1>4. CASE SetOutputType
  BY <1>4, SetOutputTypeKeeps
<1>5. CASE ConvertTo
  BY <1>5, ConvertToKeeps
<1>6. CASE SetPrefix
  BY <1>6, SetPrefixKeeps
<1>7. CASE SetLanguage
  BY <1>7, SetLanguageKeeps
<1>8. CASE Behave \/ AddConverters \/ SetExternal \/ Verbose
  BY <1>8, OtherOptionKeeps
<1>9. CASE DetectLanguage
  BY <1>9, DetectLanguageKeeps
<1>10. CASE DecideBehaviour
  BY <1>10, DecideBehaviourKeeps
<1>11. CASE TakeFiles
  BY <1>11, TakeFilesKeeps
<1>12. CASE DecidePrefix
  BY <1>12, DecidePrefixKeeps
<1>13. CASE AllocAnalyser
  BY <1>13, AllocAnalyserKeeps
<1>14. CASE UNCHANGED vars
  <2>1. TypeOK' /\ Shape' /\ Stage' /\ NativeCharsetFits'
    BY <1>14 DEF Inv, vars, TypeOK, Shape, Stage, Checked, NativeCharsetFits
  <2>2. Acted' = Acted /\ (Decided' <=> Decided) /\ (Untold' <=> Untold)
    BY <1>14 DEF vars, Acted, Decided, Untold
  <2>3. History'
    BY <1>14, <2>2 DEF Inv, vars, History, Going, TypeKept, TargetKept, ExternalKept
  <2> QED BY <2>1, <2>3 DEF Inv
<1> QED BY <1>1, <1>2, <1>3, <1>4, <1>5, <1>6, <1>7, <1>8, <1>9, <1>10, <1>11,
           <1>12, <1>13, <1>14 DEF Next

LEMMA AlwaysInv == Spec => []Inv
BY InitInv, StepKeeps, PTL DEF Spec
-----------------------------------------------------------------------------
(* The settings are always of the declared shape, whatever the program is   *)
(* started with (interpret_opt()).                                          *)
THEOREM CommandLineTypes == Spec => []TypeOK
<1>1. Inv => TypeOK
  BY DEF Inv
<1> QED BY <1>1, AlwaysInv, PTL

(* The charset enconv would convert to is always that of a locale of the    *)
(* language the input is taken to be in (detect_lang()).                    *)
THEOREM NativeCharsetAlwaysFits == Spec => []NativeCharsetFits
<1>1. Inv => NativeCharsetFits
  BY DEF Inv
<1> QED BY <1>1, AlwaysInv, PTL

(* Whatever the options and their order, what is done is what the last type *)
(* asked for says, or else what the program was last told to be, and the    *)
(* target is the last one given, or that of the environment                 *)
(* (interpret_opt(), process_opt()).                                        *)
THEOREM TypeIsAlwaysAsked == Spec => []TypeIsAsked
<1>1. ASSUME Inv PROVE TypeIsAsked
  <2> SUFFICES ASSUME Decided PROVE TypeIsAsked
    BY DEF TypeIsAsked
  <2>1. Acted = seen /\ Going
    BY <1>1 DEF Inv, TypeOK, Acted, Decided, Going
  <2>2. TypeKept(seen) /\ TargetKept(seen)
    BY <1>1, <2>1 DEF Inv, History
  <2>3. Last1({"x"}) = LastOf(seen, {"x"}) /\ Last1({"g", "c"}) = LastOf(seen, {"g", "c"})
    BY DEF Last1, LastOf, Of
  <2>4. Explicit(seen) => Of(seen, {"x"}) # {}
    <3>1. ASSUME Explicit(seen) PROVE Of(seen, {"x"}) # {}
      <4>1. TypesOf(seen) \subseteq DOMAIN seen /\ TypesOf(seen) # {}
        BY <3>1 DEF Explicit, TypesOf, Of
      <4>2. PICK n \in Nat : DOMAIN seen = 1 .. n
        BY <1>1 DEF Inv, Shape, Options
      <4>3. Max(TypesOf(seen)) \in TypesOf(seen)
        BY <4>1, <4>2, LastPlace
      <4> QED BY <3>1, <4>1, <4>3 DEF Explicit, Of
    <3> QED BY <3>1
  <2>5. TypesOf(seen) = {i \in Of(seen, TypeLetters) :
           ~(seen[i][1] = "n" /\ ExpandAbbreviation(seen[i][2], OTNAMES) = Null)}
    BY DEF TypesOf, NoType
  <2>6. Explicit(seen) => options.target_enc_str \in TargetStrings(seen[Last1({"x"})][2])
    BY <2>2, <2>3, <2>4 DEF TargetKept, Targets
  <2>7. options.output_type = "CONVERT" =>
          options.target_enc \in {options.target_enc_str, Null}
    BY <2>2 DEF TargetKept
  <2>8. /\ options.output_type = "CONVERT"
             <=> (Explicit(seen) \/ (Of(seen, TypeLetters) = {} /\ Enconv(setup.program, seen)))
        /\ Of(seen, TypeLetters) = {} /\ Enconv(setup.program, seen) /\ setup.charset # Null
             => options.target_enc_str \in TargetStrings(setup.charset)
    BY <2>2 DEF TypeKept, TargetKept, ByName
  <2>9. Enconv(setup.program, seen)
          = IF Last1({"g", "c"}) = 0 THEN CalledAs(setup.program, "enconv")
            ELSE seen[Last1({"g", "c"})][1] = "c"
    BY <2>3 DEF Enconv
  <2>10. Of(seen, TypeLetters)
           = {i \in DOMAIN seen : seen[i][1] \in DOMAIN OptcharToOtype \cup {"n", "x"}}
    BY DEF Of, TypeLetters
  <2>11. \A s : Undotted(s) => TargetStrings(s) = {s}
    BY DEF Undotted, TargetStrings
  <2>12. Explicit(seen) /\ Undotted(seen[Last1({"x"})][2])
           => options.target_enc_str = seen[Last1({"x"})][2]
    BY <2>6, <2>11
  <2>13. ASSUME Of(seen, TypeLetters) = {}, Enconv(setup.program, seen),
                setup.charset # Null, Undotted(setup.charset)
         PROVE  options.target_enc_str = setup.charset
    <3>1. options.target_enc_str \in TargetStrings(setup.charset)
      BY <2>8, <2>13
    <3>2. TargetStrings(setup.charset) = {setup.charset}
      BY <2>11, <2>13
    <3> QED BY <3>1, <3>2
  <2> QED BY <2>5, <2>7, <2>8, <2>9, <2>10, <2>12, <2>13 DEF TypeIsAsked, Explicit
<1> QED BY <1>1, AlwaysInv, PTL

(* Files begin to be read only with a language libenca knows, and a         *)
(* conversion only with a target and, where an external converter is to be  *)
(* tried, with one that can be run, the last one named                      *)
(* (interpret_opt(), check_external_converter(), main()).                   *)
THEOREM ReadyIsAlwaysSane == Spec => []ReadyIsSane
<1>1. ASSUME Inv PROVE ReadyIsSane
  <2> SUFFICES ASSUME outcome = "ready" PROVE ReadyIsSane
    BY DEF ReadyIsSane
  <2>1. Acted = seen /\ Going /\ pc = "ended"
    BY <1>1 DEF Inv, TypeOK, Acted, Going
  <2>2. TargetKept(seen) /\ ExternalKept(seen) /\ Checked
        /\ options.prefix_filename # -1 /\ options.language \in GetLanguages
    BY <1>1, <2>1 DEF Inv, History, Stage
  <2>3. AskedFor(seen) = IF Last1({"E"}) = 0 THEN DefaultExternalConverter
                         ELSE seen[Last1({"E"})][2]
    BY DEF AskedFor, LastOf, Of, Last1
  <2> QED BY <2>1, <2>2, <2>3 DEF ReadyIsSane, TargetKept, ExternalKept, Checked
<1> QED BY <1>1, AlwaysInv, PTL
-----------------------------------------------------------------------------
(* Converters.  What was named, with `none' for what it is.                  *)
Given == ConvNames \cup {"none"}
NameOf(word) == IF word = "none" THEN "none" ELSE ExpandAbbreviation(word, ConverterNames)

LEMMA NameOfWord ==
  ASSUME NEW word
  PROVE  /\ NameOf(word) \in Given \cup {Null}
         /\ NameOf(word) = Null <=> word # "none" /\ ExpandAbbreviation(word, ConverterNames) = Null
         /\ NameOf(word) = "none" <=> word = "none"
<1> DEFINE cname == ExpandAbbreviation(word, ConverterNames)
<1>1. cname \in ConvNames \cup {Null}
  BY Expanded DEF ConvNames
<1>2. "none" \notin ConvNames /\ "none" # Null
  BY ConvertersAssumption DEF ConvNames, Null
<1>3. NameOf(word) = IF word = "none" THEN "none" ELSE cname
  BY DEF NameOf
<1> HIDE DEF cname
<1>4. CASE word = "none"
  BY <1>2, <1>3, <1>4 DEF Given
<1>5. CASE word # "none"
  BY <1>1, <1>2, <1>3, <1>5 DEF Given, cname
<1> QED BY <1>4, <1>5

(* Only what follows the last `none' counts. *)
LEMMA SinceNoneMore ==
  ASSUME NEW a \in Seq(Given), NEW n \in Given
  PROVE  /\ SinceNone(<<>>) = <<>>
         /\ SinceNone(a) \in Seq(Given)
         /\ SinceNone(Append(a, n)) = IF n = "none" THEN <<>> ELSE Append(SinceNone(a), n)
<1> DEFINE l == Len(a)  b == Append(a, n)
           A == {i \in DOMAIN a : a[i] = "none"}
           B == {i \in DOMAIN b : b[i] = "none"}
<1>1. /\ l \in Nat /\ DOMAIN a = 1 .. l /\ DOMAIN b = 1 .. l + 1 /\ Len(b) = l + 1
      /\ b[l + 1] = n /\ \A i \in 1 .. l : b[i] = a[i]
      /\ b \in Seq(Given)
  OBVIOUS
<1>2. SinceNone(<<>>) = <<>>
  <2>1. {i \in DOMAIN <<>> : <<>>[i] = "none"} = {}
    OBVIOUS
  <2> QED BY <2>1 DEF SinceNone
<1>3. /\ SinceNone(a) = IF A = {} THEN a ELSE SubSeq(a, Max(A) + 1, l)
      /\ SinceNone(b) = IF B = {} THEN b ELSE SubSeq(b, Max(B) + 1, l + 1)
  BY <1>1 DEF SinceNone, From
<1>4. B = IF n = "none" THEN A \cup {l + 1} ELSE A
  <2>1. \A i : i \in 1 .. l + 1 <=> i \in 1 .. l \/ i = l + 1
    BY <1>1
  <2>2. \A i \in 1 .. l : i # l + 1
    BY <1>1
  <2> HIDE DEF l, b
  <2> QED BY <1>1, <2>1, <2>2
<1>5. A \subseteq 1 .. l
  BY <1>1
<1> HIDE DEF A, B, l, b
<1>6. A # {} => Max(A) \in 1 .. l
  BY <1>1, <1>5, LastPlace
<1>7. n = "none" => B # {} /\ Max(B) = l + 1
  BY <1>1, <1>4, <1>5, LastPlace
<1> DEFINE m == Max(A)
<1> HIDE DEF m
<1>8. ASSUME A # {} PROVE SubSeq(a, m + 1, l) \in Seq(Given)
  <2>1. m + 1 \in 1 .. l + 1
    BY <1>1, <1>6, <1>8 DEF m
  <2> QED BY <1>1, <2>1 DEF l
<1>9. SinceNone(a) \in Seq(Given)
  BY <1>3, <1>8 DEF m
<1>10. CASE n = "none"
  <2>1. SinceNone(b) = SubSeq(b, (l + 1) + 1, l + 1)
    BY <1>3, <1>7, <1>10
  <2>2. SubSeq(b, (l + 1) + 1, l + 1) = <<>>
    BY <1>1
  <2> QED BY <1>2, <1>9, <1>10, <2>1, <2>2 DEF b
<1>11. CASE n # "none" /\ A = {}
  <2>1. SinceNone(b) = b /\ SinceNone(a) = a
    BY <1>3, <1>4, <1>11
  <2> QED BY <1>2, <1>9, <1>11, <2>1 DEF b
<1>12. CASE n # "none" /\ A # {}
  <2>1. m \in 1 .. l
    BY <1>6, <1>12 DEF m
  <2>2. SinceNone(b) = SubSeq(b, m + 1, l + 1) /\ SinceNone(a) = SubSeq(a, m + 1, l)
    BY <1>3, <1>4, <1>12 DEF m
  <2> DEFINE x == SubSeq(b, m + 1, l + 1)  y == SubSeq(a, m + 1, l)  z == Append(y, n)
  <2>3. /\ y \in Seq(Given) /\ Len(y) = l - m
        /\ \A i \in 1 .. l - m : y[i] = a[m + i]
    <3>1. Len(a) = l /\ m + 1 \in 1 .. l + 1
      BY <1>1, <2>1 DEF l
    <3> QED BY <1>1, <2>1, <3>1
  <2>4. /\ x \in Seq(Given) /\ Len(x) = l + 1 - m
        /\ \A i \in 1 .. l + 1 - m : x[i] = b[m + i]
    BY <1>1, <2>1
  <2>5. /\ z \in Seq(Given) /\ Len(z) = l + 1 - m
        /\ \A i \in 1 .. l + 1 - m : z[i] = IF i = l + 1 - m THEN n ELSE y[i]
    <3> HIDE DEF y
    <3> QED BY <1>1, <2>1, <2>3
  <2> HIDE DEF x, y, z
  <2>6. ASSUME NEW i \in 1 .. l + 1 - m PROVE x[i] = z[i]
    <3>1. CASE i = l + 1 - m
      <4>1. m + i = l + 1
        BY <1>1, <2>1, <3>1
      <4> QED BY <1>1, <2>4, <2>5, <3>1, <4>1
    <3>2. CASE i # l + 1 - m
      <4>1. i \in 1 .. l - m /\ m + i \in 1 .. l
        BY <1>1, <2>1, <3>2
      <4> QED BY <1>1, <2>3, <2>4, <2>5, <3>2, <4>1
    <3> QED BY <3>1, <3>2
  <2>7. x = z
    BY <2>4, <2>5, <2>6, SeqEqual
  <2> QED BY <1>2, <1>9, <1>12, <2>2, <2>7 DEF b, x, y, z
<1> QED BY <1>10, <1>11, <1>12

(* What a list adds is what it names, since the last `none'. *)
Reached(all) == [convs |-> SinceNone(all), nc |-> Len(all)]

LEMMA OneNamed ==
  ASSUME NEW all \in Seq(Given), NEW word, SinceNone(all) \in Seq(ConvNames)
  PROVE  LET one == AddConverter(SinceNone(all), word)
             more == IF NameOf(word) = Null THEN all ELSE Append(all, NameOf(word))
         IN [convs |-> one.convs, nc |-> Len(all) + one.added] = Reached(more)
<1> DEFINE cname == ExpandAbbreviation(word, ConverterNames)
           name == NameOf(word)
           one == AddConverter(SinceNone(all), word)
           more == IF name = Null THEN all ELSE Append(all, name)
           s == SinceNone(all)  l == Len(all)
<1>1. /\ name \in Given \cup {Null}
      /\ name = Null <=> word # "none" /\ cname = Null
      /\ name = "none" <=> word = "none"
  BY NameOfWord
<1>2. one = IF word = "none" THEN [convs |-> <<>>, added |-> 1]
            ELSE IF cname = Null THEN [convs |-> s, added |-> 0]
            ELSE [convs |-> Append(s, cname), added |-> 1]
  BY DEF AddConverter
<1>3. name = IF word = "none" THEN "none" ELSE cname
  BY DEF NameOf
<1>4. l \in Nat /\ l + 0 = l
  OBVIOUS
<1>5. name # Null => /\ Len(Append(all, name)) = l + 1
                     /\ SinceNone(Append(all, name)) = IF name = "none" THEN <<>> ELSE Append(s, name)
  <2> SUFFICES ASSUME name # Null
               PROVE /\ Len(Append(all, name)) = l + 1
                     /\ SinceNone(Append(all, name)) = IF name = "none" THEN <<>> ELSE Append(s, name)
    OBVIOUS
  <2>1. name \in Given
    BY <1>1
  <2> HIDE DEF name
  <2>2. Len(Append(all, name)) = l + 1
    BY <2>1
  <2> QED BY <2>1, <2>2, SinceNoneMore
<1> HIDE DEF name, one, cname, s, l
<1>6. Reached(more) = [convs |-> SinceNone(more), nc |-> Len(more)]
  BY DEF Reached
<1>7. CASE word = "none"
  <2>1. name # Null /\ name = "none"
    BY <1>1, <1>7
  <2>2. one.convs = <<>> /\ one.added = 1
    BY <1>2, <1>7
  <2>3. SinceNone(more) = <<>> /\ Len(more) = l + 1
    BY <1>5, <2>1
  <2> QED BY <1>6, <2>2, <2>3 DEF one, l, more, name
<1>8. CASE word # "none" /\ cname = Null
  <2>1. name = Null
    BY <1>1, <1>8
  <2>2. one.convs = s /\ one.added = 0
    BY <1>2, <1>8
  <2>3. SinceNone(more) = s /\ Len(more) = l
    BY <2>1 DEF s, l
  <2> QED BY <1>4, <1>6, <2>2, <2>3 DEF one, l, more, name
<1>9. CASE word # "none" /\ cname # Null
  <2>1. name # Null /\ name # "none" /\ name = cname
    BY <1>1, <1>3, <1>9
  <2>2. one.convs = Append(s, name) /\ one.added = 1
    BY <1>2, <1>9, <2>1
  <2>3. SinceNone(more) = Append(s, name) /\ Len(more) = l + 1
    BY <1>5, <2>1
  <2> QED BY <1>6, <2>2, <2>3 DEF one, l, more, name
<1> QED BY <1>7, <1>8, <1>9

(* No `none' is among what follows the last one. *)
LEMMA SinceNoneNames ==
  ASSUME NEW a \in Seq(Given)
  PROVE  SinceNone(a) \in Seq(ConvNames)
<1> DEFINE l == Len(a)
           A == {i \in DOMAIN a : a[i] = "none"}
<1>1. l \in Nat /\ DOMAIN a = 1 .. l /\ \A i \in 1 .. l : a[i] \in Given
  OBVIOUS
<1>2. SinceNone(a) = IF A = {} THEN a ELSE SubSeq(a, Max(A) + 1, l)
  BY DEF SinceNone, From
<1>3. \A i : i \in A <=> i \in 1 .. l /\ a[i] = "none"
  BY <1>1
<1> HIDE DEF l, A
<1>4. CASE A = {}
  <2>1. \A i \in 1 .. l : a[i] \in ConvNames
    BY <1>1, <1>3, <1>4 DEF Given
  <2>2. a \in Seq(ConvNames)
    <3> HIDE DEF Given, ConvNames
    <3>1. Len(a) = l
      BY DEF l
    <3> QED BY <1>1, <2>1, <3>1
  <2> QED BY <1>2, <1>4, <2>2
<1>5. CASE A # {}
  <2> DEFINE m == Max(A)
  <2>1. A \subseteq Int /\ \A y \in A : y <= l
    BY <1>1, <1>3
  <2>2. l \in Int
    BY <1>1
  <2>3. m \in A /\ \A y \in A : m >= y
    BY <2>1, <2>2, <1>5, MaxExists
  <2> HIDE DEF m
  <2>4. m \in 1 .. l
    BY <1>3, <2>3
  <2>5. ASSUME NEW i \in 1 .. l - m PROVE a[m + i] \in ConvNames
    <3>1. m + i \in 1 .. l /\ ~(m >= m + i)
      BY <1>1, <2>4
    <3>2. a[m + i] \in Given /\ a[m + i] # "none"
      BY <1>1, <1>3, <2>3, <3>1
    <3> QED BY <3>2 DEF Given
  <2> DEFINE y == SubSeq(a, m + 1, l)
  <2>6. /\ y \in Seq(Given) /\ Len(y) = l - m
        /\ \A i \in 1 .. l - m : y[i] = a[m + i]
    <3>1. Len(a) = l /\ m + 1 \in 1 .. l + 1
      BY <1>1, <2>4 DEF l
    <3> QED BY <1>1, <2>4, <3>1
  <2> HIDE DEF y
  <2>7. y \in Seq(ConvNames)
    <3>1. \A i \in 1 .. Len(y) : y[i] \in ConvNames
      BY <2>5, <2>6
    <3> HIDE DEF ConvNames, Given
    <3> QED BY <2>6, <3>1
  <2> QED BY <1>2, <1>5, <2>7 DEF y, m
<1> QED BY <1>4, <1>5

LEMMA Joined ==
  ASSUME NEW D, NEW a \in Seq(D), NEW p \in Seq(D), NEW n \in D
  PROVE  /\ a \o <<>> = a /\ a \o p \in Seq(D) /\ Len(a \o p) = Len(a) + Len(p)
         /\ a \o Append(p, n) = Append(a \o p, n)
<1>1. a \o <<>> = a /\ a \o p \in Seq(D) /\ Len(a \o p) = Len(a) + Len(p)
  OBVIOUS
<1>2. Append(p, n) = p \o <<n>> /\ Append(a \o p, n) = (a \o p) \o <<n>>
  <2>1. a \o p \in Seq(D)
    BY <1>1
  <2> QED BY <2>1, AppendIsConcat
<1>3. a \o (p \o <<n>>) = (a \o p) \o <<n>>
  <2>1. <<n>> \in Seq(D)
    OBVIOUS
  <2> QED BY <2>1, ConcatAssociative
<1> QED BY <1>1, <1>2, <1>3

Naming(word) == IF NameOf(word) = Null THEN {} ELSE {NameOf(word)}

(* The names of a list are found one by one. *)
NamingSteps(list, P) ==
  LET q == Split(list, ",")
  IN /\ P[0] = <<>> /\ P[Len(q)] = NamesIn(list)
     /\ \A k \in 1 .. Len(q) :
          P[k] = IF NameOf(q[k]) = Null THEN P[k - 1] ELSE Append(P[k - 1], NameOf(q[k]))

LEMMA NamingRounds ==
  ASSUME NEW list \in Word
  PROVE  \E P \in [0 .. Len(Split(list, ",")) -> Seq(Given)] : NamingSteps(list, P)
<1> DEFINE q == Split(list, ",")
           D == Given \cup {Null}
           names == [i \in DOMAIN q |-> NameOf(q[i])]
           S == ToSet(names) \ {Null}
           l == Len(q)
<1>1. q \in Seq(Word)
  BY SplitIsSeq
<1>2. NamesIn(list) = Kept(names, S)
  BY DEF NamesIn, NameOf
<1> HIDE DEF q
<1>3. l \in Nat /\ DOMAIN q = 1 .. l
  BY <1>1
<1>4. \A i \in DOMAIN q : NameOf(q[i]) \in D
  BY NameOfWord
<1>5. names \in Seq(D) /\ Len(names) = l /\ DOMAIN names = 1 .. l
      /\ \A i \in 1 .. l : names[i] = NameOf(q[i])
  <2> HIDE DEF D, l
  <2> QED BY <1>3, <1>4
<1>6. \A i \in 1 .. l : names[i] \in S <=> NameOf(q[i]) # Null
  BY <1>5 DEF ToSet
<1>7. D \cap S \subseteq Given
  BY DEF D
<1> HIDE DEF names, S, D
<1>8. PICK P \in [0 .. Len(names) -> Seq(D \cap S)] : KeptSteps(names, S, P)
  BY <1>5, KeptRounds
<1>9. P \in [0 .. l -> Seq(Given)]
  <2>1. Seq(D \cap S) \subseteq Seq(Given)
    BY <1>7
  <2> HIDE DEF l
  <2> QED BY <1>5, <1>8, <2>1
<1> HIDE DEF l
<1>10. /\ P[0] = <<>> /\ P[l] = NamesIn(list)
       /\ \A k \in 1 .. l : P[k] = IF NameOf(q[k]) = Null THEN P[k - 1]
                                   ELSE Append(P[k - 1], NameOf(q[k]))
  BY <1>2, <1>5, <1>6, <1>8 DEF KeptSteps
<1>11. NamingSteps(list, P)
  BY <1>10 DEF NamingSteps, l, q
<1> QED BY <1>9, <1>11 DEF l, q

LEMMA NamesAreGiven ==
  ASSUME NEW list \in Word
  PROVE  NamesIn(list) \in Seq(Given)
<1>1. \A t \in Seq(Word) : Len(t) \in Nat
  OBVIOUS
<1> DEFINE l == Len(Split(list, ","))
<1>2. PICK P \in [0 .. l -> Seq(Given)] : NamingSteps(list, P)
  BY NamingRounds
<1>3. P[l] = NamesIn(list)
  BY <1>2 DEF NamingSteps
<1>4. l \in Nat
  BY <1>1, SplitIsSeq
<1> HIDE DEF l
<1> QED BY <1>2, <1>3, <1>4

LEMMA AddedAre ==
  ASSUME NEW all \in Seq(Given), NEW list \in Word
  PROVE  /\ AddParsedConverters(SinceNone(all), Len(all), list) = Reached(all \o NamesIn(list))
         /\ all \o NamesIn(list) \in Seq(Given)
<1>1. /\ \A t \in Seq(Word) : Len(t) \in Nat
      /\ Len(all) \in Nat
  OBVIOUS
<1> DEFINE q == Split(list, ",")  l == Len(q)
<1>2. q \in Seq(Word) /\ l \in Nat
  BY <1>1, SplitIsSeq
<1>3. SinceNone(all) \in Seq(ConvNames)
  BY SinceNoneNames
<1>4. PICK P \in [0 .. l -> Lists] : AddedSteps(SinceNone(all), Len(all), list, P)
  BY <1>1, <1>3, AddedRounds
<1>5. PICK N \in [0 .. l -> Seq(Given)] : NamingSteps(list, N)
  BY NamingRounds
<1> DEFINE Step(a, word) == [convs |-> AddConverter(a.convs, word).convs,
                             nc |-> a.nc + AddConverter(a.convs, word).added]
<1>6. /\ P[0] = [convs |-> SinceNone(all), nc |-> Len(all)]
      /\ P[l] = AddParsedConverters(SinceNone(all), Len(all), list)
      /\ \A k \in 1 .. l : P[k] = Step(P[k - 1], q[k])
  BY <1>4 DEF AddedSteps
<1>7. /\ N[0] = <<>> /\ N[l] = NamesIn(list)
      /\ \A k \in 1 .. l : N[k] = IF NameOf(q[k]) = Null THEN N[k - 1]
                                  ELSE Append(N[k - 1], NameOf(q[k]))
  BY <1>5 DEF NamingSteps
<1> HIDE DEF q, l, Step
<1> DEFINE T == {k \in Nat : k <= l => P[k] = Reached(all \o N[k])}
<1>8. 0 \in T
  <2>1. all \o <<>> = all
    OBVIOUS
  <2>2. P[0] = Reached(all \o N[0])
    BY <1>6, <1>7, <2>1 DEF Reached
  <2> QED BY <2>2
<1>9. ASSUME NEW k \in 0 .. l - 1, k \in T PROVE k + 1 \in T
  <2>1. k \in 0 .. l /\ k + 1 \in 1 .. l /\ (k + 1) - 1 = k
    BY <1>2
  <2>2. P[k] = Reached(all \o N[k])
    BY <1>9, <2>1
  <2> DEFINE p == N[k]  word == q[k + 1]  a == all \o p
             more == IF NameOf(word) = Null THEN a ELSE Append(a, NameOf(word))
  <2>3. p \in Seq(Given)
    BY <1>5, <2>1
  <2>4. P[k + 1] = Step(P[k], word) /\ N[k + 1] = IF NameOf(word) = Null THEN p
                                                  ELSE Append(p, NameOf(word))
    BY <1>6, <1>7, <2>1
  <2> HIDE DEF p, word
  <2>5. a \in Seq(Given)
    BY <2>3
  <2>6. NameOf(word) # Null => NameOf(word) \in Given
    BY NameOfWord
  <2>7. all \o N[k + 1] = more
    <3>1. NameOf(word) # Null => all \o Append(p, NameOf(word)) = Append(a, NameOf(word))
      <4> SUFFICES ASSUME NameOf(word) \in Given
                   PROVE  all \o Append(p, NameOf(word)) = Append(a, NameOf(word))
        BY <2>6
      <4> QED BY <2>3, Joined
    <3>2. a = all \o p
      OBVIOUS
    <3> HIDE DEF a
    <3> QED BY <2>4, <3>1, <3>2
  <2>8. SinceNone(a) \in Seq(ConvNames)
    BY <2>5, SinceNoneNames
  <2> DEFINE one == AddConverter(SinceNone(a), word)
  <2>9. [convs |-> one.convs, nc |-> Len(a) + one.added] = Reached(more)
    <3> HIDE DEF a
    <3> QED BY <2>5, <2>8, OneNamed
  <2>10. Reached(a).convs = SinceNone(a) /\ Reached(a).nc = Len(a)
    BY DEF Reached
  <2>11. Step(Reached(a), word) = [convs |-> one.convs, nc |-> Len(a) + one.added]
    <3> HIDE DEF a
    <3> QED BY <2>10 DEF Step
  <2>12. P[k + 1] = Reached(more)
    <3> HIDE DEF one, more
    <3> QED BY <2>2, <2>4, <2>9, <2>11 DEF p
  <2>13. P[k + 1] = Reached(all \o N[k + 1])
    <3> HIDE DEF more
    <3> QED BY <2>7, <2>12
  <2>14. k + 1 \in Nat
    BY <2>1
  <2> QED BY <2>13, <2>14
<1>10. \A k \in 0 .. l : k \in T
  <2> HIDE DEF T
  <2> QED BY <1>2, <1>8, <1>9, UpTo
<1>11. P[l] = Reached(all \o N[l]) /\ l \in 0 .. l
  BY <1>2, <1>10
<1>12. all \o N[l] \in Seq(Given)
  <2>1. N[l] \in Seq(Given)
    BY <1>5, <1>11
  <2> QED BY <2>1
<1> QED BY <1>6, <1>7, <1>11, <1>12

(* One option more names what its list names. *)
AllSteps(s, P) ==
  /\ P[0] = <<>> /\ P[Len(s)] = AllNamed(s)
  /\ \A k \in 1 .. Len(s) :
       P[k] = IF s[k][1] = "C" THEN P[k - 1] \o NamesIn(s[k][2]) ELSE P[k - 1]

LEMMA AllRounds ==
  ASSUME NEW s \in Options
  PROVE  \E P \in [0 .. Len(s) -> Seq(Given)] : AllSteps(s, P)
<1> DEFINE X == Seq(Given)  q == s  D == Codes \X Word
           base == <<>>  l == Len(q)
           Next1(o, t) == IF o[1] = "C" THEN t \o NamesIn(o[2]) ELSE t
           Is(iter) ==
             iter = [z \in SUBSET DOMAIN q |->
                       IF z = {} THEN base ELSE Next1(q[Max(z)], iter[z \ {Max(z)}])]
           It == CHOOSE iter : Is(iter)
           H == [p \in D \X X |-> Next1(p[1], p[2])]
<1>1. AllNamed(s) = It[DOMAIN q]
  BY DEF AllNamed, FoldLeft, MapThenFoldSet
<1>2. l \in Nat /\ DOMAIN q = 1 .. l /\ (\A i \in 1 .. l : q[i] \in D) /\ base \in X
  <2>1. q \in Seq(D)
    BY DEF Options
  <2> HIDE DEF q, D
  <2> QED BY <2>1
<1>3. ASSUME NEW o \in D, NEW t \in X PROVE Next1(o, t) \in X
  <2>1. o[2] \in Word
    OBVIOUS
  <2>2. NamesIn(o[2]) \in Seq(Given)
    BY <2>1, NamesAreGiven
  <2> QED BY <2>2
<1>4. H \in [D \X X -> X] /\ \A o \in D, t \in X : H[<<o, t>>] = Next1(o, t)
  BY <1>3
<1> HIDE DEF H, X, q, base, Next1, l, D
<1>5. PICK f \in [SUBSET DOMAIN q -> X] : FoldingOver(q, base, H, f)
  BY <1>2, <1>4, FoldOverExists
<1>6. Is(f)
  <2>1. ASSUME NEW z \in SUBSET DOMAIN q
        PROVE  f[z] = IF z = {} THEN base ELSE Next1(q[Max(z)], f[z \ {Max(z)}])
    <3>1. f[z] = IF z = {} THEN base ELSE H[<<q[Max(z)], f[z \ {Max(z)}]>>]
      BY <1>5 DEF FoldingOver
    <3>2. z # {} => Max(z) \in DOMAIN q /\ z \ {Max(z)} \in SUBSET DOMAIN q
      BY <1>2, PlacesOf
    <3> QED BY <1>2, <1>4, <3>1, <3>2
  <2> QED BY <2>1
<1>7. Is(It)
  BY <1>6
<1>8. FoldedBy(q, base, H, X, It)
  <2> HIDE DEF It
  <2>1. \A z \in SUBSET DOMAIN q : z # {} => q[Max(z)] \in D
    BY <1>2, PlacesOf
  <2> QED BY <1>4, <1>7, <2>1 DEF FoldedBy
<1> HIDE DEF It
<1>9. PICK P \in [0 .. l -> X] : FoldRun(l, q, base, H, P, It[DOMAIN q])
  BY <1>2, <1>4, <1>8, FoldRounds
<1>10. ASSUME NEW k \in 1 .. l PROVE P[k] = Next1(q[k], P[k - 1])
  <2>1. q[k] \in D /\ P[k - 1] \in X
    BY <1>2
  <2> QED BY <1>4, <1>9, <2>1 DEF FoldRun
<1>11. /\ P[0] = base /\ P[l] = AllNamed(s)
       /\ \A k \in 1 .. l : P[k] = Next1(q[k], P[k - 1])
  BY <1>1, <1>9, <1>10 DEF FoldRun
<1>12. AllSteps(s, P)
  BY <1>11 DEF AllSteps, base, Next1, l, q
<1> QED BY <1>12 DEF X, l, q

LEMMA NothingNamed == AllNamed(<<>>) = <<>> /\ SinceNone(<<>>) = <<>>
<1>1. <<>> \in Options
  BY NoOptions
<1>2. \E P : AllSteps(<<>>, P) /\ Len(<<>>) = 0
  BY <1>1, AllRounds
<1>3. AllNamed(<<>>) = <<>>
  BY <1>1, <1>2 DEF AllSteps
<1>4. "none" \in Given /\ <<>> \in Seq(Given)
  BY DEF Given
<1>5. SinceNone(<<>>) = <<>>
  BY <1>4, SinceNoneMore
<1> QED BY <1>3, <1>5

LEMMA AllNamedMore ==
  ASSUME NEW s \in Options, NEW o, NEW t, More(s, o, t)
  PROVE  /\ AllNamed(t) = IF o[1] = "C" THEN AllNamed(s) \o NamesIn(o[2]) ELSE AllNamed(s)
         /\ AllNamed(s) \in Seq(Given)
<1> DEFINE l == Len(s)
           Next1(x, a) == IF x[1] = "C" THEN a \o NamesIn(x[2]) ELSE a
<1>1. t \in Options
  BY DEF More
<1>2. /\ l \in Nat /\ DOMAIN s = 1 .. l /\ DOMAIN t = 1 .. l + 1
      /\ t[l + 1] = o /\ \A i \in DOMAIN s : t[i] = s[i]
  BY MorePlaces
<1>3. Len(t) = l + 1
  <2>1. t \in Seq(Codes \X Word)
    BY <1>1 DEF Options
  <2> DEFINE C == Codes \X Word
  <2> HIDE DEF C, l
  <2>2. Len(t) \in Nat /\ DOMAIN t = 1 .. Len(t)
    BY <2>1
  <2> QED BY <1>2, <2>2
<1>4. PICK P \in [0 .. l -> Seq(Given)] : AllSteps(s, P)
  BY AllRounds
<1>5. PICK Q \in [0 .. Len(t) -> Seq(Given)] : AllSteps(t, Q)
  BY <1>1, AllRounds
<1>6. P[0] = <<>> /\ P[l] = AllNamed(s) /\ \A k \in 1 .. l : P[k] = Next1(s[k], P[k - 1])
  BY <1>4 DEF AllSteps
<1>7. Q[0] = <<>> /\ Q[l + 1] = AllNamed(t)
      /\ \A k \in 1 .. l + 1 : Q[k] = Next1(t[k], Q[k - 1])
  BY <1>3, <1>5 DEF AllSteps
<1> HIDE DEF l, Next1
<1> DEFINE T == {k \in Nat : k <= l => Q[k] = P[k]}
<1>8. 0 \in T
  BY <1>6, <1>7
<1>9. ASSUME NEW k \in 0 .. l - 1, k \in T PROVE k + 1 \in T
  <2>1. /\ k + 1 \in 1 .. l /\ k + 1 \in 1 .. l + 1 /\ (k + 1) - 1 = k /\ k + 1 \in Nat
        /\ k <= l
    BY <1>2
  <2>2. P[k + 1] = Next1(s[k + 1], P[k]) /\ Q[k + 1] = Next1(t[k + 1], Q[k])
    BY <1>6, <1>7, <2>1
  <2>3. t[k + 1] = s[k + 1] /\ Q[k] = P[k]
    BY <1>2, <1>9, <2>1
  <2>4. Q[k + 1] = P[k + 1]
    BY <2>2, <2>3
  <2> QED BY <2>1, <2>4
<1>10. \A k \in 0 .. l : k \in T
  <2> HIDE DEF T
  <2> QED BY <1>2, <1>8, <1>9, UpTo
<1>11. Q[l] = P[l] /\ l \in 0 .. l
  BY <1>2, <1>10
<1>12. Q[l + 1] = Next1(o, P[l])
  <2>1. l + 1 \in 1 .. l + 1 /\ (l + 1) - 1 = l
    BY <1>2
  <2> QED BY <1>2, <1>7, <1>11, <2>1
<1>13. AllNamed(s) \in Seq(Given)
  BY <1>4, <1>6, <1>11
<1> QED BY <1>6, <1>7, <1>12, <1>13 DEF Next1

(* The list of converters is at every stage what was named so far.           *)
Early == pc \in {"start", "getopt", "option", "language", "behaviour", "files"}
ConvertersKept(s) == converters = SinceNone(AllNamed(s)) /\ nc = Len(AllNamed(s))
ConvertersAre ==
  Listed =>
    converters = SinceNone(IF AllNamed(seen) = <<>> THEN NamesIn(DefaultConverterList)
                           ELSE AllNamed(seen))
ListInv == (Early => ConvertersKept(Acted)) /\ ConvertersAre

LEMMA ListSame ==
  ASSUME ListInv, Early, Early', Acted' = Acted, converters' = converters, nc' = nc,
         outcome' # "ready"
  PROVE  ListInv'
<1>1. ConvertersKept(Acted)
  BY DEF ListInv
<1>2. ConvertersAre'
  BY DEF ConvertersAre, Listed, Early
<1> QED BY <1>1, <1>2 DEF ListInv, ConvertersKept

LEMMA ListEnds ==
  ASSUME pc' = "ended", outcome' # "ready"
  PROVE  ListInv'
BY DEF ListInv, Early, ConvertersAre, Listed

LEMMA OptionsList ==
  ASSUME Inv, ListInv, pc = "option", pc' = "getopt", UNCHANGED rest,
         IF g.c = "C" THEN AddConverters ELSE converters' = converters /\ nc' = nc
  PROVE  ListInv'
<1>1. Shape /\ outcome' = "running" /\ seen' = seen
  BY DEF Inv, TypeOK, rest
<1> DEFINE o == <<g.c, g.optarg>>  all == AllNamed(Acted)
<1>2. Acted \in Options /\ More(Acted, o, seen) /\ Acted' = seen
  BY <1>1, Waiting DEF Acted
<1>3. g.optarg \in Word
  BY <1>1 DEF Shape, Scanning, Inside, Scanners
<1>4. o[1] = g.c /\ o[2] = g.optarg
  OBVIOUS
<1> HIDE DEF o
<1>5. /\ AllNamed(seen) = IF g.c = "C" THEN all \o NamesIn(g.optarg) ELSE all
      /\ all \in Seq(Given)
  BY <1>2, <1>4, AllNamedMore
<1>6. converters = SinceNone(all) /\ nc = Len(all)
  BY DEF ListInv, ConvertersKept, Early
<1> HIDE DEF all
<1>7. converters' = SinceNone(AllNamed(seen)) /\ nc' = Len(AllNamed(seen))
  <2>1. CASE g.c = "C"
    <3>1. AddParsedConverters(converters, nc, g.optarg) = Reached(all \o NamesIn(g.optarg))
      BY <1>3, <1>5, <1>6, AddedAre
    <3>2. /\ converters' = AddParsedConverters(converters, nc, g.optarg).convs
          /\ nc' = AddParsedConverters(converters, nc, g.optarg).nc
      BY <2>1 DEF AddConverters
    <3>3. AllNamed(seen) = all \o NamesIn(g.optarg)
      BY <1>5, <2>1
    <3>4. converters' = Reached(AllNamed(seen)).convs /\ nc' = Reached(AllNamed(seen)).nc
      BY <3>1, <3>2, <3>3
    <3> QED BY <3>4 DEF Reached
  <2>2. CASE g.c # "C"
    BY <1>5, <1>6, <2>2
  <2> QED BY <2>1, <2>2
<1>8. ConvertersAre'
  BY <1>1 DEF ConvertersAre, Listed
<1> QED BY <1>1, <1>2, <1>7, <1>8 DEF ListInv, ConvertersKept

LEMMA FilesList ==
  ASSUME Inv, ListInv, TakeFiles
  PROVE  ListInv'
<1> DEFINE default == AddParsedConverters(<<>>, 0, DefaultConverterList)
           all == AllNamed(seen)  d == NamesIn(DefaultConverterList)
<1>1. /\ pc = "files" /\ seen' = seen
      /\ converters' = (IF nc = 0 THEN default.convs ELSE converters)
      /\ pc' \in {"ended", "prefix"} /\ (pc' = "ended" => outcome' # "ready")
  BY DEF TakeFiles, Exit
<1>2. Acted = seen /\ seen \in Options
  BY <1>1 DEF Acted, Inv, Shape
<1>3. converters = SinceNone(all) /\ nc = Len(all)
  BY <1>1, <1>2 DEF ListInv, ConvertersKept, Early
<1>4. all \in Seq(Given)
  <2>1. PICK P \in [0 .. Len(seen) -> Seq(Given)] : AllSteps(seen, P)
    BY <1>2, AllRounds
  <2>2. P[Len(seen)] = all
    BY <2>1 DEF AllSteps
  <2>3. Len(seen) \in 0 .. Len(seen)
    BY <1>2 DEF Options
  <2> QED BY <2>1, <2>2, <2>3
<1>5. nc = 0 <=> all = <<>>
  <2> HIDE DEF all
  <2> QED BY <1>3, <1>4
<1>6. default.convs = SinceNone(d)
  <2>1. DefaultConverterList \in Word
    BY WordsAssumption
  <2>2. <<>> \in Seq(Given) /\ Len(<<>>) = 0
    OBVIOUS
  <2>3. AddParsedConverters(SinceNone(<<>>), Len(<<>>), DefaultConverterList)
          = Reached(<<>> \o d)
    BY <2>1, <2>2, AddedAre
  <2>4. d \in Seq(Given)
    BY <2>1, NamesAreGiven
  <2>5. <<>> \o d = d
    <3> HIDE DEF d
    <3> QED BY <2>4
  <2>6. default = Reached(d)
    BY <2>3, <2>5, <2>2, NothingNamed
  <2> HIDE DEF default, d
  <2> QED BY <2>6 DEF Reached
<1>7. converters' = SinceNone(IF all = <<>> THEN d ELSE all)
  BY <1>1, <1>3, <1>5, <1>6
<1>8. ConvertersAre'
  BY <1>1, <1>7 DEF ConvertersAre
<1>9. ~Early'
  BY <1>1 DEF Early
<1> QED BY <1>8, <1>9 DEF ListInv

LEMMA ListStep == Inv /\ ListInv /\ [Next]_vars => ListInv'
<1> SUFFICES ASSUME Inv, ListInv, [Next]_vars PROVE ListInv'
  OBVIOUS
<1>0. (outcome = "running") <=> (pc # "ended")
  BY DEF Inv, TypeOK
<1>1. CASE Start
  <2>1. /\ pc = "start" /\ pc' = "getopt" /\ converters' = converters /\ nc' = nc
        /\ seen' = seen /\ outcome' = outcome
    BY <1>1 DEF Start
  <2> QED BY <1>0, <2>1, ListSame DEF Early, Acted
<1>2. CASE NextOption
  <2>1. /\ pc = "getopt" /\ pc' \in {"language", "option"} /\ converters' = converters
        /\ nc' = nc /\ outcome' = outcome
    BY <1>2 DEF NextOption
  <2> QED BY <1>0, <1>2, <2>1, NextReturned, ListSame DEF Early
<1>3. CASE UnknownOption \/ Inform
  <2>1. pc' = "ended"
    BY <1>3 DEF UnknownOption, Inform, Exit
  <2> QED BY <1>3, <2>1, HowOptionsEnd, ListEnds
<1>4. CASE AddConverters
  BY <1>4, OptionsList DEF AddConverters, Option
<1>5. CASE SetOutputType \/ ConvertTo \/ SetPrefix \/ SetLanguage \/ Behave
           \/ SetExternal \/ Verbose
  <2>1. /\ pc = "option" /\ pc' = "getopt" /\ UNCHANGED rest /\ g.c # "C"
        /\ converters' = converters /\ nc' = nc
    BY <1>5, LettersOfTypes DEF SetOutputType, ConvertTo, SetPrefix, SetLanguage, Behave,
         SetExternal, Verbose, Option
  <2> QED BY <2>1, OptionsList
<1>6. CASE DetectLanguage
  <2>1. /\ pc = "language" /\ converters' = converters /\ nc' = nc /\ seen' = seen
        /\ \/ pc' = "ended" /\ outcome' # "ready"
           \/ pc' = "behaviour" /\ outcome' = outcome
    BY <1>6 DEF DetectLanguage, Exit
  <2> QED BY <1>0, <2>1, ListEnds, ListSame DEF Early, Acted
<1>7. CASE DecideBehaviour
  <2>1. /\ pc = "behaviour" /\ converters' = converters /\ nc' = nc /\ seen' = seen
        /\ \/ pc' = "ended" /\ outcome' # "ready"
           \/ pc' = "files" /\ outcome' = outcome
    BY <1>7 DEF DecideBehaviour, Exit
  <2> QED BY <1>0, <2>1, ListEnds, ListSame DEF Early, Acted
<1>8. CASE TakeFiles
  BY <1>8, FilesList
<1>9. CASE DecidePrefix \/ AllocAnalyser
  <2>1. /\ pc \in {"prefix", "analyser"} /\ pc' \in {"analyser", "ended"}
        /\ converters' = converters /\ seen' = seen
    BY <1>9 DEF DecidePrefix, AllocAnalyser, Exit
  <2> QED BY <2>1 DEF ListInv, Early, ConvertersAre, Listed
<1>10. CASE UNCHANGED vars
  <2>1. Acted' = Acted /\ (Early' <=> Early)
    BY <1>10 DEF vars, Acted, Early
  <2> QED BY <1>10, <2>1 DEF vars, ListInv, ConvertersKept, ConvertersAre, Listed
<1> QED BY <1>1, <1>2, <1>3, <1>4, <1>5, <1>6, <1>7, <1>8, <1>9, <1>10 DEF Next

LEMMA NothingWithoutC ==
  ASSUME Inv, WithoutC
  PROVE  AllNamed(seen) = <<>>
<1>1. seen \in Options /\ Len(seen) \in Nat
  <2>1. seen \in Options
    BY DEF Inv, Shape
  <2> QED BY <2>1 DEF Options
<1>2. PICK P \in [0 .. Len(seen) -> Seq(Given)] : AllSteps(seen, P)
  BY <1>1, AllRounds
<1> DEFINE T == {k \in 0 .. Len(seen) : P[k] = <<>>}
<1>3. 0 \in T
  BY <1>1, <1>2 DEF AllSteps
<1>4. ASSUME NEW k \in 0 .. Len(seen) - 1, k \in T PROVE k + 1 \in T
  <2>1. k + 1 \in 1 .. Len(seen) /\ (k + 1) - 1 = k
    BY <1>1
  <2>2. seen[k + 1][1] # "C"
    <3>1. DOMAIN seen = 1 .. Len(seen)
      BY <1>1 DEF Options
    <3> QED BY <2>1, <3>1 DEF WithoutC
  <2>3. P[k + 1] = P[(k + 1) - 1]
    BY <1>2, <2>1, <2>2 DEF AllSteps
  <2> QED BY <1>1, <1>4, <2>1, <2>3
<1> HIDE DEF T
<1>5. \A k \in 0 .. Len(seen) : k \in T
  BY <1>1, <1>3, <1>4, UpTo
<1>6. P[Len(seen)] = <<>>
  BY <1>1, <1>5 DEF T
<1> QED BY <1>2, <1>6 DEF AllSteps

(* Apart from repetitions, the converters tried are always those named       *)
(* since the last `none', in their order, and without any option -C those of  *)
(* the default list (add_parsed_converters(), interpret_opt()).               *)
THEOREM ConvertersAlwaysAsAsked == Spec => []ConvertersAsAsked
<1>1. Init => ListInv
  <2> SUFFICES ASSUME Init PROVE ListInv
    OBVIOUS
  <2>1. pc = "start" /\ outcome = "running" /\ seen = <<>> /\ converters = <<>> /\ nc = 0
    BY DEF Init
  <2>2. Acted = <<>>
    BY <2>1 DEF Acted
  <2>3. ConvertersKept(Acted)
    BY <2>1, <2>2, NothingNamed DEF ConvertersKept
  <2> QED BY <2>1, <2>3 DEF ListInv, ConvertersAre, Listed
<1>2. Inv /\ ListInv => ConvertersAsAsked
  <2> SUFFICES ASSUME Inv, ListInv, Listed PROVE ConvertersAsAsked
    BY DEF ConvertersAsAsked
  <2> DEFINE default == NamesIn(DefaultConverterList)  all == AllNamed(seen)
  <2>1. converters = SinceNone(IF all = <<>> THEN default ELSE all)
    BY DEF ListInv, ConvertersAre
  <2>2. WithoutC => all = <<>>
    BY NothingWithoutC
  <2> HIDE DEF default, all
  <2>3. WithoutC => converters = SinceNone(default)
    BY <2>1, <2>2
  <2>4. all # <<>> => converters = SinceNone(all)
    BY <2>1
  <2> QED BY <2>3, <2>4 DEF ConvertersAsAsked, default, all
<1> QED BY <1>1, <1>2, ListStep, AlwaysInv, PTL DEF Spec
=============================================================================
