---------------------------- MODULE DoubledUtf8 ----------------------------
(***************************************************************************)
(* The check for text converted to UTF-8 twice (lib/utf8_double.c), with   *)
(* the tables of Russian.  What was some letter first is then the first    *)
(* byte of its UTF-8 form, read in an 8bit charset: characters that are    *)
(* seldom letters and often such bytes have a negative weight.             *)
(***************************************************************************)
EXTENDS Ctype

NOT_A_CHAR == 65535

\* Frequencies of the letters from U+0430 on (data/russian/russian.h).
RussianWeight ==
  [c \in 1072 .. 1103 |->
     <<4711, 935, 2406, 896, 1917, 5075, 570, 969, 3824, 819, 2062, 2651, 1688,
       3538, 5972, 1529, 2752, 2929, 3628, 1580, 0, 597, 244, 754, 500, 0, 0,
       1284, 1202, 0, 418, 1262>>[c - 1071]]

Alphabetical == [i \in 1 .. 32 |-> 1071 + i]

\* Charsets in the language's order: the letters as their bytes are ordered,
\* and what the bytes 0xd0 and 0xd1 are (lib/unicodemap.c).
Russian ==
  <<[name |-> "koi8r", lead |-> <<1087, 1103>>,
     letters |-> <<1102, 1072, 1073, 1094, 1076, 1077, 1092, 1075, 1093, 1080,
                   1081, 1082, 1083, 1084, 1085, 1086, 1087, 1103, 1088, 1089,
                   1090, 1091, 1078, 1074, 1100, 1099, 1079, 1096, 1101, 1097,
                   1095, 1098>>],
    [name |-> "cp1251", lead |-> <<1056, 1057>>, letters |-> Alphabetical],
    [name |-> "iso88595", lead |-> <<1072, 1073>>, letters |-> Alphabetical],
    [name |-> "ibm866", lead |-> <<9576, 9572>>, letters |-> Alphabetical],
    [name |-> "maccyr", lead |-> <<8211, 8212>>,
     letters |-> <<1103>> \o SubSeq(Alphabetical, 1, 31)]>>

\* Every character that can have a weight; utfbuf is zero elsewhere.
Ucs2 == UNION {ToSet(cs.letters) \cup ToSet(cs.lead) : cs \in ToSet(Russian)}
Zeroes == [c \in Ucs2 |-> 0]

\* compute_double_utf8_weights() for one charset: the letter counts for
\* itself, and against what the first byte of its UTF-8 form is.
UcsWeights(cs) ==
  LET Weigh(buf, c) ==
        LET u == IF c < 1088 THEN cs.lead[1] ELSE cs.lead[2]
            own == [buf EXCEPT ![c] = @ + RussianWeight[c]]
        IN IF RussianWeight[c] = 0 THEN buf
           ELSE IF u < 128 \/ u = NOT_A_CHAR THEN own
           ELSE [own EXCEPT ![u] = IF @ = RussianWeight[c] THEN 1
                                   ELSE @ - RussianWeight[c]]
  IN FoldLeft(Weigh, Zeroes, cs.letters)

\* utfch[i].weights, and the characters with a weight in some charset
Weights == [i \in DOMAIN Russian |-> UcsWeights(Russian[i])]
Significant == {c \in Ucs2 : \E i \in DOMAIN Russian : Weights[i][c] # 0}

\* Deviation: counts of an earlier check are kept.
MarkUncounted(utfbuf) ==
  [c \in Ucs2 |-> IF c \in Significant /\ utfbuf[c] = 0 THEN -1 ELSE utfbuf[c]]

\* mark_scratch_buffer()
MarkScratchBuffer(utfbuf) ==
  [c \in Ucs2 |-> IF c \in Significant THEN -1 ELSE utfbuf[c]]

\* The bytes that follow a first byte, and the bits of the character in it.
FirstByte(b) ==
  CASE b \in 192 .. 223 -> [remains |-> 1, bits |-> b % 32]
    [] b \in 224 .. 239 -> [remains |-> 2, bits |-> b % 16]
    [] b \in 240 .. 247 -> [remains |-> 3, bits |-> b % 8]
    [] b \in 248 .. 251 -> [remains |-> 4, bits |-> b % 4]
    [] b \in 252 .. 253 -> [remains |-> 5, bits |-> b % 2]
    [] OTHER -> [remains |-> 0, bits |-> 0]

\* The loop over the bytes: positions holding zero are not touched, and the
\* first occurrence replaces the mark.
ParseByte(p, b) ==
  IF p.remains = 0
  THEN [p EXCEPT !.remains = FirstByte(b).remains, !.char = FirstByte(b).bits]
  ELSE IF b \notin 128 .. 191 THEN [p EXCEPT !.remains = 0]
  ELSE LET c == p.char * 64 + (b % 64)
           whole == p.remains = 1 /\ c \in Ucs2
       IN [remains |-> p.remains - 1, char |-> c,
           utfbuf |-> IF whole /\ p.utfbuf[c] # 0
                      THEN [p.utfbuf EXCEPT ![c] = Max({@, 0}) + 1]
                      ELSE p.utfbuf]

\* 1 - 45 exp(-4.5 t) for the default threshold, in thousandths
CandidateShare == 922

\* enca_double_utf8_check(): the scratch buffer it leaves, the ratings, and
\* the charsets enca_double_utf8_get_candidates() gives.
DoubleUtf8Check(utfbuf, s) ==
  LET end == FoldLeft(ParseByte,
                      [remains |-> 0, char |-> 0,
                       utfbuf |-> MarkScratchBuffer(utfbuf)], s).utfbuf
      ratings == [i \in DOMAIN Russian |->
                    MapThenSumSet(LAMBDA c : end[c] * Weights[i][c], Ucs2)]
      min == Min({ratings[i] : i \in DOMAIN Russian})
      max == Max({ratings[i] : i \in DOMAIN Russian})
  IN [utfbuf |-> end, ratings |-> ratings,
      candidates |-> IF min < 0 /\ -2 * min > max
                     THEN {Russian[i].name : i \in
                             {j \in DOMAIN Russian :
                                ratings[j] * 1000 < min * CandidateShare}}
                     ELSE {}]
=============================================================================
