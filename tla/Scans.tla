------------------------------- MODULE Scans -------------------------------
(***************************************************************************)
(* Samples for the scans, built one token at a time, and what each scan    *)
(* promises of them.  A token stands for a byte in raw samples, and in     *)
(* others for a character whose encoding the promise is about.             *)
(***************************************************************************)
EXTENDS MultibyteScans, Languages, DoubledUtf8, Names, LineReader, RecodeCache

CONSTANTS
  Alphabet,  \* the tokens of each kind of sample
  MaxLength, \* the longest sample of each kind
  Options    \* values of analyser->options

ASSUME ScansAssumption ==
  /\ DOMAIN Alphabet = DOMAIN MaxLength
  /\ Options \subseteq OptionSets

\* Ratings are numbers, the characters of a name and of raw samples bytes, the
\* names of one letter small letters; tokens of QpToken() are bytes or escapes.
ASSUME TokensAssumption ==
  /\ "order" \in DOMAIN Alphabet => Alphabet["order"] \subseteq Int
  /\ \A k \in {"box", "utf8", "squeeze"} \cap DOMAIN Alphabet : Alphabet[k] \subseteq Byte
  /\ "alias" \in DOMAIN Alphabet => Alphabet["alias"] \subseteq 97 .. 122
  /\ "qp" \in DOMAIN Alphabet => Alphabet["qp"] \subseteq Byte \cup 257 .. 259

\* Utf8Form() writes characters of 16 bits at most.
ASSUME CharactersAssumption ==
  "doubled" \in DOMAIN Alphabet =>
    \A c \in Alphabet["doubled"] : c \in Nat /\ c <= 65535

VARIABLES kind, text

Init == kind \in DOMAIN Alphabet /\ text = <<>>

Append1 ==
  /\ Len(text) < MaxLength[kind]
  /\ \E t \in Alphabet[kind] : text' = Append(text, t)
  /\ UNCHANGED kind

Spec == Init /\ [][Append1]_<<kind, text>>

Join(sequences) == FlattenSeq(sequences)
Number(s, P(_)) == Quantify(DOMAIN s, LAMBDA i : P(s[i]))
-----------------------------------------------------------------------------
(* End of lines and quoted-printable (lib/guess.c).                        *)

\* When CRLF is reported every CR and LF is half of a pair, but for one LF in
\* front of everything (the search at lib/guess.c:691 starts at the second
\* byte); and a text with nothing but pairs is reported so.
EolIsTrue ==
  kind = "eol" /\ text # <<>> =>
    LET Places(b) == {i \in DOMAIN text : text[i] = b}
        paired == Places(LF) = {i + 1 : i \in Places(CR)} /\ Places(CR) # {}
    IN /\ paired => EolSurface(text) \in {"crlf", "bin"}
       /\ EolSurface(text) = "crlf" /\ text[1] # LF => paired

\* Token 257 is an encoded byte, 258 and 259 soft line breaks.
QpToken(t) == IF t = 257 THEN <<61, 67, 51>>
              ELSE IF t = 258 THEN <<61, CR, LF>>
              ELSE IF t = 259 THEN <<61, LF>> ELSE <<t>>
QpMeans(t) == IF t = 257 THEN <<195>>
              ELSE IF t \in {258, 259} THEN <<>> ELSE <<t>>

\* The pass that counts and the one that decodes agree on the size
\* (lib/guess.c:584-618, 632-651): the bytes left are all that analyser->size
\* says.  And the decoded text is the text that was encoded, where it neither
\* ends in a short escape nor has a line end after a soft break.
QpExact ==
  kind = "qp" =>
    LET s == Join([i \in DOMAIN text |-> QpToken(text[i])])
        plain == \A i \in DOMAIN text :
          /\ text[i] = 259 => i < Len(text)
          /\ text[i] \in {258, 259} /\ i < Len(text) => ~IsEol(text[i + 1])
          /\ text[i] # QP_ESCAPE
        decoded == QpDecode(s)
    IN \A o \in Options : LooksLikeQp(s, o.min_chars) =>
         /\ decoded.size = Len(s) - QpScan(s).reduce
         /\ plain => SubSeq(decoded.buf, 1, decoded.size)
                     = Join([i \in DOMAIN text |-> QpMeans(text[i])])

\* The surfaces found in the text itself are those it has
\* (lib/guess.c:573-651, 680-709).
SurfacesAreFound == EolIsTrue /\ QpExact
-----------------------------------------------------------------------------
(* The box-drawing filter (lib/filters.c).                                 *)

BoxCharsets == <<"cp1125", "koi8u">>

\* What goes by the rules: a horizontal character beside its like, and then a
\* vertical one between whitespace.
InLine(s, bd, i) ==
  /\ s[i] \in {bd.h1, bd.h2}
  /\ \E j \in {i - 1, i + 1} \cap DOMAIN s : s[j] = s[i]
Lines(s, bd) ==
  [i \in DOMAIN s |-> IF InLine(s, bd, i) THEN FillCharacter ELSE s[i]]
Isolated(s, bd, i) ==
  /\ s[i] \in bd.isvbox /\ Len(s) > 1
  /\ \A j \in {i - 1, i + 1} \cap DOMAIN s : IsSpace(s[j])
Cleared(s, bd) ==
  LET h == Lines(s, bd)
  IN [i \in DOMAIN s |-> IF Isolated(h, bd, i) THEN FillCharacter ELSE h[i]]

\* Exactly these go, lines blanked before counting as whitespace; though the
\* filter looks at a buffer it is changing (lib/filters.c:274-313).  And the
\* returned number is that of the blanked bytes, over all charsets.
BoxdrawExact ==
  kind = "box" =>
    LET end == FilterBoxdraw(text, BoxCharsets)
    IN /\ end.buf = FoldLeft(LAMBDA s, cs : Cleared(s, BOXDRAW[cs]), text,
                             BoxCharsets)
       /\ end.xout = Cardinality({i \in DOMAIN text : end.buf[i] # text[i]})
-----------------------------------------------------------------------------
(* UTF-8 (lib/multibyte.c).                                                *)

\* Accepted are the well-formed texts with enough characters: continuation
\* bytes stand exactly within the reach of a lead byte, no byte is 0xfe or
\* 0xff, and the last character is complete or need not be
\* (lib/multibyte.c:88-178).  The tolerant test accepts them too, with the
\* same surface (lib/multibyte.c:734).
Utf8Exact ==
  kind = "utf8" =>
    LET bom == IsPrefix(BOM8, text)
        s == IF bom THEN SubSeq(text, 4, Len(text)) ELSE text
        Reach(i) == i + 1 .. i + Follow(s[i])
        lead == {i \in DOMAIN s : s[i] \in 192 .. 253}
        wellFormed == \A i \in DOMAIN s :
          /\ s[i] < 254
          /\ IsContinuation(s[i]) <=> \E j \in lead : i \in Reach(j)
        finished == \A i \in lead : Reach(i) \subseteq DOMAIN s
        chars == Cardinality(lead) + IF bom THEN BomBonus(Len(text), 10) ELSE 0
    IN \A o \in Options :
         /\ IsValidUtf8(text, o).accepted
              <=> /\ wellFormed /\ (o.strict => finished)
                  /\ chars >= o.min_chars
         /\ IsValidUtf8(text, o).accepted
              => LooksLikeUtf8(text, o) = IsValidUtf8(text, o)

\* Damage is local: whatever stands before a 7bit character, the text after
\* it is scanned as if it stood alone (lib/multibyte.c:800-812).
DamageIsLocal ==
  kind = "utf8" =>
    \A i \in 1 .. Len(text) :
      text[i] < 128 /\ ~IsPrefix(BOM8, text)
      /\ ~IsPrefix(BOM8, SubSeq(text, i + 1, Len(text))) =>
        LET all == Utf8Scan(text)
            before == Utf8Scan(SubSeq(text, 1, i))
            after == Utf8Scan(SubSeq(text, i + 1, Len(text)))
        IN /\ all.failures = before.failures + after.failures
           /\ all.utf8count = before.utf8count + after.utf8count
           /\ all.left = after.left

\* UTF-8 is told exactly, and tolerantly, by what the two parts say
\* (lib/multibyte.c:88-178, 734-812).
Utf8IsExact == Utf8Exact /\ DamageIsLocal
-----------------------------------------------------------------------------
(* UTF-7.  A token below 128 is that character, above it one 16bit unit.   *)

\* Bit k of a run of units, counted from 0, most significant first; the bits
\* behind the run are padding.
RunBit(run, k) ==
  IF k >= 16 * Len(run) THEN 0
  ELSE (run[k \div 16 + 1] \div 2 ^ (15 - (k % 16))) % 2

Digit(v) == IF v < 26 THEN v + 65 ELSE IF v < 52 THEN v + 71
            ELSE IF v < 62 THEN v - 4 ELSE IF v = 62 THEN 43 ELSE 47

Digits(run) ==
  [d \in 1 .. (16 * Len(run) + 5) \div 6 |->
     Digit(32 * RunBit(run, 6 * d - 6) + 16 * RunBit(run, 6 * d - 5)
           + 8 * RunBit(run, 6 * d - 4) + 4 * RunBit(run, 6 * d - 3)
           + 2 * RunBit(run, 6 * d - 2) + RunBit(run, 6 * d - 1))]

\* The encoding, as RFC 2152 has it: a run must be closed before a character
\* that could belong to it, and at the end; a careful writer closes every one.
Utf7(chars, careful) ==
  LET n == Len(chars)
      after(i) == Min({j \in i .. n + 1 : j > n \/ chars[j] < 128})
      from[i \in Nat] ==
        LET j == after(i)
            closed == \/ careful \/ j > n
                      \/ Base64(chars[j]) # 0 \/ chars[j] = UTF7_PLUS
        IN IF i > n THEN <<>>
           ELSE IF chars[i] = UTF7_ESCAPE
                THEN <<UTF7_ESCAPE, UTF7_PLUS>> \o from[i + 1]
           ELSE IF chars[i] < 128 THEN <<chars[i]>> \o from[i + 1]
           ELSE <<UTF7_ESCAPE>> \o Digits(SubSeq(chars, i, j - 1))
                \o (IF closed THEN <<UTF7_PLUS>> ELSE <<>>) \o from[j]
  IN from[1]

\* An encoded text is accepted exactly when it has enough units, and enough
\* shifts for the scan to be started; every unit is counted, however the runs
\* are cut into digits and closed (lib/multibyte.c:345-367).
Utf7TextAccepted ==
  kind = "utf7" =>
    \A careful \in BOOLEAN, o \in Options :
      LET s == Utf7(text, careful)
      IN IsValidUtf7(s, o).accepted
           <=> /\ Count(s, UTF7_ESCAPE) >= o.min_chars
               /\ Number(text, LAMBDA t : t >= 128) >= o.min_chars

\* A sample cut within a run of units is refused where a text must end
\* properly (lib/multibyte.c:370), and otherwise judged by what came before.
Utf7CutRefused ==
  kind = "utf7" /\ text # <<>> /\ Last(text) >= 128 =>
    LET start == Max({i \in 1 .. Len(text) :
                        text[i] >= 128 /\ (i = 1 \/ text[i - 1] < 128)})
        front == SubSeq(text, 1, start - 1)
        s == Utf7(text, FALSE)
        open == Len(s) - 1 - Len(Digits(SubSeq(text, start, Len(text))))
    IN \A o \in Options, k \in open .. Len(s) - 1 :
         IsValidUtf7(SubSeq(s, 1, k), o).accepted
           <=> /\ ~o.strict
               /\ Count(SubSeq(s, 1, k), UTF7_ESCAPE) >= o.min_chars
               /\ Number(front, LAMBDA t : t >= 128) >= o.min_chars

\* UTF-7, whole or cut anywhere, is judged by its complete runs
\* (lib/multibyte.c:345-370).
Utf7IsExact == Utf7TextAccepted /\ Utf7CutRefused
-----------------------------------------------------------------------------
(* HZ.  A token below 128 is that character, 128 a line continuation, any  *)
(* other a pair of bytes of GB 2312.                                       *)

HzPlain(t) == IF t = TILDE THEN <<TILDE, TILDE>>
              ELSE IF t = 128 THEN <<TILDE, LF>> ELSE <<t>>

\* The encoding, as RFC 1843 has it, without the last "~}".
HzOpen(chars) ==
  LET IsPair(i) == i \in DOMAIN chars /\ chars[i] > 128
      char(i) ==
        (IF IsPair(i) /\ ~IsPair(i - 1) THEN <<TILDE, OPEN>>
         ELSE IF IsPair(i - 1) /\ ~IsPair(i) THEN <<TILDE, CLOSE>> ELSE <<>>)
        \o (IF IsPair(i) THEN <<chars[i] \div 256, chars[i] % 256>>
            ELSE HzPlain(chars[i]))
  IN Join([i \in DOMAIN chars |-> char(i)])

\* What escaped may hold unset, and the byte behind the sample.
Stray == BOOLEAN \X {97, OPEN, LF, TILDE}

\* A text with enough pairs is accepted, though the bytes of a pair may look
\* like the escapes around them; cut before its last "~}" is complete, it is
\* refused where a text must end properly (lib/multibyte.c:891-947).
HzTextAccepted ==
  kind = "hz" /\ text # <<>> /\ Last(text) > 128 =>
    LET open == HzOpen(text)
    IN \A o \in Options, x \in Stray :
         /\ Number(text, LAMBDA t : t > 128) >= o.min_chars =>
              LooksLikeHz(open \o <<TILDE, CLOSE>>, o, x[1], x[2]).accepted
         /\ o.strict =>
              /\ ~LooksLikeHz(open, o, x[1], x[2]).accepted
              /\ ~LooksLikeHz(open \o <<TILDE>>, o, x[1], x[2]).accepted

\* What escaped holds when it was never set, and the byte read behind the
\* sample (lib/multibyte.c:850, 878), decide nothing as long as three
\* characters are asked for.
HzStrayHarmless ==
  kind = "hz_raw" =>
    \A o \in Options, x, y \in Stray : o.min_chars >= 3 =>
      LooksLikeHz(text, o, x[1], x[2]) = LooksLikeHz(text, o, y[1], y[2])

\* HZ is told from its escapes, and never from what was not set
\* (lib/multibyte.c:850-947).
HzIsExact == HzTextAccepted /\ HzStrayHarmless
-----------------------------------------------------------------------------
(* TeX.  Tokens above 128 are letters with accents, or other commands.     *)

TexToken(t) == IF t = 129 THEN <<92, 39, 97>>                 \* \'a
               ELSE IF t = 130 THEN <<92, 118, OPEN, 99, CLOSE>>  \* \v{c}
               ELSE IF t = 131 THEN <<92, 72, 32, 111>>       \* \H o
               ELSE IF t = 132 THEN <<92, 114, 109>>          \* \rm
               ELSE IF t = 133 THEN <<92, 36>>                \* \$
               ELSE <<t>>

\* Accents are counted exactly, whatever stands between them and wherever the
\* text ends (lib/multibyte.c:259-276); and though after an escape doubled at
\* the end of any sample the byte behind it is read (lib/multibyte.c:263-267),
\* the number does not depend on that byte.
TexCountsAccents ==
  LET Beyond == {97, 39, 72, OPEN, 32, TEX_ESCAPE}
  IN /\ kind = "tex" =>
          \A beyond \in {97, OPEN} :
            TexScan(Join([i \in DOMAIN text |-> TexToken(text[i])]), beyond)
              = Number(text, LAMBDA t : t \in 129 .. 131)
     /\ kind = "tex_raw" =>
          \A x, y \in Beyond : TexScan(text, x) = TexScan(text, y)

\* HZ and TeX are told from their escapes, and from nothing that is not in
\* the sample (lib/multibyte.c:228-276, 850-947).
EscapesAreExact == HzIsExact /\ TexCountsAccents
-----------------------------------------------------------------------------
(* UCS-2 and UCS-4.  Tokens are characters; 65279 is the byte order mark.  *)

MARK == 65279

Bytes2(c, order) ==
  IF order = {} THEN <<c \div 256, c % 256>> ELSE <<c % 256, c \div 256>>
Bytes4(c, order) ==
  LET b == <<0, 0, c \div 256, c % 256>>
  IN CASE order = {} -> b
       [] order = {"4321"} -> <<b[4], b[3], b[2], b[1]>>
       [] order = {"21"} -> <<b[2], b[1], b[4], b[3]>>
       [] order = {"21", "4321"} -> <<b[3], b[4], b[1], b[2]>>

Encoded(Bytes(_, _), order) ==
  Join([i \in DOMAIN text |-> Bytes(text[i], order)])

\* The end of line type: every LF follows a CR, or is first in the text and
\* exempt.
TrueEol(chars, exempt) ==
  EolOf(Count(chars, CR), Count(chars, LF),
        \A i \in DOMAIN chars : chars[i] = LF =>
          IF i = 1 THEN exempt ELSE chars[i - 1] = CR)

\* A text that starts with a mark or a printable ASCII character is accepted
\* in both byte orders or in none, and reported with its own order and its
\* end of line type (lib/multibyte.c:433-505); a further mark makes the order
\* a mixed one, though it be a mark of the same order.
Ucs2OrderAndEol ==
  kind = "ucs" /\ text # <<>> /\ (text[1] = MARK \/ IsPrint(text[1])) =>
    \A o \in Options :
      LET be == LooksLikeUcs2(Encoded(Bytes2, {}), o)
          le == LooksLikeUcs2(Encoded(Bytes2, {"21"}), o)
          eol == TrueEol(text, TRUE)
          marked == \E i \in 2 .. Len(text) : text[i] = MARK
          Reported(order) == {eol} \cup IF marked THEN {"mix-order"} ELSE order
      IN /\ be.accepted <=> le.accepted
         /\ be.accepted => /\ be.surface = Reported({})
                           /\ le.surface = Reported({"21"})

\* A text is accepted in all four byte orders or in none; the order reported
\* is its own and the end of line type is that of the text, never what eol[]
\* held unset (lib/multibyte.c:563-591).  The shuffled buffer ends as it was
\* (lib/multibyte.c:556-571).
Ucs4OrderAndEol ==
  kind = "ucs" /\ text # <<>> =>
    LET chars == IF text[1] = MARK THEN Tail(text) ELSE text
        Found(order, o) == LooksLikeUcs4(Encoded(Bytes4, order), o)
    IN /\ \A o \in Options :
            LET accepted == Found({}, o).accepted
            IN \A order \in SUBSET {"21", "4321"} :
                 Found(order, o) =
                   IF accepted THEN Accepted(order \cup {TrueEol(chars, TRUE)})
                   ELSE Refused
       /\ \A order \in SUBSET {"21", "4321"} :
            LET q == Quads(Encoded(Bytes4, order))
            IN Orders(q)[5] = q

\* UCS-2 and UCS-4 are told with their byte order and end of line type
\* (lib/multibyte.c:433-591).
WideIsExact == Ucs2OrderAndEol /\ Ucs4OrderAndEol
-----------------------------------------------------------------------------
(* Ratings and pairs.  A sample of kind "order" is a list of ratings.      *)

\* The order is one of all charsets, no charset stands before one with a
\* higher rating, and the winner is the first of the highest, as the language
\* lists them (lib/guess.c:715-741).
OrderIsByRating ==
  kind = "order" =>
    LET order == FindMaxSec(text)
    IN /\ {order[i] : i \in DOMAIN order} = DOMAIN text
       /\ \A i, j \in DOMAIN text : i < j => text[order[i]] >= text[order[j]]
       /\ text # <<>> =>
            \A cs \in 1 .. order[1] - 1 : text[cs] < text[order[1]]

\* Letters and good pairs of three charsets: one pair is good for two of them,
\* one for all, and one at the border of a text for one.
GoodPairs ==
  <<[b \in {200, 201} |-> IF b = 200 THEN {201} ELSE {200, FILL_NONLETTER}],
    [b \in {97, 200} |-> IF b = 97 THEN {200} ELSE {201, 97}],
    [b \in {97, 200, 201} |-> IF b = 97 THEN {200} ELSE {201}]>>

\* However the numbers are put together from sets of charsets, each charset
\* gets the number of pairs that are good for it, those at the borders of the
\* sample included (lib/pair.c:158-193).
PairsAreCounted ==
  kind = "pairs" =>
    LET pairs == PairsOf(text)
        Good(cs, p) ==
          p[1] \in DOMAIN GoodPairs[cs] /\ p[2] \in GoodPairs[cs][p[1]]
    IN \A cs \in DOMAIN GoodPairs :
         CountGoodPairs(GoodPairs, text)[cs]
           = Number(pairs, LAMBDA p : Good(cs, p))

\* Charsets are ordered by what the sample says of them, ratings or pairs
\* (lib/guess.c:715, lib/pair.c:158).
RatingsAreExact == OrderIsByRating /\ PairsAreCounted
-----------------------------------------------------------------------------
(* Languages.  Samples are bytes.                                          *)

\* After all hooks the order is still one by the ratings, which the verdict
\* takes for granted (lib/guess.c:400).  CP1257 and ISO-8859-13 have the same
\* Lithuanian letters: of these two the line ends choose, never the hooks that
\* ran before (lib/lang_lt.c:70, 88); and a winner is not lost to a hook that
\* leaves it first (lib/filters.c:398).
HooksDecide ==
  kind = "hooks" =>
    LET before == RateByWeights(LithuanianShares, text)
        after == LanguageHook(ENCA_LANGUAGE_LT, before, text)
        ratings == after.ratings
        order == after.order
        refused == IF EolSurface(text) = "lf" THEN "cp1257" ELSE "iso885913"
    IN /\ \A i \in 1 .. Len(order) - 1 : ratings[order[i]] >= ratings[order[i + 1]]
       /\ Winner(after) # CharsetIndex(ENCA_LANGUAGE_LT, refused)
       /\ Winner(before) = order[1] => Winner(after) = order[1]

\* Ratings in which some charsets of a language are equally good.
EquallyRated(lang, near) ==
  Rated([i \in DOMAIN lang.charsets |->
           IF lang.charsets[i] \in near THEN 1 ELSE 0])

\* Of charsets rated the same, a text of letters that a hook lists for one of
\* them is taken for a charset in which it is the same text: though the bytes
\* may be in the rows of others too, and the hooks that run before and after
\* change ratings as well (lib/filters.c:396-411, lib/lang_*.c).
HooksTellApart ==
  kind = "letters" /\ text # <<>> =>
    \A lang \in ToSet(LANGUAGE_LIST) :
      \A hook \in UNION {ToSet(step) : step \in ToSet(lang.hook)} :
        LET rivals == EquallyRated(lang, {row.cs : row \in ToSet(hook)})
            first == lang.charsets[LanguageHook(lang, rivals, text).order[1]]
        IN \A row \in ToSet(hook) :
             "list" \in DOMAIN row /\ ToSet(text) \subseteq row.list =>
               SubsetIdentical(first, row.cs, ToSet(text))

\* In the ambiguous mode the charset that is answered gives the sample the
\* meaning that it has in every charset within the threshold, whichever of
\* them the ends of lines chose (lib/guess.c:481-504); a sample with bytes
\* that some of them leave undefined apart.
AmbiguousIsHarmless ==
  kind = "ambiguous" =>
    \A lang \in ToSet(LANGUAGE_LIST) :
      \A near \in {ToSet(lang.charsets)}
                  \cup {{cs, lang.charsets[1]} : cs \in ToSet(lang.charsets)} :
        near \subseteq DOMAIN UCS2 /\ Cardinality(near) > 1 =>
          LET answer == AmbiguousHook(lang, EquallyRated(lang, near), text)
              defined == \A b \in ToSet(text), cs \in near : Meaning(cs, b) # NO_CHR
          IN defined /\ answer # NoWinner =>
               \A cs \in near : SubsetIdentical(lang.charsets[answer], cs,
                                                ToSet(text))

\* Which frequencies the two charsets' tables may have for a pair.
Frequencies == {<<0, 0, 0>>, <<0, 5, 0>>, <<5, 0, 0>>, <<5, 5, 0>>}

\* A sample is Big5 only if every pair of it is, and GBK only if every pair
\* of it is; if only GBK is possible it is GBK, though no pair of it be known;
\* if both are, the frequencies decide; and a sample cut within a pair is
\* neither where a text must end properly (lib/lang_zh.c:118-178).  The first
\* byte of a pair has an even number of 8bit bytes right in front of it.
ChineseIsDecided ==
  kind = "chinese" =>
    LET Ascii(i) == i = 0 \/ text[i] < 128
        IsHigh(i) == /\ text[i] >= 128
                     /\ (i - Max({j \in 0 .. i - 1 : Ascii(j)})) % 2 = 1
        highs == {i \in DOMAIN text : IsHigh(i)}
        pairs == {i \in highs : i < Len(text)}
        All(cs) == \A i \in pairs : IsValidIn(cs, text[i], text[i + 1])
    IN \A freq \in Frequencies, strict \in BOOLEAN :
         LET r == Rated(CalcRating(text, freq, strict))
             Outdoes(f, g) == 10 * f * Cardinality(pairs)
                                > 11 * g * Cardinality(pairs)
         IN Winner(ZhHook(r)) =
              IF pairs = {} \/ (strict /\ pairs # highs) \/ ~All(GBK)
              THEN NoWinner
              ELSE IF ~All(BIG5) THEN GBK
              ELSE IF Outdoes(freq[GBK], freq[BIG5]) THEN GBK
              ELSE IF Outdoes(freq[BIG5], freq[GBK]) THEN BIG5 ELSE NoWinner

\* What a language adds to the ratings decides as it should
\* (lib/filters.c:340, lib/lang_zh.c:118).
LanguagesDecide == HooksDecide /\ ChineseIsDecided

\* "It simply converts characters having a representation in target encoding,
\* doesn't touch anything else" (man/enca.1:388, src/convert.c:444-561), a byte
\* without a meaning included; a character that can be converted can be
\* converted back to the byte it was, if no other byte means it; and ASCII
\* stays ASCII, but in Cork, whose first bytes are taken for ASCII characters.
\* In ibm866 alone two letters become Latin.
BuiltinKeepsText ==
  kind = "builtin" /\ text # <<>> =>
    LET b == text[1]
    IN \A lang \in ToSet(LANGUAGE_LIST) :
         LET charsets == ToSet(lang.charsets) \cap DOMAIN UCS2
         IN \A from \in charsets, target \in charsets :
              LET table == BuiltinTable(lang, from, target)
                  back == BuiltinTable(lang, target, from)
                  c == Meaning(from, b)
                  latin == from # target /\ c \in DOMAIN LatinI(target)
              IN /\ c \in Repertoire(target) /\ ~latin =>
                      /\ Meaning(target, table[b]) = c
                      /\ Cardinality({x \in 0 .. 255 : Meaning(from, x) = c}) = 1
                         => back[table[b]] = b
                 /\ c \notin Repertoire(target) /\ ~latin => table[b] = b
                 /\ b < 128 /\ target # "cork" /\ from # "cork" => table[b] = b
                 /\ b < 128 => BuiltinTable(lang, "ascii", target)[b] = b

\* A token from 256 on is a character, a smaller one a byte.
Utf8Form(c) ==
  IF c < 256 THEN <<c>>
  ELSE IF c < 2048 THEN <<192 + c \div 64, 128 + (c % 64)>>
  ELSE <<224 + c \div 4096, 128 + ((c \div 64) % 64), 128 + (c % 64)>>
Utf8Text(chars) == Join([i \in DOMAIN chars |-> Utf8Form(chars[i])])

\* Ratings of a text are the weights times the occurrences of each character,
\* one that does not occur counting -1, and what was checked before, broken
\* or not, makes no difference (lib/utf8_double.c:105, 170, 403).
DoubleCheckExact ==
  kind = "doubled" =>
    LET Alone(s) == DoubleUtf8Check(Zeroes, s)
        check == Alone(Utf8Text(text))
        Times(c) == IF c \in ToSet(text) THEN Count(text, c) ELSE -1
    IN /\ ToSet(text) \cap 128 .. 255 = {} =>
            check.ratings =
              [i \in DOMAIN Russian |->
                 MapThenSumSet(LAMBDA c : Weights[i][c] * Times(c),
                               Significant)]
       /\ \A k \in DOMAIN text :
            LET front == Alone(Utf8Text(SubSeq(text, 1, k)))
                rest == Utf8Text(SubSeq(text, k + 1, Len(text)))
            IN DoubleUtf8Check(front.utfbuf, rest) = Alone(rest)

\* "Nonzero, when @buffer probably contains doubly-UTF-8 encoded text"
\* (lib/utf8_double.c:94): never for a text without one character that any
\* charset has a weight for.
UnratedIsNotDoubled ==
  kind = "once" /\ Number(text, LAMBDA t : t >= 256) > 0
  /\ ToSet(text) \cap Significant = {} =>
    DoubleUtf8Check(Zeroes, Utf8Text(text)).candidates = {}
-----------------------------------------------------------------------------
(* Names.  In a sample of kind "squeeze" token 0 separates two names; one  *)
(* of kind "alias" is a list of names of one letter.                       *)

\* Names are compared by their letters and digits alone, in lower case, the
\* shorter of two first: punctuation makes no difference wherever it stands
\* (lib/encnames.c:389-418).
SqueezeIsOrder ==
  kind = "squeeze" /\ Count(text, 0) = 1 =>
    LET cut == MemChr(text, 0, 1)
        x == SubSeq(text, 1, cut - 1)
        y == SubSeq(text, cut + 1, Len(text))
        Plain(s) == FoldLeft(LAMBDA t, b : IF IsAlnum(b) THEN Append(t, ToLower(b))
                                           ELSE t, <<>>, s)
        Before(s, t) ==
          \/ IsStrictPrefix(s, t)
          \/ \E i \in DOMAIN s \cap DOMAIN t :
               /\ s[i] < t[i] /\ \A k \in 1 .. i - 1 : s[k] = t[k]
    IN /\ SqueezeCompare(x, y) = 0 <=> Plain(x) = Plain(y)
       /\ SqueezeCompare(x, y) < 0 <=> Before(Plain(x), Plain(y))

\* In a sorted list, with names that occur several times, the search finds a
\* name exactly when it is there (lib/encnames.c:459-496).
SearchFinds ==
  kind = "alias" /\ text # <<>> /\ IsSorted(text, LAMBDA a, b : a <= b) =>
    LET alist == [i \in DOMAIN text |-> <<text[i]>>]
    IN \A b \in 96 .. 105 :
         LET i == AliasSearch(alist, <<b>>)
         IN IF b \in ToSet(text) THEN i > 0 /\ alist[i] = <<b>> ELSE i = -1

\* Names are ordered, and found by that order (lib/encnames.c:389-496).
NamesAreFound == SqueezeIsOrder /\ SearchFinds

-----------------------------------------------------------------------------
(* Helpers of the program around the library.                              *)

\* What file_getline() reads of the text, for a size of its buffer and of the
\* chunks; the buffer held `z' before.
LinesOfText(size, read_ahead) ==
  GetLines(text, [i \in 1 .. size |-> 122], read_ahead)

\* locale.alias is read line by line, whatever the size of the chunks and
\* wherever they end (src/filebuf.c:221-267): every line once, whole and in
\* turn, up to the first for which the buffer has no place, and nothing that is
\* not in the file if each has its place and its end.
LinesAreRead ==
  kind = "lines" =>
    LET starts == {c \in 0 .. Len(text) - 1 : c = 0 \/ text[c] = LF}
        End(c) == Min({e \in c + 1 .. Len(text) : e = Len(text) \/ text[e] = LF})
        Line(c) == SubSeq(text, c + 1, End(c))
        Ends(c) == text[End(c)] = LF
        Nth(c) == Cardinality({s \in starts : s <= c})
    IN \A size \in 3 .. 5, read_ahead \in 1 .. 3 :
         LET read == LinesOfText(size, read_ahead)
             Fits(c) == End(c) - c < IF Ends(c) THEN size ELSE size - 1
             whole == {c \in starts : \A s \in starts : s <= c => Fits(s)}
         IN /\ whole = starts => ~read.stuck /\ Len(read.lines) = Cardinality(starts)
            /\ \A c \in whole :
                 LET line == read.lines[Nth(c)]
                 IN /\ Nth(c) <= Len(read.lines)
                    /\ IsPrefix(Line(c), line)
                    /\ Ends(c) => line = Line(c)

\* "This function can get easily confused by lines longer than BUFSIZE (but the
\* worst thing that can happen is we return wrong locale name)"
\* (src/locale_detect.c:185): a file that is one such line is read to its end.
LongLinesEnd ==
  kind = "lines" =>
    \A size \in 3 .. 5, read_ahead \in 1 .. 3 :
      Len(text) > size /\ LF \notin ToSet(Front(text))
        => ~LinesOfText(size, read_ahead).stuck

\* The cache after the requests asked for in text, and the answers.
Answered ==
  FoldLeft(LAMBDA x, encreq :
             LET call == GetRecodeRequest(x.cache, encreq)
             IN [cache |-> call.cache,
                 answers |-> Append(x.answers, call.request)],
           [cache |-> <<>>, answers |-> <<>>], text)

\* Though entries change places during the search, every string is answered
\* with the request made for it, keeps its request in the cache, and no use is
\* forgotten (src/convert_recode.c:213-279).
CacheIsTruthful ==
  kind = "requests" =>
    LET cache == Answered.cache
    IN /\ Answered.answers = text
       /\ \A i \in DOMAIN cache : cache[i].request = cache[i].string
       /\ \A t \in ToSet(text) :
            MapThenSumSet(LAMBDA i : IF cache[i].string = t
                                     THEN cache[i].count ELSE 0,
                          DOMAIN cache) = Count(text, t)
=============================================================================
