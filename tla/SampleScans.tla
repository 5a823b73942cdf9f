---------------------------- MODULE SampleScans ----------------------------
(***************************************************************************)
(* Scans of a whole sample that are no charset tests: the end of line      *)
(* surface and quoted-printable of lib/guess.c, the box-drawing filter of  *)
(* lib/filters.c.                                                          *)
(***************************************************************************)
EXTENDS Ctype

FillCharacter == 32

\* What both kinds of EOL detection conclude from the numbers of CR's and
\* LF's and from whether every LF that was looked at follows a CR.
EolOf(cr, lf, crlf_ok) ==
  IF cr = 0 THEN "lf"
  ELSE IF lf = 0 THEN "cr"
  ELSE IF crlf_ok THEN "crlf"
  ELSE "mix"

\* Deviation: the numbers of CR's and LF's are not compared.
EolUncounted(s) ==
  IF \E i \in DOMAIN s : s[i] < 32 /\ IsBinary(s[i]) THEN "bin"
  ELSE EolOf(Count(s, CR), Count(s, LF),
             \A i \in 2 .. Len(s) : s[i] = LF => s[i - 1] = CR)

\* enca_eol_surface(): the search for LF's starts at the second byte.
EolSurface(s) ==
  IF \E i \in DOMAIN s : s[i] < 32 /\ IsBinary(s[i]) THEN "bin"
  ELSE EolOf(Count(s, CR), Count(s, LF),
             /\ Count(s, CR) = Count(s, LF)
             /\ \A i \in 2 .. Len(s) : s[i] = LF => s[i - 1] = CR)
-----------------------------------------------------------------------------
(* Quoted-printable: a counting pass, then one that decodes.               *)

QP_ESCAPE == 61
IsHex(b) == b \in 48 .. 57 \cup 65 .. 70
\* HEXDIGITS[b] - 1
HexValue(b) == IF b \in 48 .. 57 THEN b - 48
               ELSE IF b \in 65 .. 70 THEN b - 55 ELSE -1

Positions == Nat \ {0}

\* Deviation: one CR or LF only is removed with the escape.
AfterOneEol(s, p) == p + 1

\* The first place from p on that holds neither CR nor LF.
AfterEols(s, p) == Min({i \in p .. Len(s) + 1 : i > Len(s) \/ ~IsEol(s[i])})

\* An escape counts when two more bytes follow it; the place of the first
\* such one from p on, 0 when there is none.
Escape(s, p) ==
  LET e == MemChr(s, QP_ESCAPE, p) IN IF e + 2 <= Len(s) THEN e ELSE 0

\* The counting pass of looks_like_qp(), from a place p on with counts qpcount
\* and reduce.
QpScan(s) ==
  LET pass[d \in Positions \X Nat \X Nat] ==
        LET e == Escape(s, d[1])
            q == AfterEols(s, e + 1)
        IN IF e = 0 THEN [ok |-> TRUE, qpcount |-> d[2], reduce |-> d[3]]
           ELSE IF IsEol(s[e + 1]) THEN pass[<<q, d[2], d[3] + q - e>>]
           ELSE IF IsHex(s[e + 1]) /\ IsHex(s[e + 2])
                THEN pass[<<e + 3, d[2] + 1, d[3] + 2>>]
           ELSE [ok |-> FALSE, qpcount |-> 0, reduce |-> 0]
  IN pass[<<1, 0, 0>>]

LooksLikeQp(s, min_chars) ==
  /\ Count(s, QP_ESCAPE) >= min_chars
  /\ QpScan(s).ok
  /\ QpScan(s).qpcount >= min_chars

\* memmove(p0, from, size) within one buffer
Moved(buf, p0, from, size) ==
  [i \in DOMAIN buf |-> IF i \in p0 .. p0 + size - 1 THEN buf[from + i - p0]
                        ELSE buf[i]]

\* The decoding pass, in place, and how many bytes it leaves.  p0 is the place
\* written next, p2 the first byte not moved yet; a byte keeps the low 8 bits.
QpDecode(s) ==
  LET n == Len(s)
      pass[d \in Seq(Byte) \X Positions \X Positions] ==
        LET buf == d[1]
            p0 == d[2]
            p2 == d[3]
            e == Escape(buf, p2)
            at == p0 + e - p2
            kept == Moved(buf, p0, p2, e - p2)
            byte == (16 * HexValue(kept[e + 1]) + HexValue(kept[e + 2])) % 256
        IN IF e = 0
           THEN [buf |-> Moved(buf, p0, p2, n + 1 - p2), size |-> p0 + n - p2]
           ELSE IF IsEol(kept[e + 1])
                THEN pass[<<kept, at, AfterEols(kept, e + 1)>>]
           ELSE pass[<<[kept EXCEPT ![at] = byte], at + 1, e + 3>>]
  IN pass[<<s, 1, 1>>]
-----------------------------------------------------------------------------
(* The box-drawing filter.  bd is an entry of BOXDRAW: isvbox the vertical *)
(* and mixed characters, h1 and h2 the horizontal ones.                    *)

BOXDRAW ==
  [cp1125 |-> [isvbox |-> 179 .. 218 \ {196, 205}, h1 |-> 196, h2 |-> 205],
   koi8u |-> [isvbox |-> 128 .. 138 \cup 168 .. 172 \cup 174 .. 178
                         \cup 184 .. 188 \cup {161, 162, 165, 181, 190},
              h1 |-> 128, h2 |-> 160]]

\* Deviation: a line is never taken to reach the last byte.
LineEndShort(buf, i) ==
  Min({k \in i + 1 .. Len(buf) : k = Len(buf) \/ buf[k] # buf[i]})

\* The first place after i that does not hold the byte at i.
LineEnd(buf, i) ==
  Min({k \in i + 1 .. Len(buf) + 1 : k > Len(buf) \/ buf[k] # buf[i]})

\* First stage: horizontal lines, at least two in a row.
Horizontal(st, bd) ==
  LET from[p \in Nat \X [buf : Seq(Byte), xout : Nat]] ==
        LET i == p[1]
            now == p[2]
            n == LineEnd(now.buf, i)
        IN IF i >= Len(now.buf) THEN now
           ELSE IF now.buf[i] \notin {bd.h1, bd.h2} THEN from[<<i + 1, now>>]
           ELSE IF n = i + 1 THEN from[<<n, now>>]
           ELSE from[<<n, [buf |-> [j \in DOMAIN now.buf |->
                                      IF j \in i .. n - 1 THEN FillCharacter
                                      ELSE now.buf[j]],
                           xout |-> now.xout + n - i]>>]
  IN from[<<1, st>>]

\* Second stage: vertical and mixed, each between whitespace or at an end.
Vertical(st, bd) ==
  LET size == Len(st.buf)
      step(acc, i) ==
        IF /\ size > 1 /\ acc.buf[i] \in bd.isvbox
           /\ i = 1 \/ IsSpace(acc.buf[i - 1])
           /\ i = size \/ IsSpace(acc.buf[i + 1])
        THEN [buf |-> [acc.buf EXCEPT ![i] = FillCharacter],
              xout |-> acc.xout + 1]
        ELSE acc
  IN FoldLeft(step, st, [i \in 1 .. size |-> i])

FilterBoxdrawOut(st, bd) == Vertical(Horizontal(st, bd), bd)

\* enca_filter_boxdraw(): the filters of all charsets of the language in turn.
FilterBoxdraw(s, charsets) ==
  FoldLeft(LAMBDA st, cs : FilterBoxdrawOut(st, BOXDRAW[cs]),
           [buf |-> s, xout |-> 0], charsets)
=============================================================================
