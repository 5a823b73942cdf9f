--------------------------- MODULE MultibyteScans ---------------------------
(***************************************************************************)
(* The charset tests of lib/multibyte.c for encodings of single bytes,     *)
(* as functions of the sample.  A test answers whether it set the result,  *)
(* and which surface it set.                                               *)
(***************************************************************************)
EXTENDS WideScans
-----------------------------------------------------------------------------
(* UTF-8: is_valid_utf8() and its tolerant twin look at the same automaton. *)

BOM8 == <<239, 187, 191>>
IsContinuation(b) == b \in 128 .. 191

\* Bytes a lead byte announces; 0xfe and 0xff are no lead bytes.
Follow(b) == IF b \in 192 .. 223 THEN 1 ELSE IF b \in 224 .. 239 THEN 2
             ELSE IF b \in 240 .. 247 THEN 3 ELSE IF b \in 248 .. 251 THEN 4
             ELSE IF b \in 252 .. 253 THEN 5 ELSE 0

\* Deviation: a broken sequence does not end.
Utf8StepKeep(st, b) ==
  IF st.left = 0 THEN
    IF b < 128 THEN st
    ELSE IF Follow(b) > 0
         THEN [st EXCEPT !.left = Follow(b), !.utf8count = @ + 1]
         ELSE [st EXCEPT !.failures = @ + 1]
  ELSE IF IsContinuation(b) THEN [st EXCEPT !.left = @ - 1]
  ELSE [st EXCEPT !.failures = @ + 1, !.utf8count = @ - 1]

\* One byte; left is remains_10xxxxxx.
Utf8Step(st, b) ==
  IF st.left = 0 THEN
    IF b < 128 THEN st
    ELSE IF Follow(b) > 0
         THEN [st EXCEPT !.left = Follow(b), !.utf8count = @ + 1]
         ELSE [st EXCEPT !.failures = @ + 1]
  ELSE IF IsContinuation(b) THEN [st EXCEPT !.left = @ - 1]
  ELSE [left |-> 0, failures |-> st.failures + 1,
        utf8count |-> st.utf8count - 1]

\* What both tests scan; the end of lines are looked for there, too.
BehindMark(s) == IF IsPrefix(BOM8, s) THEN SubSeq(s, 4, Len(s)) ELSE s

\* The whole sample.  A byte order mark counts as several characters.
Utf8Scan(s) ==
  FoldLeft(Utf8Step,
           [left |-> 0, failures |-> 0,
            utf8count |->
              IF IsPrefix(BOM8, s) THEN BomBonus(Len(s), 10) ELSE 0],
           BehindMark(s))

\* The strict test returns at the first failure.
IsValidUtf8(s, options) ==
  LET end == Utf8Scan(s)
  IN IF \/ Count(s, 254) > 0 \/ Count(s, 255) > 0
        \/ end.failures > 0
        \/ end.left # 0 /\ options.strict
        \/ end.utf8count < options.min_chars
     THEN Refused ELSE Accepted({EolSurface(BehindMark(s))})

LooksLikeUtf8(s, options) ==
  LET end == Utf8Scan(s)
      open == end.left # 0 /\ options.strict
      failures == end.failures + IF open THEN 2 ELSE 0
  IN IF failures * 1000 > options.tolerance * end.utf8count THEN Refused
     ELSE Accepted({EolSurface(BehindMark(s))}
                   \cup IF failures > 0 THEN {"bin"} ELSE {})
-----------------------------------------------------------------------------
(* UTF-7.                                                                  *)

UTF7_ESCAPE == 43
UTF7_PLUS == 45

\* BASE64 of the source, 0 for a byte that is no digit, else 1 to 64
Base64(b) ==
  IF b \in 65 .. 90 THEN b - 64 ELSE IF b \in 97 .. 122 THEN b - 70
  ELSE IF b \in 48 .. 57 THEN b + 5 ELSE IF b = 43 THEN 63
  ELSE IF b = 47 THEN 64 ELSE 0

\* All padding bits after k digits, the last being b, are zero.
PaddingIsZero(b, k) == (Base64(b) - 1) % 2 ^ ((6 * k) % 8) = 0

\* How the scan ends: in text, within a sequence, or refusing.
Utf7Scan(s) ==
  LET n == Len(s)
      from[p \in Nat, utf7count \in Nat] ==
        LET e == MemChr(s, UTF7_ESCAPE, p)
            q == Min({i \in e + 1 .. n + 1 : i > n \/ Base64(s[i]) = 0})
            k == q - e - 1
        IN IF e = 0 THEN [end |-> "text", utf7count |-> utf7count]
           ELSE IF e = n THEN [end |-> "open", utf7count |-> utf7count]
           ELSE IF s[e + 1] = UTF7_PLUS THEN from[e + 1, utf7count]
           ELSE IF q > n THEN [end |-> "open", utf7count |-> utf7count]
           ELSE IF k = 0 THEN [end |-> "refused", utf7count |-> 0]
           ELSE IF ~PaddingIsZero(s[q - 1], k)
                THEN [end |-> "refused", utf7count |-> 0]
           ELSE from[q, utf7count + (6 * k) \div 16]
  IN from[1, 0]

\* Deviation: a text may end within a sequence.
IsValidUtf7Cut(s, options) ==
  LET scan == Utf7Scan(s)
  IN IF \/ Count(s, UTF7_ESCAPE) < options.min_chars
        \/ scan.end = "refused"
        \/ scan.utf7count < options.min_chars
     THEN Refused ELSE Accepted({EolSurface(s)})

IsValidUtf7(s, options) ==
  LET scan == Utf7Scan(s)
  IN IF \/ Count(s, UTF7_ESCAPE) < options.min_chars
        \/ scan.end = "refused"
        \/ scan.end = "open" /\ options.strict
        \/ scan.utf7count < options.min_chars
     THEN Refused ELSE Accepted({EolSurface(s)})
-----------------------------------------------------------------------------
(* HZ.  The first loop of looks_like_hz() moves behind the first "~{".     *)

TILDE == 126
OPEN == 123
CLOSE == 125

\* Deviation: three bytes are too few to go on.
TooFew(n, p) == p + 3 > n

\* The first loop goes on while more than two bytes are left from p on.
TooShort(n, p) == p + 2 > n

\* The loop ends without setting escaped when at most two bytes are left, so
\* what stands in it then is given; so is the byte after the buffer, which it
\* reads when the last byte is '~'.
HzStart(s, unset, beyond) ==
  LET n == Len(s)
      from[p \in Nat] ==
        LET e == MemChr(s, TILDE, p)
            next == IF e = n THEN beyond ELSE s[e + 1]
        IN IF TooShort(n, p) THEN [p |-> p, escaped |-> unset]
           ELSE IF e = 0 THEN [p |-> 0, escaped |-> unset]
           ELSE IF next = OPEN THEN [p |-> e + 2, escaped |-> TRUE]
           ELSE from[e + 2]
  IN from[1]

\* Where the loop goes on after "~~" at p.
HzAfterTildes(p, escaped) == IF escaped THEN p + 1 ELSE p + 2

\* The second loop, from where the first one stopped.  A number of characters
\* below zero is a refusal.
HzScan(s, unset, beyond) ==
  LET n == Len(s)
      start == HzStart(s, unset, beyond)
      from[p \in Nat, escaped \in BOOLEAN, hzcount \in Nat] ==
        LET pair == s[p] = TILDE /\ p < n
            next == s[p + 1]
        IN IF p > n THEN [escaped |-> escaped, hzcount |-> hzcount]
           ELSE IF pair /\ next = TILDE
                THEN from[HzAfterTildes(p, escaped), escaped,
                          hzcount + IF escaped THEN 1 ELSE 0]
           ELSE IF pair /\ next = OPEN /\ ~escaped
                THEN from[p + 2, TRUE, hzcount]
           ELSE IF pair /\ next = CLOSE /\ escaped
                THEN from[p + 2, FALSE, hzcount]
           ELSE IF pair /\ next = LF /\ ~escaped
                THEN from[p + 2, escaped, hzcount]
           ELSE IF pair /\ next \notin {OPEN, CLOSE, LF} /\ escaped
                THEN from[p + 1, escaped, hzcount]
           ELSE IF ~pair /\ ~escaped THEN from[p + 1, escaped, hzcount]
           ELSE IF ~pair /\ s[p] >= 32 THEN from[p + 1, escaped, hzcount + 1]
           ELSE [escaped |-> escaped, hzcount |-> -1]
  IN IF start.p = 0 THEN [escaped |-> unset, hzcount |-> -1]
     ELSE from[start.p, start.escaped, 0]

\* looks_like_hz(), when the language has the charset.
LooksLikeHz(s, options, unset, beyond) ==
  LET scan == HzScan(s, unset, beyond)
  IN IF \/ Count(s, OPEN) = 0 \/ Count(s, CLOSE) = 0 \/ Count(s, TILDE) = 0
        \/ scan.hzcount < options.min_chars
        \/ scan.escaped /\ options.strict
     THEN Refused ELSE Accepted({EolSurface(s)})
-----------------------------------------------------------------------------
(* TeX accents: a backslash, the accent, any braces and spaces, a letter.  *)

TEX_ESCAPE == 92
TEX_ACCPUNCT == {39, 46, 61, 92, 94, 96, 126}   \* ' . = \ ^ ` ~
TEX_ACCALPHA == {72, 98, 99, 100, 107, 114, 116, 117, 118} \* H b c d k r t u v
TexSkips(b) == b = OPEN \/ IsSpace(b)

\* Deviation: what follows an accent that is a letter is not looked at.
AccentAlphaLoose(b, next) == b \in TEX_ACCALPHA

\* A letter is an accent only when a brace or a space follows.
AccentAlpha(b, next) == b \in TEX_ACCALPHA /\ TexSkips(next)

\* The number of accents.  After a backslash doubled at the very end of the
\* buffer the program reads the byte behind it.
TexScan(s, beyond) ==
  LET n == Len(s)
      at(i) == IF i <= n THEN s[i] ELSE beyond
      from[p \in Nat, TeXaccents \in Nat] ==
        LET e == MemChr(s, TEX_ESCAPE, p)
            a == IF s[e + 1] = TEX_ESCAPE THEN e + 2 ELSE e + 1
            punct == at(a) \in TEX_ACCPUNCT
            alpha == ~punct /\ at(a) \in TEX_ACCALPHA
            here == IF alpha THEN a + 1 ELSE a
            l == IF here >= n THEN here
                 ELSE Min({i \in here + 1 .. n : i = n \/ ~TexSkips(s[i])})
        IN IF e = 0 \/ e + 2 > n THEN TeXaccents
           ELSE IF punct \/ AccentAlpha(at(a), at(a + 1))
                THEN from[l, TeXaccents + IF IsAlpha(at(l)) THEN 1 ELSE 0]
           ELSE from[here, TeXaccents]
  IN from[1, 0]

LooksLikeTeX(s, options, beyond) ==
  IF \/ Count(s, TEX_ESCAPE) < options.min_chars
     \/ TexScan(s, beyond) < options.min_chars
  THEN Refused ELSE Accepted({EolSurface(s)})
=============================================================================
