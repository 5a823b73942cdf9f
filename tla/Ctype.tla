------------------------------- MODULE Ctype -------------------------------
(***************************************************************************)
(* What the scans of the library share: bytes and their classes            *)
(* (lib/ctype.c, lib/internal.h), memchr() and occurrence counts.  A byte  *)
(* is its number, a buffer a sequence of bytes; places start at 1.         *)
(***************************************************************************)
EXTENDS Integers, Sequences, FiniteSets, SequencesExt

Byte == 0 .. 255
CR == 13
LF == 10
IsEol(b) == b \in {CR, LF}

IsPrint(b) == b \in 32 .. 126
IsSpace(b) == b \in {9, LF, 12, CR, 32}
IsAlpha(b) == b \in 65 .. 90 \cup 97 .. 122
IsAlnum(b) == IsAlpha(b) \/ b \in 48 .. 57
IsBinary(b) == b \in 0 .. 8 \cup {11, 127} \cup 14 .. 31

\* '-', '.', '/', ':' and '_' may stand in a name beside letters and digits.
IsName(b) == IsAlnum(b) \/ b \in {45, 46, 47, 58, 95}

\* analyser->counts[b], the buffer being s
Count(s, b) == Quantify(DOMAIN s, LAMBDA i : s[i] = b)

\* memchr() from place p on; 0 is NULL
MemChr(s, b, p) == SelectInSubSeq(s, p, Len(s), LAMBDA x : x = b)
=============================================================================
