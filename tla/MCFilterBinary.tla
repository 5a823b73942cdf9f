--------------------------- MODULE MCFilterBinary ---------------------------
(* All samples up to a length, for the program's own BIN_TEXT_CHAR_MIN. *)
EXTENDS FilterBinary

SamplesTo(n) == UNION {[1 .. k -> Classes] : k \in 0 .. n}
ShortSamples == SamplesTo(8)
=============================================================================
