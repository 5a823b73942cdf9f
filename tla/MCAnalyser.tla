----------------------------- MODULE MCAnalyser -----------------------------
(* Samples, languages and options for the guesser. *)
EXTENDS Analyser

\* Empty, plain, with each kind of trouble alone and in pairs.
MCSamples ==
  {{}, {"text", "lf"}, {"text", "qp", "cr", "lf"}, {"text", "up", "lf"},
   {"text", "bin", "cr", "lf"}, {"del", "up", "cr"},
   {"bin", "up", "box", "lf"}, {"text", "box"}}

\* `none', Chinese, and a language with tables for everything.
MCLanguages ==
  {[charsets |-> 0, weights |-> FALSE, pairs |-> FALSE, significant |-> FALSE],
   [charsets |-> 2, weights |-> FALSE, pairs |-> FALSE, significant |-> FALSE],
   [charsets |-> 2, weights |-> TRUE, pairs |-> TRUE, significant |-> TRUE]}

\* The defaults, and each of the first three turned off, once in ambiguous mode.
SomeOptions ==
  LET on == [multibyte |-> TRUE, interpreted |-> TRUE, filtering |-> TRUE,
             ambiguous |-> FALSE, garbage |-> TRUE]
  IN {on, [on EXCEPT !.multibyte = FALSE], [on EXCEPT !.interpreted = FALSE],
      [on EXCEPT !.filtering = FALSE, !.ambiguous = TRUE]}
=============================================================================
