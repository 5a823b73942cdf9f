------------------------------ MODULE Analyser ------------------------------
(***************************************************************************)
(* The guesser (lib/guess.c) as its caller sees it: enca_analyse() and     *)
(* enca_analyse_const() on one analyser, with options set in between.      *)
(*                                                                         *)
(* The tests themselves (is it UTF-8, quoted-printable, which charset      *)
(* rates best) are chosen by the environment; what is kept is which test   *)
(* runs when, on which buffer and with which character counts, what the    *)
(* filters and the quoted-printable decoder do to the buffer, and how the  *)
(* answer, the reason for having none and the copies are handled.          *)
(*                                                                         *)
(* A buffer is the set of classes of the characters in it and the kinds of *)
(* rewriting it went through.                                              *)
(***************************************************************************)
EXTENDS Integers, FiniteSets

CONSTANTS
  Samples,    \* what callers pass: sets of classes, {} for size 0
  Languages,  \* records [charsets, weights, pairs, significant]
  Options,    \* option settings in use
  MaxCalls    \* bound: analyses done with the analyser

\* "bin" is a control character that is no text, "del" is 0x7f, which is
\* binary too; "box" is 8bit and draws boxes in some charset of the language,
\* "up" is any other 8bit character; "qp" is a quoted-printable sequence.
Classes == {"text", "cr", "lf", "bin", "del", "up", "box", "qp"}
Binary == {"bin", "del"}
High == {"up", "box"}

EolTypes == {"eol_lf", "eol_cr", "eol_crlf", "eol_mix", "eol_bin"}
Surfaces == EolTypes \cup {"perm_21", "perm_4321", "perm_mix", "qp"}
Charsets == {"unknown", "ascii", "multibyte", "wide", "regular", "ambiguous"}
Reasons == {"EMPTY", "GARBAGE", "FILTERED", "NOCS8", "SIGNIF", "WINNER",
            "INVALUE"}

ASSUME AnalyserAssumption ==
  /\ Samples \subseteq SUBSET Classes
  /\ Languages \subseteq [charsets : Nat, weights : BOOLEAN, pairs : BOOLEAN,
                          significant : BOOLEAN]
  /\ Options \subseteq [multibyte : BOOLEAN, interpreted : BOOLEAN,
                        filtering : BOOLEAN, ambiguous : BOOLEAN,
                        garbage : BOOLEAN]
  /\ MaxCalls \in Nat

VARIABLES
  lang, opts,
  const,    \* options.const_buffer
  given,    \* what the caller passed
  caller,   \* what the caller's buffer holds
  copy,     \* what the analyser's own copy holds
  buffer,   \* "caller" or "copy": where analyser->buffer points
  buffer2,  \* "null" or "caller"
  live,     \* copies allocated and not freed
  counts,   \* classes counted by count_characters()
  noise,    \* fchars is not zero
  result, gerrno, pc, calls

setup == <<lang, opts, const, given, calls>>
storage == <<caller, copy, buffer, buffer2, live>>
vars == <<setup, storage, counts, noise, result, gerrno, pc>>

Unknown == [charset |-> "unknown", surface |-> {}]
Raw(s) == [has |-> s, edits |-> {}]
Here == IF buffer = "caller" THEN caller ELSE copy
Goto(l) == pc' = l

Init ==
  /\ lang \in Languages /\ opts \in Options
  /\ const = FALSE
  /\ given = Raw({}) /\ caller = Raw({}) /\ copy = Raw({})
  /\ buffer = "caller" /\ buffer2 = "null" /\ live = 0
  /\ counts = {} /\ noise = FALSE
  /\ result = Unknown /\ gerrno = "OK"
  /\ pc = "idle" /\ calls = 0
-----------------------------------------------------------------------------
(* The calls of the interface. *)

AtRest == pc \in {"idle", "returned"}

\* The enca_set_*() functions.
SetOptions ==
  /\ AtRest /\ opts' \in Options
  /\ UNCHANGED <<lang, const, given, calls, storage, counts, noise, result,
                 gerrno, pc>>

\* enca_set_significant(0), enca_set_threshold() below 1.
SetRefused ==
  /\ AtRest /\ gerrno' = "INVALUE" /\ Goto("idle")
  /\ UNCHANGED <<setup, storage, counts, noise, result>>

\* enca_analyse() and enca_analyse_const() up to make_guess().
Analyse ==
  /\ AtRest /\ calls < MaxCalls
  /\ calls' = calls + 1
  /\ const' \in BOOLEAN
  /\ \E s \in Samples :
       /\ given' = Raw(s) /\ caller' = Raw(s)
       /\ IF s = {} THEN /\ gerrno' = "EMPTY" /\ Goto("returned")
                         /\ UNCHANGED <<buffer, buffer2>>
                    ELSE /\ gerrno' = "OK" /\ Goto("count")
                         /\ buffer' = "caller" /\ buffer2' = "null"
  /\ result' = Unknown
  /\ UNCHANGED <<lang, opts, copy, live, counts, noise>>

\* Deviation: analysers that copied free nothing when they give up.
FinishLeaks ==
  /\ pc = "finish" /\ Goto("returned")
  /\ result' = IF gerrno = "OK" THEN result ELSE Unknown
  /\ live' = IF buffer2 # "null" /\ gerrno = "OK" THEN live - 1 ELSE live
  /\ UNCHANGED <<setup, caller, copy, buffer, buffer2, counts, noise, gerrno>>

\* Deviation: surfaces found before giving up are returned.
FinishKeepsResult ==
  /\ pc = "finish" /\ Goto("returned")
  /\ live' = IF buffer2 # "null" THEN live - 1 ELSE live
  /\ UNCHANGED <<setup, caller, copy, buffer, buffer2, counts, noise, gerrno,
                 result>>

\* The end of analyse().
Finish ==
  /\ pc = "finish" /\ Goto("returned")
  /\ result' = IF gerrno = "OK" THEN result ELSE Unknown
  /\ live' = IF buffer2 # "null" THEN live - 1 ELSE live
  /\ UNCHANGED <<setup, caller, copy, buffer, buffer2, counts, noise, gerrno>>
-----------------------------------------------------------------------------
(* make_guess(): how its steps end. *)

\* enca_eol_surface(): from the counts; only when there are as many CRs as
\* LFs the buffer is looked at.  It does not see 0x7f.
EolSurfaces(c) ==
  IF "bin" \in c THEN {"eol_bin"}
  ELSE IF "cr" \notin c THEN {"eol_lf"}
  ELSE IF "lf" \notin c THEN {"eol_cr"} ELSE {"eol_mix", "eol_crlf"}

Continue(l) ==
  Goto(l) /\ UNCHANGED <<setup, storage, counts, noise, result, gerrno>>

GiveUp(e) ==
  /\ gerrno' = e /\ Goto("finish")
  /\ UNCHANGED <<setup, storage, counts, noise, result>>

Accept(cs, surface) ==
  /\ result' = [charset |-> cs, surface |-> result.surface \cup surface]
  /\ Goto("finish")
  /\ UNCHANGED <<setup, storage, noise, gerrno>>

\* A multibyte test that succeeds sets the charset and an end of line type.
AcceptMultibyte ==
  \E eol \in EolSurfaces(counts) :
    Accept("multibyte", {eol}) /\ UNCHANGED counts
-----------------------------------------------------------------------------
(* 7bit samples. *)

Count ==
  /\ pc = "count" /\ counts' = Here.has
  /\ noise' = FALSE
  /\ Goto(IF counts' \cap (Binary \cup High) = {} THEN "ascii" ELSE "wide")
  /\ UNCHANGED <<setup, storage, result, gerrno>>

\* try_test_list(): UTF-7, TeX, HZ.
AsciiTests ==
  /\ pc = "ascii"
  /\ \/ opts.multibyte /\ AcceptMultibyte
     \/ Continue("qp")

\* What a buffer may hold when its quoted-printable sequences are decoded.
Decoded(b) ==
  {[has |-> (b.has \ {"qp"}) \cup d, edits |-> b.edits \cup {"qp"}] :
     d \in SUBSET (Classes \ {"qp"}) \ {{}}}

\* Deviation: a constant buffer is rewritten in place.
RewriteInPlace(b) ==
  /\ IF buffer = "copy" THEN copy' = b /\ UNCHANGED caller
                        ELSE caller' = b /\ UNCHANGED copy
  /\ UNCHANGED <<buffer, buffer2, live>>

\* Deviation: it is not asked whether there is a copy already.
RewriteCopyAgain(b) ==
  IF const
  THEN /\ copy' = b /\ live' = live + 1
       /\ buffer' = "copy" /\ buffer2' = buffer
       /\ UNCHANGED caller
  ELSE caller' = b /\ UNCHANGED <<copy, buffer, buffer2, live>>

\* analyser->buffer becomes b: a constant buffer is copied before, unless it
\* was already; buffer2 then keeps the original.
Rewrite(b) ==
  IF const /\ buffer2 = "null"
  THEN /\ copy' = b /\ live' = live + 1
       /\ buffer' = "copy" /\ buffer2' = buffer
       /\ UNCHANGED caller
  ELSE /\ IF buffer = "copy" THEN copy' = b /\ UNCHANGED caller
                             ELSE caller' = b /\ UNCHANGED copy
       /\ UNCHANGED <<buffer, buffer2, live>>

\* looks_like_qp() that succeeds, and the recount.
QuotedPrintable ==
  /\ pc = "qp"
  /\ opts.interpreted /\ "qp" \in counts
  /\ \E d \in Decoded(Here) : Rewrite(d) /\ counts' = d.has
  /\ result' = [result EXCEPT !.surface = @ \cup {"qp"}]
  /\ Goto("plain")
  /\ UNCHANGED <<setup, noise, gerrno>>

NotQuotedPrintable == pc = "qp" /\ Continue("plain")

PlainAscii ==
  /\ pc = "plain"
  /\ IF counts \cap (Binary \cup High) = {}
     THEN /\ \E eol \in EolSurfaces(counts) : Accept("ascii", {eol})
          /\ UNCHANGED counts
     ELSE Continue("wide")
-----------------------------------------------------------------------------
(* 8bit and binary samples before filtering. *)

ByteOrders == {{}, {"perm_21"}, {"perm_4321"}, {"perm_21", "perm_4321"},
               {"perm_mix"}}

\* UCS-4 and UCS-2, for samples with binary characters.
WideTests ==
  /\ pc = "wide"
  /\ \/ /\ counts \cap Binary # {} /\ opts.multibyte
        /\ \E eol \in EolTypes \ {"eol_bin"}, p \in ByteOrders :
             Accept("wide", {eol} \cup p) /\ UNCHANGED counts
     \/ /\ ~opts.interpreted /\ counts \cap Binary # {}
        /\ GiveUp("GARBAGE")
     \/ /\ opts.interpreted \/ counts \cap Binary = {}
        /\ Continue("utf8")

Utf8Test ==
  /\ pc = "utf8"
  /\ \/ /\ counts \cap Binary = {} /\ counts \cap High # {} /\ opts.multibyte
        /\ AcceptMultibyte
     \/ Continue("filter")
-----------------------------------------------------------------------------
(* Filtering. *)

\* filter_binary(): no binary character stays, others may be blanked too.
BinaryFiltered(b) ==
  {[has |-> (b.has \ (Binary \cup r)) \cup {"text"},
    edits |-> b.edits \cup {"bin"}] : r \in SUBSET (b.has \ {"text"})}

\* enca_filter_boxdraw(): some of the box-drawing characters, or all.
BoxFiltered(b) ==
  IF "box" \notin b.has \/ lang.charsets = 0 THEN {b}
  ELSE {b} \cup {[has |-> (b.has \ r) \cup {"text"},
                  edits |-> b.edits \cup {"box"}] : r \in SUBSET {"box"}}

Filtered(b) ==
  UNION {BoxFiltered(f) :
           f \in IF counts \cap Binary = {} THEN {b} ELSE BinaryFiltered(b)}

Filter ==
  /\ pc = "filter"
  /\ IF opts.filtering
     THEN \E f \in Filtered(Here) :
            Rewrite(f) /\ noise' = (f.edits # Here.edits)
     ELSE noise' = FALSE /\ UNCHANGED storage
  /\ result' = IF opts.filtering /\ counts \cap Binary # {}
               THEN [result EXCEPT !.surface = @ \cup {"eol_bin"}]
               ELSE result
  /\ Goto("surface")
  /\ UNCHANGED <<setup, counts, gerrno>>

\* Deviation: that only ASCII is left is not told from ASCII.
SurfaceForgetsNoise ==
  /\ pc = "surface"
  /\ \/ noise /\ GiveUp("FILTERED")
     \/ \E eol \in EolSurfaces(counts) :
          /\ counts' = IF noise THEN Here.has ELSE counts
          /\ IF noise /\ counts' \cap High = {}
             THEN Accept("ascii", {eol})
             ELSE /\ result' = [result EXCEPT !.surface = @ \cup {eol}]
                  /\ Goto("tolerant")
                  /\ UNCHANGED <<setup, storage, noise, gerrno>>

\* Deviation: the characters are not counted again.
SurfaceNoRecount ==
  /\ pc = "surface"
  /\ \/ noise /\ GiveUp("FILTERED")
     \/ \E eol \in EolSurfaces(counts) :
          /\ UNCHANGED counts
          /\ result' = [result EXCEPT !.surface = @ \cup {eol}]
          /\ Goto("tolerant")
          /\ UNCHANGED <<setup, storage, noise, gerrno>>

\* Too much was filtered out, or the end of line type is looked for in the
\* filtered buffer, but with the counts from before; only then the characters
\* are counted again, and ASCII with noise is recognised.
Surface ==
  /\ pc = "surface"
  /\ \/ noise /\ GiveUp("FILTERED")
     \/ \E eol \in EolSurfaces(counts) :
          /\ counts' = IF noise THEN Here.has ELSE counts
          /\ IF noise /\ counts' \cap High = {}
             THEN Accept("ascii", {eol, "eol_bin"})
             ELSE /\ result' = [result EXCEPT !.surface = @ \cup {eol}]
                  /\ Goto("tolerant")
                  /\ UNCHANGED <<setup, storage, noise, gerrno>>
-----------------------------------------------------------------------------
(* What filtering left. *)

\* looks_like_utf8(): the end of line type is looked for once more, and a
\* sequence that is no UTF-8 makes the sample binary.
TolerantTest ==
  /\ pc = "tolerant"
  /\ \/ /\ counts \cap High # {} /\ opts.multibyte
        /\ \E eol \in EolSurfaces(counts), bad \in SUBSET {"eol_bin"} :
             Accept("multibyte", {eol} \cup bad) /\ UNCHANGED counts
     \/ lang.charsets = 0 /\ GiveUp("NOCS8")
     \/ lang.charsets > 0 /\ Continue("regular")

AcceptRegular == Accept("regular", {}) /\ UNCHANGED counts

\* check_significant() and enca_pair_analyse().
PairTest ==
  /\ pc = "regular"
  /\ \/ lang.significant /\ GiveUp("SIGNIF")
     \/ lang.pairs /\ AcceptRegular
     \/ Continue("rate")

\* The ratings, the language's hooks, test_garbage(), and the winner: the only
\* charset or one above the threshold; in ambiguous mode also one that
\* ambiguous_hook() finds to mean the same as those below.
Rate ==
  /\ pc = "rate"
  /\ \/ opts.garbage /\ lang.weights /\ GiveUp("GARBAGE")
     \/ AcceptRegular
     \/ /\ lang.charsets > 1 /\ opts.ambiguous /\ lang.weights
        /\ Accept("ambiguous", {}) /\ UNCHANGED counts
     \/ lang.charsets > 1 /\ GiveUp("WINNER")
-----------------------------------------------------------------------------
Interface == SetOptions \/ SetRefused \/ Analyse \/ Finish
Tests == \/ Count \/ AsciiTests \/ QuotedPrintable \/ NotQuotedPrintable
         \/ PlainAscii \/ WideTests \/ Utf8Test \/ Filter \/ Surface
         \/ TolerantTest \/ PairTest \/ Rate

Next == Interface \/ Tests

Spec == Init /\ [][Next]_vars
-----------------------------------------------------------------------------
(* Properties. *)

Content == [has : SUBSET Classes, edits : SUBSET {"qp", "bin", "box"}]

TypeOK ==
  /\ lang \in Languages /\ opts \in Options /\ const \in BOOLEAN
  /\ given \in Content /\ caller \in Content /\ copy \in Content
  /\ buffer \in {"caller", "copy"} /\ buffer2 \in {"null", "caller"}
  /\ live \in 0 .. 1 /\ counts \in SUBSET Classes /\ noise \in BOOLEAN
  /\ result \in [charset : Charsets, surface : SUBSET Surfaces]
  /\ gerrno \in Reasons \cup {"OK"} /\ calls \in 0 .. MaxCalls

\* "This function never modifies @buffer (can be even used with string
\* literal @buffer)" (lib/guess.c:152), whatever is decoded and filtered.
CallerUntouched == const => caller = given

\* There is a copy exactly while analyser->buffer points to it, buffer2 then
\* has the original, and between two calls there is none (lib/guess.c:206).
CopyOwned ==
  /\ pc \notin {"idle", "returned"} =>
       /\ live = IF buffer = "copy" THEN 1 ELSE 0
       /\ (live = 1) <=> (buffer2 = "caller")
  /\ pc \in {"idle", "returned"} => live = 0

\* "When charset part of return value is ENCA_CS_UNKNOWN, encoding was not
\* determined.  Check enca_errno() for reason." (lib/guess.c:126): there is a
\* reason exactly then, and no surface without a charset.
UnknownHasReason ==
  pc = "returned" =>
    /\ (result.charset = "unknown") <=> (gerrno # "OK")
    /\ result.charset = "unknown" => result.surface = {}

\* What the tests after the filters go by is what is in the buffer.
CountsAreFresh ==
  pc \in {"ascii", "qp", "plain", "wide", "utf8", "filter", "tolerant",
          "regular", "rate"} => counts = Here.has

\* An answer without EOL_BIN ("end-of-line concept not applicable", binary
\* data) is no answer about a sample that had binary characters filtered out,
\* nor plain ASCII for one with 8bit characters.
NoiseIsTold ==
  pc = "returned" /\ "eol_bin" \notin result.surface =>
    /\ "bin" \in Here.edits => result.charset = "unknown"
    /\ result.charset = "ascii" => given.has \cap (Binary \cup High) = {}
=============================================================================
