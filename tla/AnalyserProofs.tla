--------------------------- MODULE AnalyserProofs ---------------------------
(* The storage of the guesser, for all samples, languages and options and  *)
(* any number of analyses.                                                 *)
EXTENDS Analyser, TLAPS

AtWork == pc \notin {"idle", "returned"}

(***************************************************************************)
(* The inductive invariant: who owns the buffer, that the constant one is  *)
(* untouched, and that a reason is given exactly when no test succeeded.   *)
(***************************************************************************)
StorageInv ==
  /\ buffer \in {"caller", "copy"} /\ buffer2 \in {"null", "caller"}
  /\ live = IF AtWork /\ buffer = "copy" THEN 1 ELSE 0
  /\ AtWork => (buffer = "copy" <=> buffer2 = "caller")
  /\ CallerUntouched

AnswerInv ==
  /\ result \in [charset : Charsets, surface : SUBSET Surfaces]
  /\ AtWork /\ pc # "finish" => result.charset = "unknown" /\ gerrno = "OK"
  /\ pc = "finish" => ((result.charset = "unknown") <=> (gerrno # "OK"))
  /\ UnknownHasReason

LEMMA InitInv == Init => StorageInv /\ AnswerInv
BY DEF Init, StorageInv, AnswerInv, AtWork, CallerUntouched, UnknownHasReason,
       Unknown, Charsets, Surfaces

(* Rewriting keeps the ownership and a constant buffer. *)
LEMMA RewriteStorage ==
  ASSUME StorageInv, AtWork, NEW b, Rewrite(b), UNCHANGED <<const, given>>,
         AtWork'
  PROVE  StorageInv'
BY DEF StorageInv, Rewrite, AtWork, CallerUntouched

(* A step that leaves the storage alone keeps it, from work to work. *)
LEMMA SameStorage ==
  ASSUME StorageInv, AtWork, UNCHANGED <<storage, const, given>>, AtWork'
  PROVE  StorageInv'
BY DEF StorageInv, storage, AtWork, CallerUntouched

LEMMA StepStorage == StorageInv /\ [Next]_vars => StorageInv'
<1> SUFFICES ASSUME StorageInv, [Next]_vars PROVE StorageInv'
  OBVIOUS
<1>1. CASE SetOptions \/ SetRefused
  BY <1>1 DEF SetOptions, SetRefused, AtRest, Goto, setup, storage,
              StorageInv, AtWork, CallerUntouched
<1>2. CASE Analyse
  BY <1>2 DEF Analyse, AtRest, Goto, StorageInv, AtWork, CallerUntouched
<1>3. CASE Finish
  BY <1>3 DEF Finish, Goto, setup, StorageInv, AtWork, CallerUntouched
<1>4. CASE QuotedPrintable
  <2>1. PICK b \in Decoded(Here) : Rewrite(b)
    BY <1>4 DEF QuotedPrintable
  <2>2. AtWork /\ AtWork' /\ UNCHANGED <<const, given>>
    BY <1>4 DEF QuotedPrintable, AtWork, Goto, setup
  <2> QED BY <2>1, <2>2, RewriteStorage
<1>5. CASE Filter
  <2>1. AtWork /\ AtWork' /\ UNCHANGED <<const, given>>
    BY <1>5 DEF Filter, AtWork, Goto, setup
  <2>2. CASE UNCHANGED storage
    BY <2>1, <2>2, SameStorage DEF storage
  <2>3. CASE \E b \in Filtered(Here) : Rewrite(b)
    BY <2>1, <2>3, RewriteStorage
  <2> QED BY <1>5, <2>2, <2>3 DEF Filter
<1>6. CASE \/ Count \/ AsciiTests \/ NotQuotedPrintable \/ PlainAscii
           \/ WideTests \/ Utf8Test \/ Surface \/ TolerantTest \/ PairTest
           \/ Rate
  <2>1. AtWork /\ AtWork' /\ UNCHANGED <<storage, const, given>>
    BY <1>6
       DEF Count, AsciiTests, NotQuotedPrintable, PlainAscii, WideTests,
           Utf8Test, Surface, TolerantTest, PairTest, Rate, AcceptMultibyte,
           AcceptRegular, Accept, GiveUp, Continue, Goto, setup, AtWork
  <2> QED BY <2>1, SameStorage DEF storage
<1>7. CASE UNCHANGED vars
  BY <1>7 DEF vars, setup, storage, StorageInv, AtWork, CallerUntouched
<1> QED
  BY <1>1, <1>2, <1>3, <1>4, <1>5, <1>6, <1>7 DEF Next, Interface, Tests

(* Adding surfaces to an unfinished answer, and giving one.               *)
LEMMA AddSurface ==
  ASSUME AnswerInv, AtWork, pc # "finish", NEW s \in SUBSET Surfaces,
         result' = [result EXCEPT !.surface = @ \cup s],
         gerrno' = gerrno, AtWork', pc' # "finish"
  PROVE  AnswerInv'
BY DEF AnswerInv, AtWork, UnknownHasReason

LEMMA AcceptAnswer ==
  ASSUME AnswerInv, AtWork, pc # "finish", NEW cs \in Charsets \ {"unknown"},
         NEW s \in SUBSET Surfaces, Accept(cs, s)
  PROVE  AnswerInv'
BY DEF AnswerInv, AtWork, UnknownHasReason, Accept, Goto

LEMMA StepAnswer == AnswerInv /\ [Next]_vars => AnswerInv'
<1> SUFFICES ASSUME AnswerInv, [Next]_vars PROVE AnswerInv'
  OBVIOUS
<1> DEFINE Working == AtWork /\ pc # "finish"
           Answer == \E cs \in Charsets \ {"unknown"}, s \in SUBSET Surfaces :
                       Accept(cs, s)
           Add == \E s \in SUBSET Surfaces :
                    /\ result' = [result EXCEPT !.surface = @ \cup s]
                    /\ gerrno' = gerrno /\ AtWork' /\ pc' # "finish"
           Same == UNCHANGED <<result, gerrno>> /\ AtWork' /\ pc' # "finish"
           Fail == \E e \in Reasons : GiveUp(e)
<1>1. CASE Working /\ (Answer \/ Add \/ Same \/ Fail)
  <2>1. CASE Answer
    BY <1>1, <2>1, AcceptAnswer
  <2>2. CASE Add
    BY <1>1, <2>2, AddSurface
  <2>3. CASE Same
    BY <1>1, <2>3 DEF AnswerInv, AtWork, UnknownHasReason
  <2>4. CASE Fail
    BY <1>1, <2>4
       DEF AnswerInv, AtWork, UnknownHasReason, GiveUp, Goto, Reasons
  <2> QED BY <1>1, <2>1, <2>2, <2>3, <2>4
<1>2. CASE Interface
  BY <1>2
     DEF Interface, SetOptions, SetRefused, Analyse, Finish, AtRest, Goto,
         AnswerInv, AtWork, UnknownHasReason, Unknown, Charsets
<1> USE DEF AtWork, Goto, Charsets, Surfaces, EolTypes, EolSurfaces, Reasons
<1>3. CASE Tests
  <2>1. Working
    BY <1>3
       DEF Tests, Count, AsciiTests, QuotedPrintable, NotQuotedPrintable,
           PlainAscii, WideTests, Utf8Test, Filter, Surface, TolerantTest,
           PairTest, Rate
  <2>2. CASE Count \/ NotQuotedPrintable
    BY <1>1, <2>1, <2>2 DEF Count, NotQuotedPrintable, Continue
  <2>3. CASE AsciiTests \/ PlainAscii \/ Utf8Test
    BY <1>1, <2>1, <2>3
       DEF AsciiTests, PlainAscii, Utf8Test, AcceptMultibyte, Continue
  <2>4. CASE WideTests
    BY <1>1, <2>1, <2>4 DEF WideTests, ByteOrders, Continue
  <2>5. CASE QuotedPrintable
    <3>1. Add
      BY <2>5 DEF QuotedPrintable
    <3> QED BY <1>1, <2>1, <3>1
  <2>6. CASE Filter
    <3>1. Add \/ Same
      BY <2>6 DEF Filter
    <3> QED BY <1>1, <2>1, <3>1
  <2>7. CASE Surface
    <3>1. Answer \/ Add \/ Fail
      BY <2>7 DEF Surface
    <3> QED BY <1>1, <2>1, <3>1
  <2>8. CASE TolerantTest
    BY <1>1, <2>1, <2>8 DEF TolerantTest, Continue
  <2>9. CASE PairTest \/ Rate
    BY <1>1, <2>1, <2>9 DEF PairTest, Rate, AcceptRegular, Continue
  <2> QED
    BY <1>3, <2>2, <2>3, <2>4, <2>5, <2>6, <2>7, <2>8, <2>9 DEF Tests
<1>4. CASE UNCHANGED vars
  BY <1>4 DEF vars, AnswerInv, UnknownHasReason
<1> QED BY <1>2, <1>3, <1>4 DEF Next
-----------------------------------------------------------------------------
(***************************************************************************)
(* What the counts, the buffer and the answer say of one another.  Before  *)
(* the filter nothing but quoted-printable was rewritten, and only a 7bit  *)
(* sample comes to the 7bit tests; behind it the counts are those of the   *)
(* buffer unless something was filtered and not yet counted, and filtered  *)
(* binary data are in the answer.                                          *)
(***************************************************************************)
Unfiltered == {"count", "ascii", "qp", "plain", "wide", "utf8", "filter"}
SevenBit == given.has \cap (Binary \cup High) = {}

FreshInv ==
  /\ CountsAreFresh
  /\ pc = "count" => Here = given
  /\ pc \in Unfiltered => Here.edits \cap {"bin", "box"} = {}
  /\ pc \in {"ascii", "qp", "plain"} => SevenBit
  /\ pc = "surface" /\ ~noise => counts = Here.has

ToldInv ==
  /\ pc \in {"surface", "tolerant", "regular", "rate"} /\ "bin" \in Here.edits
       => "eol_bin" \in result.surface
  /\ pc = "finish" /\ "eol_bin" \notin result.surface =>
       /\ "bin" \in Here.edits => result.charset = "unknown"
       /\ result.charset = "ascii" => SevenBit
  /\ NoiseIsTold

LEMMA InitFresh == Init => FreshInv /\ ToldInv
BY DEF Init, FreshInv, ToldInv, CountsAreFresh, NoiseIsTold, Here, Raw, Unknown,
       Unfiltered

(* After rewriting, analyser->buffer has what was written. *)
LEMMA RewriteHere ==
  ASSUME StorageInv, NEW b, Rewrite(b)
  PROVE  Here' = b
BY DEF StorageInv, Rewrite, Here

(* A step that leaves buffer, counts and sample alone keeps what they say,  *)
(* if it goes from a test to a later one.                                   *)
LEMMA SameFresh ==
  ASSUME FreshInv, UNCHANGED <<storage, counts, given, noise>>,
         \/ pc' \in {"finish", "returned", "idle"}
         \/ pc \in {"ascii", "qp"} /\ pc' \in {"qp", "plain"}
         \/ pc \in {"plain", "wide", "utf8"} /\ pc' \in {"wide", "utf8", "filter"}
         \/ pc \in {"tolerant", "regular"} /\ pc' \in {"regular", "rate"}
  PROVE  FreshInv'
BY DEF FreshInv, CountsAreFresh, SevenBit, Unfiltered, Here, storage

(* What the filters leave alone has no new edit. *)
LEMMA FilteredEdits ==
  ASSUME NEW b, b.edits \cap {"bin", "box"} = {}, NEW f \in Filtered(b)
  PROVE  /\ f.edits = b.edits => f = b
         /\ "bin" \in f.edits => counts \cap Binary # {}
<1>1. PICK g \in IF counts \cap Binary = {} THEN {b} ELSE BinaryFiltered(b) :
        f \in BoxFiltered(g)
  BY DEF Filtered
<1>2. f = g \/ ("box" \in f.edits /\ f.edits = g.edits \cup {"box"})
  BY <1>1 DEF BoxFiltered
<1>3. g = b \/ (counts \cap Binary # {} /\ "bin" \in g.edits)
  BY <1>1 DEF BinaryFiltered
<1> QED BY <1>2, <1>3

LEMMA StepFresh == StorageInv /\ FreshInv /\ [Next]_vars => FreshInv'
<1> SUFFICES ASSUME StorageInv, FreshInv, [Next]_vars PROVE FreshInv'
  OBVIOUS
<1>1. CASE SetOptions \/ SetRefused \/ Finish
  BY <1>1 DEF SetOptions, SetRefused, Finish, AtRest, Goto, setup, storage,
              FreshInv, CountsAreFresh, Unfiltered, SevenBit
<1>2. CASE Analyse
  BY <1>2 DEF Analyse, Goto, Raw, FreshInv, CountsAreFresh, Unfiltered, Here
<1>3. CASE Count
  <2>1. Here' = Here /\ Here = given /\ given' = given /\ counts' = Here.has
    BY <1>3 DEF Count, FreshInv, Here, setup, storage
  <2>2. Here.edits \cap {"bin", "box"} = {}
    BY <1>3 DEF Count, FreshInv, Unfiltered
  <2>3. \/ pc' = "wide"
        \/ pc' = "ascii" /\ counts' \cap (Binary \cup High) = {}
    BY <1>3 DEF Count, Goto
  <2> QED BY <2>1, <2>2, <2>3 DEF FreshInv, CountsAreFresh, SevenBit, Unfiltered
<1>4. CASE QuotedPrintable
  <2>1. PICK d \in Decoded(Here) : Rewrite(d) /\ counts' = d.has
    BY <1>4 DEF QuotedPrintable
  <2>2. Here' = d
    BY <2>1, RewriteHere
  <2>3. d.edits = Here.edits \cup {"qp"}
    BY <2>1 DEF Decoded
  <2>4. pc = "qp" /\ pc' = "plain" /\ given' = given
    BY <1>4 DEF QuotedPrintable, Goto, setup
  <2> QED
    BY <2>1, <2>2, <2>3, <2>4 DEF FreshInv, CountsAreFresh, SevenBit, Unfiltered
<1>5. CASE Filter
  <2>1. pc = "filter" /\ pc' = "surface" /\ counts' = counts
    BY <1>5 DEF Filter, Goto
  <2>2. ~noise' => Here' = Here
    <3>1. CASE UNCHANGED storage
      BY <3>1 DEF storage, Here
    <3>2. ASSUME NEW f \in Filtered(Here), Rewrite(f),
                 noise' = (f.edits # Here.edits)
          PROVE  ~noise' => Here' = Here
      BY <2>1, <3>2, RewriteHere, FilteredEdits DEF FreshInv, Unfiltered
    <3> QED BY <1>5, <3>1, <3>2 DEF Filter
  <2> QED BY <2>1, <2>2 DEF FreshInv, CountsAreFresh, Unfiltered
<1>6. CASE Surface
  <2>1. /\ pc = "surface" /\ pc' \in {"finish", "tolerant"}
        /\ pc' = "tolerant" => counts' = IF noise THEN Here.has ELSE counts
        /\ UNCHANGED storage
    BY <1>6 DEF Surface, GiveUp, Accept, Goto
  <2>2. Here' = Here
    BY <2>1 DEF storage, Here
  <2> QED BY <2>1, <2>2 DEF FreshInv, CountsAreFresh, Unfiltered
<1>7. CASE AsciiTests \/ NotQuotedPrintable \/ PlainAscii \/ WideTests \/ Utf8Test
  <2>1. /\ UNCHANGED <<storage, counts, given, noise>>
        /\ \/ pc' = "finish"
           \/ pc \in {"ascii", "qp"} /\ pc' \in {"qp", "plain"}
           \/ pc \in {"plain", "wide", "utf8"} /\ pc' \in {"wide", "utf8", "filter"}
    BY <1>7 DEF AsciiTests, NotQuotedPrintable, PlainAscii, WideTests, Utf8Test,
                AcceptMultibyte, Accept, GiveUp, Continue, Goto, setup
  <2> QED BY <2>1, SameFresh
<1>8. CASE TolerantTest \/ PairTest \/ Rate
  <2>1. /\ UNCHANGED <<storage, counts, given, noise>>
        /\ \/ pc' = "finish"
           \/ pc \in {"tolerant", "regular"} /\ pc' \in {"regular", "rate"}
    BY <1>8 DEF TolerantTest, PairTest, Rate, AcceptRegular, Accept, GiveUp,
                Continue, Goto, setup
  <2> QED BY <2>1, SameFresh
<1>9. CASE UNCHANGED vars
  BY <1>9 DEF vars, setup, storage, FreshInv, CountsAreFresh, SevenBit,
              Unfiltered, Here
<1> QED
  BY <1>1, <1>2, <1>3, <1>4, <1>5, <1>6, <1>7, <1>8, <1>9
     DEF Next, Interface, Tests

(* A test before the filter, or one behind it, that ends or goes on.       *)
LEMMA BeforeFilter ==
  ASSUME FreshInv, pc \in Unfiltered, UNCHANGED <<storage, given>>,
         \/ pc' \in Unfiltered
         \/ pc' = "finish" /\ result'.charset # "ascii"
         \/ pc' = "finish" /\ pc = "plain"
  PROVE  ToldInv'
BY DEF FreshInv, ToldInv, NoiseIsTold, SevenBit, Unfiltered, Here, storage

LEMMA BehindFilter ==
  ASSUME AnswerInv, ToldInv, UNCHANGED <<storage, given>>,
         pc \in {"surface", "tolerant", "regular", "rate"},
         \/ /\ pc' \in {"tolerant", "regular", "rate", "finish"}
            /\ result.surface \subseteq result'.surface
            /\ result'.charset # "ascii"
         \/ pc' = "finish" /\ "eol_bin" \in result'.surface
         \/ pc' = "finish" /\ result'.charset = "unknown"
  PROVE  ToldInv'
BY DEF ToldInv, NoiseIsTold, SevenBit, Here, storage

LEMMA StepTold ==
  StorageInv /\ AnswerInv /\ FreshInv /\ ToldInv /\ [Next]_vars => ToldInv'
<1> SUFFICES ASSUME StorageInv, AnswerInv, FreshInv, ToldInv, [Next]_vars
             PROVE  ToldInv'
  OBVIOUS
<1>1. CASE SetOptions \/ SetRefused
  BY <1>1 DEF SetOptions, SetRefused, AtRest, Goto, setup, storage, ToldInv,
              NoiseIsTold, SevenBit, Here
<1>2. CASE Analyse
  BY <1>2 DEF Analyse, Goto, Unknown, ToldInv, NoiseIsTold
<1>3. CASE Finish
  BY <1>3 DEF Finish, Goto, setup, Unknown, ToldInv, NoiseIsTold, SevenBit, Here
<1>4. CASE QuotedPrintable
  BY <1>4 DEF QuotedPrintable, Goto, ToldInv, NoiseIsTold
<1>5. CASE \/ Count \/ AsciiTests \/ NotQuotedPrintable \/ PlainAscii
           \/ WideTests \/ Utf8Test
  <2>1. pc \in Unfiltered /\ UNCHANGED <<storage, given>>
    BY <1>5 DEF Count, AsciiTests, NotQuotedPrintable, PlainAscii, WideTests,
                Utf8Test, AcceptMultibyte, Accept, GiveUp, Continue, setup,
                Unfiltered
  <2>2. \/ pc' \in Unfiltered
        \/ pc' = "finish" /\ (pc = "plain" \/ result'.charset # "ascii")
    BY <1>5, <2>1
       DEF Count, AsciiTests, NotQuotedPrintable, PlainAscii, WideTests,
           Utf8Test, AcceptMultibyte, Accept, GiveUp, Continue, Goto,
           Unfiltered, AnswerInv, AtWork
  <2> QED BY <2>1, <2>2, BeforeFilter
<1>6. CASE Filter
  <2>1. pc = "filter" /\ pc' = "surface"
    BY <1>6 DEF Filter, Goto
  <2>2. Here.edits \cap {"bin", "box"} = {}
    BY <2>1 DEF FreshInv, Unfiltered
  <2>3. CASE UNCHANGED storage
    BY <2>1, <2>2, <2>3 DEF ToldInv, NoiseIsTold, Here, storage
  <2>4. CASE opts.filtering /\ \E f \in Filtered(Here) : Rewrite(f)
    <3>1. PICK f \in Filtered(Here) : Rewrite(f)
      BY <2>4
    <3>2. Here' = f
      BY <3>1, RewriteHere
    <3>3. "bin" \in f.edits => counts \cap Binary # {}
      BY <2>2, <3>1, FilteredEdits
    <3>4. counts \cap Binary # {} => "eol_bin" \in result'.surface
      BY <1>6, <2>4 DEF Filter, AnswerInv
    <3> QED BY <2>1, <3>2, <3>3, <3>4 DEF ToldInv, NoiseIsTold
  <2> QED BY <1>6, <2>3, <2>4 DEF Filter
<1>7. CASE Surface \/ TolerantTest \/ PairTest \/ Rate
  <2>1. /\ pc \in {"surface", "tolerant", "regular", "rate"}
        /\ UNCHANGED <<storage, given>>
    BY <1>7 DEF Surface, TolerantTest, PairTest, Rate, AcceptRegular, Accept,
                GiveUp, Continue, setup
  <2>2. result.charset = "unknown"
    BY <2>1 DEF AnswerInv, AtWork
  <2>3. \/ /\ pc' \in {"tolerant", "regular", "rate", "finish"}
           /\ result.surface \subseteq result'.surface
           /\ result'.charset # "ascii"
        \/ pc' = "finish" /\ "eol_bin" \in result'.surface
        \/ pc' = "finish" /\ result'.charset = "unknown"
    <3>1. CASE Surface
      BY <3>1, <2>2 DEF Surface, Accept, GiveUp, Goto, AnswerInv
    <3>2. CASE TolerantTest \/ PairTest \/ Rate
      BY <3>2, <2>2 DEF TolerantTest, PairTest, Rate, AcceptRegular, Accept,
                        GiveUp, Continue, Goto, AnswerInv
    <3> QED BY <1>7, <3>1, <3>2
  <2> QED BY <2>1, <2>3, BehindFilter
<1>8. CASE UNCHANGED vars
  BY <1>8 DEF vars, setup, storage, ToldInv, NoiseIsTold, SevenBit, Here
<1> QED
  BY <1>1, <1>2, <1>3, <1>4, <1>5, <1>6, <1>7, <1>8 DEF Next, Interface, Tests

-----------------------------------------------------------------------------
(* Types of what the two invariants above do not speak of.                 *)
DataInv ==
  /\ lang \in Languages /\ opts \in Options /\ const \in BOOLEAN
  /\ given \in Content /\ caller \in Content /\ copy \in Content
  /\ counts \in SUBSET Classes /\ noise \in BOOLEAN
  /\ gerrno \in Reasons \cup {"OK"} /\ calls \in 0 .. MaxCalls

LEMMA InitData == Init => DataInv
<1> SUFFICES ASSUME Init PROVE DataInv
  OBVIOUS
<1>1. Raw({}) \in Content
  BY DEF Raw, Content
<1>2. 0 \in 0 .. MaxCalls
  BY AnalyserAssumption
<1>3. FALSE \in BOOLEAN /\ {} \in SUBSET Classes
  OBVIOUS
<1> QED BY <1>1, <1>2, <1>3 DEF Init, DataInv

LEMMA HereIsContent == ASSUME DataInv PROVE Here \in Content
BY DEF DataInv, Here

LEMMA RewriteContent ==
  ASSUME DataInv, NEW b \in Content, Rewrite(b)
  PROVE  caller' \in Content /\ copy' \in Content
BY DEF DataInv, Rewrite

LEMMA DecodedIsContent ==
  ASSUME NEW b \in Content, NEW d \in Decoded(b)
  PROVE  d \in Content
<1>1. PICK c \in SUBSET (Classes \ {"qp"}) :
        d = [has |-> (b.has \ {"qp"}) \cup c, edits |-> b.edits \cup {"qp"}]
  BY DEF Decoded
<1>2. b.has \subseteq Classes /\ b.edits \subseteq {"qp", "bin", "box"}
  BY DEF Content
<1>3. /\ (b.has \ {"qp"}) \cup c \subseteq Classes
      /\ b.edits \cup {"qp"} \subseteq {"qp", "bin", "box"}
  BY <1>2
<1> QED BY <1>1, <1>3 DEF Content

LEMMA FilteredIsContent ==
  ASSUME NEW b \in Content, NEW f \in Filtered(b)
  PROVE  f \in Content
<1>1. PICK g \in IF counts \cap Binary = {} THEN {b} ELSE BinaryFiltered(b) :
        f \in BoxFiltered(g)
  BY DEF Filtered
<1>2. g \in Content
  BY <1>1 DEF BinaryFiltered, Content, Classes
<1> QED BY <1>1, <1>2 DEF BoxFiltered, Content, Classes

LEMMA StepData == DataInv /\ [Next]_vars => DataInv'
<1> SUFFICES ASSUME DataInv, [Next]_vars PROVE DataInv'
  OBVIOUS
<1>1. CASE SetOptions \/ SetRefused \/ Finish
  BY <1>1 DEF SetOptions, SetRefused, Finish, setup, storage, DataInv, Reasons
<1>2. CASE Analyse
  <2>1. PICK s \in Samples : given' = Raw(s) /\ caller' = Raw(s)
    BY <1>2 DEF Analyse
  <2>2. Raw(s) \in Content
    BY <2>1, AnalyserAssumption DEF Raw, Content
  <2>3. calls' \in 0 .. MaxCalls
    BY <1>2, AnalyserAssumption DEF Analyse, DataInv
  <2>4. gerrno' \in Reasons \cup {"OK"} /\ const' \in BOOLEAN
        /\ UNCHANGED <<lang, opts, copy, counts, noise>>
    BY <1>2 DEF Analyse, Reasons
  <2> QED BY <2>1, <2>2, <2>3, <2>4 DEF DataInv
<1>3. CASE QuotedPrintable
  <2>1. PICK d \in Decoded(Here) : Rewrite(d) /\ counts' = d.has
    BY <1>3 DEF QuotedPrintable
  <2>2. d \in Content
    BY <2>1, HereIsContent, DecodedIsContent
  <2>3. caller' \in Content /\ copy' \in Content
    BY <2>1, <2>2, RewriteContent
  <2>4. counts' \in SUBSET Classes
    BY <2>1, <2>2 DEF Content
  <2>5. UNCHANGED <<setup, noise, gerrno>>
    BY <1>3 DEF QuotedPrintable
  <2> QED BY <2>3, <2>4, <2>5 DEF DataInv, setup
<1>4. CASE Filter
  <2>1. caller' \in Content /\ copy' \in Content
    <3>1. CASE UNCHANGED storage
      BY <3>1 DEF storage, DataInv
    <3>2. ASSUME NEW f \in Filtered(Here), Rewrite(f)
          PROVE  caller' \in Content /\ copy' \in Content
      BY <3>2, HereIsContent, FilteredIsContent, RewriteContent
    <3> QED BY <1>4, <3>1, <3>2 DEF Filter
  <2>2. noise' \in BOOLEAN
    BY <1>4 DEF Filter
  <2>3. UNCHANGED <<setup, counts, gerrno>>
    BY <1>4 DEF Filter
  <2> QED BY <2>1, <2>2, <2>3 DEF DataInv, setup
<1>5. CASE Count
  <2>1. counts' \in SUBSET Classes
    BY <1>5, HereIsContent DEF Count, Content
  <2> QED BY <1>5, <2>1 DEF Count, DataInv, setup, storage
<1>6. CASE Surface
  <2>1. counts' \in SUBSET Classes
    BY <1>6, HereIsContent DEF Surface, GiveUp, Content, DataInv
  <2>2. gerrno' \in Reasons \cup {"OK"} /\ UNCHANGED <<setup, storage, noise>>
    BY <1>6 DEF Surface, GiveUp, Accept, DataInv, Reasons
  <2> QED BY <2>1, <2>2 DEF DataInv, setup, storage
<1>7. CASE \/ AsciiTests \/ NotQuotedPrintable \/ PlainAscii \/ WideTests
           \/ Utf8Test \/ TolerantTest \/ PairTest \/ Rate
  <2>1. /\ UNCHANGED <<setup, storage, counts, noise>>
        /\ gerrno' \in Reasons \cup {gerrno}
    BY <1>7 DEF AsciiTests, NotQuotedPrintable, PlainAscii, WideTests, Utf8Test,
                TolerantTest, PairTest, Rate, AcceptMultibyte, AcceptRegular,
                Accept, GiveUp, Continue, Reasons
  <2> QED BY <2>1 DEF DataInv, setup, storage
<1>8. CASE UNCHANGED vars
  BY <1>8 DEF vars, setup, storage, DataInv
<1> QED
  BY <1>1, <1>2, <1>3, <1>4, <1>5, <1>6, <1>7, <1>8 DEF Next, Interface, Tests

-----------------------------------------------------------------------------
(* enca_analyse_const() never modifies its buffer (lib/guess.c:152).       *)
THEOREM ConstIsConst == Spec => []CallerUntouched
<1>1. StorageInv => CallerUntouched
  BY DEF StorageInv
<1> QED BY <1>1, InitInv, StepStorage, PTL DEF Spec

(* Every copy is owned by analyser->buffer and freed at the end of the     *)
(* analysis that made it, on success and on failure (lib/guess.c:206).     *)
THEOREM CopiesAreFreed == Spec => []CopyOwned
<1>1. StorageInv => CopyOwned
  BY DEF StorageInv, CopyOwned, AtWork
<1> QED BY <1>1, InitInv, StepStorage, PTL DEF Spec

(* The charset is unknown exactly when enca_errno() gives a reason, and    *)
(* then there is no surface either (lib/guess.c:126).                      *)
THEOREM ReasonGiven == Spec => []UnknownHasReason
<1>1. AnswerInv => UnknownHasReason
  BY DEF AnswerInv
<1> QED BY <1>1, InitInv, StepAnswer, PTL DEF Spec

(* What the tests go by is what is in the buffer, whatever was decoded and *)
(* filtered (lib/guess.c:321).                                             *)
THEOREM CountsStayFresh == Spec => []CountsAreFresh
<1>1. FreshInv => CountsAreFresh
  BY DEF FreshInv
<1> QED BY <1>1, InitInv, InitFresh, StepStorage, StepFresh, PTL DEF Spec

(* An answer that does not say so is not about a sample from which binary  *)
(* characters were filtered, nor ASCII for one that was not (lib/guess.c:330). *)
THEOREM NoiseStaysTold == Spec => []NoiseIsTold
<1>1. ToldInv => NoiseIsTold
  BY DEF ToldInv
<1> QED
  BY <1>1, InitInv, InitFresh, StepStorage, StepAnswer, StepFresh, StepTold, PTL
     DEF Spec

(* Types: at most one copy is live, and no more is counted than there are   *)
(* classes.                                                                *)
THEOREM AnalyserTypes == Spec => []TypeOK
<1>1. StorageInv /\ AnswerInv /\ DataInv => TypeOK
  BY DEF StorageInv, AnswerInv, DataInv, TypeOK
<1> QED
  BY <1>1, InitInv, InitData, StepStorage, StepAnswer, StepData, PTL DEF Spec
=============================================================================
