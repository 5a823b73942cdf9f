---------------------------- MODULE CommandLine ----------------------------
(***************************************************************************)
(* From the arguments and the environment to the settings of a run:        *)
(* process_opt() and what it calls (src/options.c), the converter list     *)
(* (src/convert.c), the name of the external converter                     *)
(* (src/convert_extern.c), and the start of main() (src/enca.c).           *)
(*                                                                         *)
(* One step is one option, or one of the stages behind the last option.    *)
(* Verbosity and the texts of messages are left out.                       *)
(***************************************************************************)
EXTENDS Locale, LanguageTable

CONSTANTS
  CommandLines,   \* what the program may be started with: a set of records
  ConverterNames, \* the names of the converters, in the order of CONVERTERS
  DefaultConverterList, DefaultExternalConverter, ExtconvDir,
  Word            \* the words these may hold, with all parts of words

Parts(w) == {SubSeq(w, i, j) : i \in 1 .. Len(w) + 2, j \in 0 .. Len(w)}

\* A word is a sequence of characters, and never NULL.
ASSUME WordsAssumption ==
  /\ {"", DefaultConverterList} \subseteq Word /\ Null \notin Word
  /\ \A w \in Word : Len(w) \in Nat /\ Parts(w) \subseteq Word
  /\ {s.words : s \in CommandLines} \subseteq Seq(Word)
  /\ {s.encaopt : s \in CommandLines} \subseteq Word

\* "none" is what forgets the converters named before, and no converter.
ASSUME ConvertersAssumption == "none" \notin ToSet(ConverterNames)

\* What locale.alias says for a name is not itself an alias.
ASSUME AliasesAssumption ==
  \A sys \in {s.sys : s \in CommandLines}, l \in Word :
    LET named == LocaleAliasConvert(sys, l)
    IN named \in DOMAIN sys.codesets => LocaleAliasConvert(sys, named) = named

VARIABLES
  setup,    \* [program, words, encaopt, expands, posix, sys, charset, exec,
            \* tty]: the name called by, the arguments, ENCAOPT and whether it
            \* can be expanded, POSIXLY_CORRECT, locales, DEFAULT_CHARSET, the
            \* programs that can be run, whether stdin is a terminal; fixed
  pc, g,    \* where the program is; the state of getopt_long()
  options,  \* [language, output_type, target_enc, target_enc_str,
            \* prefix_filename]
  behaviour, otype_set, codeset,
  converters, nc, extern_converter,
  flist,    \* names of files; <<>> is standard input
  outcome,  \* "running", "ready" to read files, or why the program ended: the
            \* list that was printed, "text" for another, what was wrong
  seen      \* the options returned so far, with their arguments

vars == <<setup, pc, g, options, behaviour, otype_set, codeset, converters,
          nc, extern_converter, flist, outcome, seen>>

Letters == {"c", "C", "d", "e", "E", "f", "g", "G", "h", "i", "l", "L", "m",
            "n", "p", "P", "r", "s", "v", "V", "x"}
WithArgument == {"C", "E", "l", "L", "n", "x"}

LongName ==
  [c |-> "auto-convert", x |-> "convert-to", s |-> "cstocs-name",
   d |-> "details", e |-> "enca-name", E |-> "external-converter-program",
   g |-> "guess", h |-> "help", f |-> "human-readable", i |-> "iconv-name",
   L |-> "language", G |-> "license", l |-> "list", m |-> "mime-name",
   n |-> "name", P |-> "no-filename", r |-> "rfc1345-name",
   C |-> "try-converters", V |-> "verbose", v |-> "version",
   p |-> "with-filename"]

LongOptions == {[name |-> LongName[c], has_arg |-> c \in WithArgument, val |-> c] :
                  c \in DOMAIN LongName}

INSTANCE Getopt
Encnames == INSTANCE Names
-----------------------------------------------------------------------------
(* Tables and helpers. *)

\* optchar_to_otype()
OptcharToOtype ==
  [d |-> "DETAILS", e |-> "CANON", f |-> "HUMAN", i |-> "ICONV",
   r |-> "RFC1345", s |-> "CS2CS", m |-> "MIME"]

OTNAMES == <<"aliases", "cstocs", "details", "enca", "human-readable",
             "iconv", "mime", "rfc1345">>
OTS == <<"ALIASES", "ICONV", "DETAILS", "CANON", "HUMAN", "CS2CS", "MIME",
         "RFC1345">>

\* Deviation: a name nobody knows leaves no type.
OtypeFromNameNone(name, otype) ==
  LET n == ExpandAbbreviation(name, OTNAMES)
  IN IF n = Null THEN Null ELSE OTS[SelectInSeq(OTNAMES, LAMBDA m : m = n)]

\* Deviation: a name nobody knows means the default.
OtypeFromNameDefault(name, otype) ==
  LET n == ExpandAbbreviation(name, OTNAMES)
  IN IF n = Null THEN "HUMAN" ELSE OTS[SelectInSeq(OTNAMES, LAMBDA m : m = n)]

\* set_otype_from_name(): the type stays when the name is not known.
OtypeFromName(name, otype) ==
  LET n == ExpandAbbreviation(name, OTNAMES)
  IN IF n = Null THEN otype ELSE OTS[SelectInSeq(OTNAMES, LAMBDA m : m = n)]

LISTS == <<"built-in-charsets", "converters", "charsets", "languages",
           "lists", "names", "surfaces">>

\* print_some_list(): nothing for a list nobody knows.
PrintSomeList(listname) == ExpandAbbreviation(listname, LISTS)

\* set_program_behaviour()
CalledAs(program, name) ==
  StartsWith(program, name) /\ ~IsAlpha(At(program, Len(name) + 1))
Behaviour(program) == IF CalledAs(program, "enconv") THEN "ENCONV" ELSE "ENCA"

\* parse_arg_x(): the length of the separator counts its terminator, so the
\* separator is stripped only of a word that is nothing else, and with it the
\* end of the string; what is read then may be anything.
BehindTheEnd == {"", "?"}
TargetStrings(s) == IF s = ".." THEN BehindTheEnd ELSE {s}

\* The encoding a string names, which Names parses; none if the string tells
\* what to convert from, too.
TargetEnc(s) == IF HasPart(s, "..") THEN Null ELSE s

WithTarget(opts, s) ==
  [opts EXCEPT !.target_enc_str = s, !.target_enc = TargetEnc(s)]

\* Deviation: `none' is counted but removes nothing.
AddConverterKept(convs, name) ==
  LET cname == ExpandAbbreviation(name, ConverterNames)
  IN IF name = "none" THEN [convs |-> convs, added |-> 1]
     ELSE IF cname = Null THEN [convs |-> convs, added |-> 0]
     ELSE [convs |-> Append(convs, cname), added |-> 1]

\* add_converter().  A converter that is there already is added once more:
\* what is compared are pointers to two different tables.
AddConverter(convs, name) ==
  LET cname == ExpandAbbreviation(name, ConverterNames)
  IN IF name = "none" THEN [convs |-> <<>>, added |-> 1]
     ELSE IF cname = Null THEN [convs |-> convs, added |-> 0]
     ELSE [convs |-> Append(convs, cname), added |-> 1]

\* add_parsed_converters()
AddParsedConverters(convs, n, list) ==
  FoldLeft(LAMBDA acc, name :
             LET one == AddConverter(acc.convs, name)
             IN [convs |-> one.convs, nc |-> acc.nc + one.added],
           [convs |-> convs, nc |-> n], Split(list, ","))

ExternalConverterListed(convs) == "extern" \in ToSet(convs)

\* set_external_converter()
ExternalConverter(extc) ==
  IF HasPart(extc, "/") THEN extc
  ELSE ExtconvDir \o "/" \o (IF StartsWith(extc, "b-") THEN From(extc, 3) ELSE extc)

\* Deviation: any name will do.
CheckExternalConverterNamed == extern_converter # ""

\* check_external_converter()
CheckExternalConverter == extern_converter # "" /\ extern_converter \in setup.exec

\* The words of ENCAOPT.
Tokens(value) ==
  LET words == Split(value, " ") IN Kept(words, ToSet(words) \ {""})
-----------------------------------------------------------------------------
Init ==
  /\ setup \in CommandLines
  /\ pc = "start" /\ g = Initialized(<<>>)
  /\ options = [language |-> Null, output_type |-> "HUMAN",
                target_enc |-> Null, target_enc_str |-> Null,
                prefix_filename |-> -1]
  /\ behaviour = "ENCA" /\ otype_set = FALSE /\ codeset = Null
  /\ converters = <<>> /\ nc = 0 /\ extern_converter = Null
  /\ flist = <<>> /\ outcome = "running" /\ seen = <<>>

Exit(why) == outcome' = why /\ pc' = "ended"

\* process_opt() up to the options, with prepend_env().
Start ==
  /\ pc = "start"
  /\ behaviour' = Behaviour(setup.program)
  /\ extern_converter' = ExternalConverter(DefaultExternalConverter)
  /\ g' = Initialized((IF setup.expands THEN Tokens(setup.encaopt) ELSE <<>>)
                      \o setup.words)
  /\ pc' = "getopt"
  /\ UNCHANGED <<setup, options, otype_set, codeset, converters, nc, flist,
                 outcome, seen>>

\* The head of the loop in interpret_opt().
NextOption ==
  /\ pc = "getopt"
  /\ g' = GetoptLong(g, setup.posix)
  /\ pc' = IF g'.c = "end" THEN "language" ELSE "option"
  /\ seen' = IF g'.c = "end" THEN seen ELSE Append(seen, <<g'.c, g'.optarg>>)
  /\ UNCHANGED <<setup, options, behaviour, otype_set, codeset, converters, nc,
                 extern_converter, flist, outcome>>

\* The cases of the switch: at option c, back to the head.
Option(cs) == pc = "option" /\ g.c \in cs /\ pc' = "getopt"
rest == <<setup, g, codeset, flist, outcome, seen>>

UnknownOption ==
  /\ pc = "option" /\ g.c = "?"
  /\ Exit("usage")
  /\ UNCHANGED <<setup, g, options, behaviour, otype_set, codeset, converters,
                 nc, extern_converter, flist, seen>>

\* -h, -v, -G and -l print and exit, whatever follows; a list nobody knows is
\* no trouble either.
Inform ==
  /\ pc = "option" /\ g.c \in {"h", "v", "G", "l"}
  /\ Exit(IF g.c = "l" THEN PrintSomeList(g.optarg) ELSE "text")
  /\ UNCHANGED <<setup, g, options, behaviour, otype_set, codeset, converters,
                 nc, extern_converter, flist, seen>>

SetOutputType ==
  /\ Option(DOMAIN OptcharToOtype \cup {"n"})
  /\ options' = [options EXCEPT !.output_type =
       IF g.c = "n" THEN OtypeFromName(g.optarg, @) ELSE OptcharToOtype[g.c]]
  /\ otype_set' = TRUE
  /\ UNCHANGED <<rest, behaviour, converters, nc, extern_converter>>

ConvertTo ==
  /\ Option({"x"})
  /\ \E s \in TargetStrings(g.optarg) :
       options' = [WithTarget(options, s) EXCEPT !.output_type = "CONVERT"]
  /\ otype_set' = TRUE
  /\ UNCHANGED <<rest, behaviour, converters, nc, extern_converter>>

SetPrefix ==
  /\ Option({"p", "P"})
  /\ options' = [options EXCEPT !.prefix_filename = IF g.c = "p" THEN 1 ELSE 0]
  /\ UNCHANGED <<rest, behaviour, otype_set, converters, nc, extern_converter>>

SetLanguage ==
  /\ Option({"L"})
  /\ options' = [options EXCEPT !.language = g.optarg]
  /\ UNCHANGED <<rest, behaviour, otype_set, converters, nc, extern_converter>>

Behave ==
  /\ Option({"g", "c"})
  /\ behaviour' = IF g.c = "g" THEN "ENCA" ELSE "ENCONV"
  /\ UNCHANGED <<rest, options, otype_set, converters, nc, extern_converter>>

AddConverters ==
  /\ Option({"C"})
  /\ LET added == AddParsedConverters(converters, nc, g.optarg)
     IN converters' = added.convs /\ nc' = added.nc
  /\ UNCHANGED <<rest, options, behaviour, otype_set, extern_converter>>

SetExternal ==
  /\ Option({"E"})
  /\ extern_converter' = ExternalConverter(g.optarg)
  /\ UNCHANGED <<rest, options, behaviour, otype_set, converters, nc>>

Verbose ==
  /\ Option({"V"})
  /\ UNCHANGED <<rest, options, behaviour, otype_set, converters, nc,
                 extern_converter>>
-----------------------------------------------------------------------------
(* Behind the options. *)

DetectLanguage ==
  /\ pc = "language"
  /\ LET found == DetectLang(setup.sys, options.language)
     IN /\ options' = [options EXCEPT !.language = found.language]
        /\ codeset' = found.codeset
        /\ IF found.language = Null THEN Exit("no language")
           ELSE pc' = "behaviour" /\ UNCHANGED outcome
  /\ UNCHANGED <<setup, g, behaviour, otype_set, converters, nc,
                 extern_converter, flist, seen>>

\* An explicit type is what counts; else enconv converts to the charset of
\* DEFAULT_CHARSET or of the locale.
DecideBehaviour ==
  /\ pc = "behaviour"
  /\ behaviour' = IF otype_set THEN "ENCA" ELSE behaviour
  /\ IF behaviour' = "ENCA" THEN pc' = "files" /\ UNCHANGED <<options, outcome>>
     ELSE \E target \in TargetStrings(
              IF setup.charset # Null THEN setup.charset
              ELSE LangCodeset([codeset |-> codeset])) :
            IF target = ""
            THEN /\ options' = WithTarget(options, target)
                 /\ Exit("no charset")
            ELSE /\ options' = [WithTarget(options, target) EXCEPT
                                  !.output_type = "CONVERT"]
                 /\ pc' = "files" /\ UNCHANGED outcome
  /\ UNCHANGED <<setup, g, otype_set, codeset, converters, nc,
                 extern_converter, flist, seen>>

\* make_filelist(): a lone "-" is standard input.
Filelist(words) == IF words = <<"-">> THEN <<>> ELSE words

\* The rest of interpret_opt(): the default converters, the files, help when
\* there is nothing to do, the check of the external converter.
TakeFiles ==
  /\ pc = "files"
  /\ LET default == AddParsedConverters(<<>>, 0, DefaultConverterList)
     IN /\ converters' = IF nc = 0 THEN default.convs ELSE converters
        /\ nc' = IF nc = 0 THEN default.nc ELSE nc
  /\ flist' = Filelist(From(g.argv, g.optind))
  /\ IF flist' = <<>> /\ setup.tty /\ setup.words = <<>> THEN Exit("text")
     ELSE IF /\ options.output_type = "CONVERT"
             /\ ExternalConverterListed(converters') /\ ~CheckExternalConverter
     THEN Exit("no converter")
     ELSE pc' = "prefix" /\ UNCHANGED outcome
  /\ UNCHANGED <<setup, g, options, behaviour, otype_set, codeset,
                 extern_converter, seen>>

\* The end of process_opt(): names are printed for more than one file.
DecidePrefix ==
  /\ pc = "prefix"
  /\ options' = [options EXCEPT !.prefix_filename =
       IF @ # -1 THEN @
       ELSE IF Len(flist) <= 1 /\ options.output_type # "DETAILS" THEN 0 ELSE 1]
  /\ pc' = "analyser"
  /\ UNCHANGED <<setup, g, behaviour, otype_set, codeset, converters, nc,
                 extern_converter, flist, outcome, seen>>

\* main(): enca_analyser_alloc() fails for a language that is not in the list.
AllocAnalyser ==
  /\ pc = "analyser"
  /\ Exit(IF options.language \in GetLanguages THEN "ready"
          ELSE "unknown language")
  /\ UNCHANGED <<setup, g, options, behaviour, otype_set, codeset, converters,
                 nc, extern_converter, flist, seen>>

Next ==
  \/ Start \/ NextOption \/ UnknownOption \/ Inform \/ SetOutputType \/ ConvertTo
  \/ SetPrefix \/ SetLanguage \/ Behave \/ AddConverters \/ SetExternal
  \/ Verbose \/ DetectLanguage \/ DecideBehaviour \/ TakeFiles \/ DecidePrefix
  \/ AllocAnalyser

Spec == Init /\ [][Next]_vars
-----------------------------------------------------------------------------
(* Properties. *)

Troubles == {"usage", "no language", "no charset", "no converter",
             "unknown language"}

\* The state is of the declared shape throughout (src/options.c:57-64).
TypeOK ==
  /\ pc \in {"start", "getopt", "option", "language", "behaviour", "files",
             "prefix", "analyser", "ended"}
  /\ options.output_type \in ToSet(OTS) \cup {"CONVERT"}
  /\ options.prefix_filename \in {-1, 0, 1}
  /\ behaviour \in {"ENCA", "ENCONV"} /\ otype_set \in BOOLEAN
  /\ ToSet(converters) \subseteq ToSet(ConverterNames) /\ nc \in Nat
  /\ outcome \in {"running", "ready", "text", Null} \cup ToSet(LISTS) \cup Troubles
  /\ (outcome = "running") <=> (pc # "ended")

\* What a reader makes of an option word and the words behind it: its options,
\* how many of the words behind belong to it, whether it is wrong.
ShortReading(text, behind) ==
  LET stop == CHOOSE i \in 1 .. Len(text) + 1 :
                /\ At(text, i) \notin Letters \ WithArgument
                /\ \A j \in 1 .. i - 1 : At(text, j) \in Letters \ WithArgument
      c == At(text, stop)
      plain == [j \in 1 .. stop - 1 |-> <<At(text, j), "">>]
  IN [options |-> plain \o CASE c \notin Letters   -> <<>>
                             [] stop < Len(text)   -> <<<<c, From(text, stop + 1)>>>>
                             [] OTHER              -> [i \in 1 .. Min({1, Len(behind)})
                                                         |-> <<c, behind[1]>>],
      taken |-> IF c \in Letters /\ stop = Len(text) /\ behind # <<>> THEN 1 ELSE 0,
      bad |-> stop <= Len(text) /\ (c \notin Letters
                                   \/ (stop = Len(text) /\ behind = <<>>))]

LongReading(text, behind) ==
  LET name == SubSeq(text, 1, Place(text, "=") - 1)
      given == Len(name) < Len(text)
      like == {o \in LongOptions : StartsWith(o.name, name)}
      these == IF \E o \in like : o.name = name THEN {o \in like : o.name = name}
               ELSE like
      o == CHOOSE o \in these : TRUE
      wrong == Cardinality(these) # 1 \/ (given /\ ~o.has_arg)
               \/ (~given /\ o.has_arg /\ behind = <<>>)
  IN [options |-> IF wrong THEN <<>>
                  ELSE <<<<o.val, IF given THEN From(text, Len(name) + 2)
                                  ELSE IF o.has_arg THEN behind[1] ELSE "">>>>,
      taken |-> IF ~wrong /\ o.has_arg /\ ~given THEN 1 ELSE 0,
      bad |-> wrong]

\* The words read from the left, in one go.
Reading(words, posix) ==
  LET n == Len(words)
      done(files) == [options |-> <<>>, files |-> files, bad |-> FALSE]
      from[i \in 1 .. n + 1] ==
        LET w == words[i]
            behind == From(words, i + 1)
            one == IF StartsWith(w, "--") THEN LongReading(From(w, 3), behind)
                   ELSE ShortReading(From(w, 2), behind)
            later == from[i + 1 + one.taken]
        IN IF i > n THEN done(<<>>)
           ELSE IF w = "--" THEN done(behind)
           ELSE IF ~StartsWith(w, "-") \/ w = "-"
                THEN IF posix THEN done(<<w>> \o behind)
                     ELSE [from[i + 1] EXCEPT !.files = <<w>> \o @]
           ELSE IF one.bad THEN [done(<<>>) EXCEPT !.options = one.options,
                                                   !.bad = TRUE]
           ELSE [later EXCEPT !.options = one.options \o @]
  IN from[1]

\* Though getopt_long() moves the words about while it reads them
\* (src/getopt_long.c:258, 455-501), every option of ENCAOPT and of the
\* arguments is returned once, in order, with its argument, the other words
\* are the files, in order, and an error is one of the words as they stood.
ArgumentsAreRead ==
  pc # "start" =>
    LET all == (IF setup.expands THEN Tokens(setup.encaopt) ELSE <<>>)
               \o setup.words
        r == Reading(all, setup.posix)
    IN /\ IsPrefix(SelectSeq(seen, LAMBDA o : o[1] # "?"), r.options)
       /\ outcome = "usage" => r.bad /\ Front(seen) = r.options
       /\ pc \in {"language", "behaviour", "files", "prefix", "analyser"} =>
            /\ ~r.bad /\ seen = r.options
            /\ From(g.argv, g.optind) = r.files

Last1(cs) == LET is == {i \in DOMAIN seen : seen[i][1] \in cs}
             IN IF is = {} THEN 0 ELSE Max(is)
Decided == pc \in {"files", "prefix", "analyser"} \/ outcome = "ready"

\* Without the separator that parse_arg_x() looks for.
Undotted(s) == s # ".." /\ ~StartsWith(s, "..")

\* Conversion is what is done exactly when -x is the last type that was asked
\* for and is one, or none was asked for and enconv is what the program was
\* last told to be; and its target is the last one given, or else the one of
\* the environment, the encoding never that of another string
\* (src/options.c:361-411).  Of targets behind `..' see DotsMeanNothing.
TypeIsAsked ==
  Decided =>
    LET NotAType(i) == seen[i][1] = "n" /\ ExpandAbbreviation(seen[i][2], OTNAMES) = Null
        asked == {i \in DOMAIN seen :
                    seen[i][1] \in DOMAIN OptcharToOtype \cup {"n", "x"}}
        types == {i \in asked : ~NotAType(i)}
        told == Last1({"g", "c"})
        enconv == IF told = 0 THEN CalledAs(setup.program, "enconv")
                  ELSE seen[told][1] = "c"
        explicit == types # {} /\ seen[Max(types)][1] = "x"
        target == seen[Last1({"x"})][2]
    IN /\ (options.output_type = "CONVERT") <=> (explicit \/ (asked = {} /\ enconv))
       /\ explicit /\ Undotted(target) => options.target_enc_str = target
       /\ options.output_type = "CONVERT" =>
            options.target_enc \in {options.target_enc_str, Null}
       /\ asked = {} /\ enconv /\ setup.charset # Null /\ Undotted(setup.charset) =>
            options.target_enc_str = setup.charset

\* "The optional `..' before encoding name has no special meaning" (man/enca.1:201).
DotsMeanNothing ==
  Decided /\ Last1({"x"}) # 0 =>
    LET target == seen[Last1({"x"})][2]
    IN StartsWith(target, "..") => options.target_enc_str = From(target, 3)

\* The converters that a list names, `none' among them.
NamesIn(list) ==
  LET words == Split(list, ",")
      names == [i \in DOMAIN words |->
                  IF words[i] = "none" THEN "none"
                  ELSE ExpandAbbreviation(words[i], ConverterNames)]
  IN Kept(names, ToSet(names) \ {Null})

\* All that the options -C among s name, in their order.
AllNamed(s) ==
  FoldLeft(LAMBDA all, o : IF o[1] = "C" THEN all \o NamesIn(o[2]) ELSE all, <<>>, s)

SinceNone(names) ==
  LET nones == {i \in DOMAIN names : names[i] = "none"}
  IN IF nones = {} THEN names ELSE From(names, Max(nones) + 1)

\* Each name once, where it is first.
Once(names) ==
  FoldLeft(LAMBDA once, n : IF n \in ToSet(once) THEN once ELSE Append(once, n),
           <<>>, names)

Listed == pc \in {"prefix", "analyser"} \/ outcome = "ready"
WithoutC == \A i \in DOMAIN seen : seen[i][1] # "C"

\* "The default list is used only when you don't specify -C at all. Otherwise,
\* the list is built as if it were initially empty and every -C adds new
\* converter(s) to it" (man/enca.1:260), in their order and from the last `none'
\* on, of however many options with however many names (src/options.c:413,
\* src/convert.c:327-378).  Of a name given twice see DuplicitiesAreRejected, of
\* options that name no converter DefaultOnlyWithoutC.
ConvertersAsAsked ==
  Listed =>
    /\ WithoutC => Once(converters) = Once(SinceNone(NamesIn(DefaultConverterList)))
    /\ AllNamed(seen) # <<>> => Once(converters) = Once(SinceNone(AllNamed(seen)))

\* "Reject duplicities": "converter specified more than once" (src/convert.c:360).
DuplicitiesAreRejected ==
  Listed => \A name \in ToSet(converters) :
              AddConverter(converters, name) = [convs |-> converters, added |-> 0]

\* "The default list is used only when you don't specify -C at all"
\* (man/enca.1:260).
DefaultOnlyWithoutC ==
  Listed => WithoutC \/ ToSet(converters) \subseteq ToSet(AllNamed(seen))

\* The native charset that enconv converts to is that of a locale of the very
\* language the input is taken to be in (src/locale_detect.c:58-97).
NativeCharsetFits ==
  codeset # Null =>
    \E locname \in DOMAIN setup.sys.codesets :
      /\ setup.sys.codesets[locname] = codeset
      /\ StripLocaleName(LocaleAliasConvert(setup.sys, locname)) = options.language

\* When files begin to be read the language is known, a conversion has a
\* target, and if an external converter is among those to be tried the
\* program last asked for can be run (src/options.c:424, src/enca.c:54).
ReadyIsSane ==
  outcome = "ready" =>
    LET asked == IF Last1({"E"}) = 0 THEN DefaultExternalConverter
                 ELSE seen[Last1({"E"})][2]
    IN /\ options.language \in GetLanguages
       /\ options.prefix_filename # -1
       /\ options.output_type = "CONVERT" =>
            /\ options.target_enc_str # Null
            /\ "extern" \in ToSet(converters) =>
                 ExternalConverter(asked) \in setup.exec

\* "For names listed above, --name=WORD is equivalent to --WORD" (man/enca.1:192).
NameIsTheOption ==
  Decided =>
    \A i \in DOMAIN seen, c \in DOMAIN OptcharToOtype :
      LET word == ExpandAbbreviation(seen[i][2], OTNAMES)
      IN /\ seen[i][1] = "n" /\ word # Null /\ StartsWith(LongName[c], word)
         /\ i = Last1({"d", "e", "f", "i", "m", "n", "r", "s", "x"})
         => options.output_type = OptcharToOtype[c]

\* When files begin to be read, the settings are those that the manual and the
\* comments say the options make, and a target has the surfaces that were named
\* (src/options.c:647): five claims, which
\*   enca -Cbogus -x..utf8 -ncstocs
\* finds false all at once.
SettingsAsDocumented ==
  outcome = "ready" =>
    /\ DefaultOnlyWithoutC
    /\ DuplicitiesAreRejected
    /\ DotsMeanNothing
    /\ NameIsTheOption
    /\ Encnames!SurfacesAreParsed
=============================================================================
