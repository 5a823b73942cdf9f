--------------------------- MODULE MCCommandLine ---------------------------
(* Small instances of CommandLine: families of command lines, each about    *)
(* one thing that options do to one another.                                *)
EXTENDS CommandLine

SomeConverters == <<"built-in", "librecode", "iconv", "extern">>

\* Locales of three systems: nothing but C; a Slovak user whose messages are
\* English; a system without locale.alias, LC_CTYPE set to what it lacks.
Aliases == [a \in {"czech", "slovak"} |->
              IF a = "czech" THEN "cs_CZ.ISO-8859-2" ELSE "sk_SK.ISO-8859-2"]
Codesets == [l \in {"cs_CZ.ISO-8859-2", "cs_SK", "en_US", "ru_UA.KOI8-U", "slovak"} |->
               CASE l = "cs_CZ.ISO-8859-2" -> "ISO-8859-2"
                 [] l = "ru_UA.KOI8-U" -> "KOI8-U"
                 [] l = "en_US" -> "ISO-8859-1"
                 [] OTHER -> "ISO-8859-2"]
Sys(inherited, readable) ==
  [inherited |-> inherited, codesets |-> Codesets, aliases |-> Aliases,
   readable |-> readable]
Plain == Sys(<<"C", "C", "C">>, TRUE)
Slovak == Sys(<<"en_US", "cs_SK", "C">>, TRUE)
Missing == Sys(<<Null, "POSIX", "ru_UA.KOI8-U">>, FALSE)

Usual == [program |-> "enca", words |-> <<>>, encaopt |-> "", expands |-> TRUE,
          posix |-> FALSE, sys |-> Slovak, charset |-> Null,
          exec |-> {"/ext/cstocs"}, tty |-> FALSE]

UpTo(S, n) == UNION {[1 .. k -> S] : k \in 0 .. n}

\* How words are read.
ScannedWords == {"a", "-", "--", "-Ve", "-L", "--lang=cs", "b"}
Scanned == {[Usual EXCEPT !.words = ws, !.posix = p, !.encaopt = e] :
              ws \in UpTo(ScannedWords, 4), p \in BOOLEAN, e \in {"", " -p  b "}}
OddWords == {"--l", "--list", "-z", "--details=1", "--no", "-L", "a", "-pPl", "c",
             "-h"}
Odd == {[Usual EXCEPT !.words = ws, !.expands = x, !.encaopt = "-d"] :
          ws \in UpTo(OddWords, 3), x \in BOOLEAN}

\* Types, -x and the two programs.
TypeWords == {"-d", "-nmim", "-ne", "-nhuh", "-xutf8", "-xa..b", "-x..", "-c", "-g"}
Typed == {[Usual EXCEPT !.words = ws, !.program = p, !.charset = cs] :
            ws \in UpTo(TypeWords, 3),
            p \in {"enconv", "enconv2", "enconvert"}, cs \in {Null, "cp1250", ".."}}

NameWords == {"-naliases", "-ncstocs", "-ndetails", "-nenca", "-nhuman",
              "-niconv", "-nmime", "-nrfc"}
OtherTypes == {"-d", "-e", "-xutf8", "-i", "-m", "-r", "-s", "-f"}
Named == {[Usual EXCEPT !.words = <<a, b>>] :
            a \in {"-e", "-xutf8", "-i"}, b \in NameWords}
         \cup {[Usual EXCEPT !.words = <<b, a>>] :
            a \in {"-d", "-xutf8", "-m", "-r", "-s", "-f"}, b \in NameWords}

\* Converters.
ListWords == {"-Cnone", "-Ci,extern", "-Cbogus", "-C,none,b"}
ExternWords == {"-Eb-cstocs", "-E/bin/x", "-Eumap"}
Converted == {[Usual EXCEPT !.words = ws \o <<"-x", "utf8">>, !.exec = e] :
                ws \in UpTo(ListWords \cup ExternWords, 3),
                e \in {{"/ext/cstocs"}, {"/bin/x", "/ext/umap"}}}
             \cup {[Usual EXCEPT !.words = ws \o <<"-x", "utf8">>] :
                ws \in UpTo(ListWords, 4)}

\* A converter nobody knows, a target with dots, a type by its name.
DocumentedWords == {"-Cbogus", "-x..utf8", "-ncstocs"}
Documented == {[Usual EXCEPT !.words = <<"-Cbogus", "-x..utf8", "-ncstocs">>]}

\* Languages.
LanguageWords == {"-Lczech", "-Lslovak", "-Lbelorusian", "-Lxx", "-Lcs_SK",
                  "-Lru_UA+x", "-Lnone", "-Lgarbage", "-", "a"}
Spoken == {[Usual EXCEPT !.words = ws, !.program = p, !.sys = s, !.tty = t] :
             ws \in UpTo(LanguageWords, 2), p \in {"enca", "enconv"},
             s \in {Plain, Slovak, Missing}, t \in BOOLEAN}

AllLines == Scanned \cup Odd \cup Typed \cup Named \cup Converted \cup Spoken

\* All parts of all these words.
AllWords ==
  UNION {{SubSeq(w, i, j) : i \in 1 .. Len(w) + 1, j \in 0 .. Len(w)} :
           w \in ScannedWords \cup OddWords \cup TypeWords \cup NameWords
                 \cup OtherTypes \cup ListWords \cup ExternWords \cup LanguageWords
                 \cup DocumentedWords
                 \cup {" -p  b ", "-x", "utf8", DefaultConverterList}}
=============================================================================
