------------------------------- MODULE Locale -------------------------------
(***************************************************************************)
(* The language of the input and the native charset of the user            *)
(* (src/locale_detect.c), with HAVE_SETLOCALE, HAVE_NL_LANGINFO and        *)
(* HAVE_LOCALE_ALIAS.  What the system knows is a record sys:              *)
(*   inherited  what setlocale(category, "") says for LC_CTYPE,            *)
(*              LC_COLLATE and LC_MESSAGES, NULL when it fails             *)
(*   codesets   locale -> its charset, for the locales that exist          *)
(*   aliases    alias -> locale, the lines of locale.alias                 *)
(*   readable   whether locale.alias can be opened                         *)
(***************************************************************************)
EXTENDS Words

\* detect_target_charset()
DetectTargetCharset(sys, locname) ==
  IF locname \in DOMAIN sys.codesets THEN sys.codesets[locname] ELSE Null

IsEnglish(s) == StartsWith(s, "en") /\ ~IsAlpha(At(s, 3))

\* detect_user_language(): the first category that tells a language.
DetectUserLanguage(sys) ==
  LET Tells(s) == s \notin {Null, "", "C", "POSIX"} /\ ~IsEnglish(s)
      i == SelectInSeq(sys.inherited, Tells)
  IN IF i = 0 THEN Null ELSE sys.inherited[i]

Iso639Aliases ==
  [be |-> {"byelarussian", "byelarusian", "belarussian", "belarusian",
           "byelorussian", "belorussian", "byelorusian", "belorusian"},
   bg |-> {"bulgarian", "macedonian", "montenegrin-cyrilic", "serbian-cyrilic"},
   cs |-> {"czech"}, et |-> {"estonian"}, fi |-> {"finnish"},
   hr |-> {"bosnian", "croatian", "montenegrin-latin", "serbian-latin"},
   hu |-> {"hungarian", "magyar"}, lt |-> {"lativan", "lithuanian"},
   lv |-> {"lettic", "lettish"}, pl |-> {"polish"}, ru |-> {"russian"},
   sk |-> {"slovak"}, sl |-> {"slovene", "slovenian"}, uk |-> {"ukrainian"},
   zh |-> {"chinese"}]

\* static_iso639_alias_convert()
StaticIso639AliasConvert(locname) ==
  IF \E l \in DOMAIN Iso639Aliases : locname \in Iso639Aliases[l]
  THEN CHOOSE l \in DOMAIN Iso639Aliases : locname \in Iso639Aliases[l]
  ELSE locname

\* locale_alias_convert().  Without the file the built-in aliases are not
\* looked at either.
LocaleAliasConvert(sys, locname) ==
  CASE locname = Null -> Null
    [] locname = "none" -> "__"
    [] locname \notin {Null, "none"} /\ ~sys.readable -> locname
    [] locname \notin {Null, "none"} /\ sys.readable ->
         IF locname \in DOMAIN sys.aliases THEN sys.aliases[locname]
         ELSE StaticIso639AliasConvert(locname)

\* strip_locale_name(): ll or ll_TT..., some dialects being a language.
StripLocaleName(locname) ==
  LET long == At(locname, 3) = "_" /\ Len(locname) >= 5
                /\ At(locname, 6) \in {"", ".", "+"}
  IN CASE locname = Null      -> Null
       [] Len(locname) = 2    -> locname
       [] locname # Null /\ Len(locname) # 2 /\ ~long -> Null
       [] long /\ StartsWith(locname, "cs_SK") -> "sk"
       [] long /\ StartsWith(locname, "ru_UA") -> "uk"
       [] OTHER               -> SubSeq(locname, 1, 2)

\* Deviation: the charset is that of the user's locale, whatever the language.
DetectLangMixed(sys, lang) ==
  LET locname == IF lang = Null THEN DetectUserLanguage(sys) ELSE lang
  IN [language |-> StripLocaleName(LocaleAliasConvert(sys, locname)),
      codeset |-> DetectTargetCharset(sys, DetectUserLanguage(sys))]

\* detect_lang(): the language, and the charset kept for get_lang_codeset().
DetectLang(sys, lang) ==
  LET locname == IF lang = Null THEN DetectUserLanguage(sys) ELSE lang
      converted == LocaleAliasConvert(sys, locname)
      direct == DetectTargetCharset(sys, locname)
  IN [language |-> StripLocaleName(converted),
      codeset |-> IF lang # Null /\ direct = Null
                  THEN DetectTargetCharset(sys, converted) ELSE direct]

\* get_lang_codeset()
LangCodeset(detected) == IF detected.codeset = Null THEN "" ELSE detected.codeset
=============================================================================
