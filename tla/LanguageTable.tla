--------------------------- MODULE LanguageTable ---------------------------
(***************************************************************************)
(* The languages of libenca: their charsets, and the hooks that decide     *)
(* between charsets alike (lib/lang_*.c, lib/lang.c).                      *)
(*                                                                         *)
(* A hook is a sequence of rows: bytes that are letters of the language in *)
(* one charset and none in the others, or the ends of lines a charset is   *)
(* used with.  Language data is a list of steps, run in this order; of a   *)
(* step's hooks the first that changes a rating is the last that runs.     *)
(***************************************************************************)
EXTENDS Integers, SequencesExt

AllEols == {"lf", "cr", "crlf", "mix", "bin"}

Telling(cs, list) == [cs |-> cs, list |-> list]
Eols(cs, eol) == [cs |-> cs, eol |-> eol]

ENCA_LANGUAGE_BE ==
  LET macwin == <<Telling("maccyr", {\hb4, \hdf, \hd9, \hde, \h80, \h8d, \h91,
                                     \h8f, \h81}),
                  Telling("cp1251", {\hb3, \hff, \ha2, \hb8, \hc0, \hcd, \hd1,
                                     \hcf, \hc1})>>
      isokoi == <<Telling("iso88595", {\hdd, \hd0, \he0, \hf6, \heb, \hef,
                                       \he3, \he2, \he1, \hdf}),
                  Telling("koi8u", {\hc1, \hce, \hc5, \hcc, \hcb, \hcf, \ha6,
                                    \hc4, \hcd, \hae})>>
      ibm855866 == <<Telling("ibm855", {\hd4, \hd0, \hd6, \h8a, \hc6, \hde,
                                        \hd2, \hf3, \hd8, \h98, \hf1}),
                     Telling("ibm866", {\had, \he0, \ha5, \hab, \hae, \haa,
                                        \he2, \hef, \ha7, \haf, \he6})>>
  IN [name |-> "be", english |-> "belarusian",
      charsets |-> <<"cp1251", "ibm866", "iso88595", "koi8uni", "maccyr",
                    "ibm855", "koi8u">>,
      hook |-> <<<<macwin, isokoi, ibm855866>>>>,
      eolhook |-> <<>>]

ENCA_LANGUAGE_BG ==
  LET win1251mac == <<Telling("cp1251", {\hff, \hcd, \hd2, \hc0, \hd1, \hc8,
                                         \hcf, \hc2}),
                      Telling("maccyr", {\hdf, \h8d, \h92, \h80, \h91, \h88,
                                         \h8f, \h82})>>
      winmac == <<Eols("maccyr", {"cr"}), Eols("cp1251", AllEols)>>
  IN [name |-> "bg", english |-> "bulgarian",
      charsets |-> <<"cp1251", "iso88595", "ibm855", "maccyr", "ecma113">>,
      hook |-> <<<<win1251mac>>>>,
      eolhook |-> winmac]

ENCA_LANGUAGE_CS ==
  LET iso1250 == <<Telling("iso88592", {\hbe, \hb9, \hbb, \ha9, \hae}),
                   Telling("cp1250", {\h9e, \h9a, \h9d, \h8a, \h8e})>>
      ibmkam == <<Telling("ibm852", {\hd8, \ha7, \hfd, \he7, \h9f, \hec,
                                     \h85}),
                  Telling("keybcs2", {\h88, \h91, \ha9, \h87, \ha8, \h98,
                                      \h96})>>
      isowin == <<Eols("cp1250", {"crlf"}), Eols("iso88592", AllEols)>>
  IN [name |-> "cs", english |-> "czech",
      charsets |-> <<"iso88592", "cp1250", "ibm852", "keybcs2", "macce",
                    "koi8cs2", "cork">>,
      hook |-> <<<<iso1250, ibmkam>>>>,
      eolhook |-> isowin]

ENCA_LANGUAGE_ET ==
  LET allinone == <<Telling("iso88594", {\hb9, \hbe, \ha9, \hae}),
                    Telling("iso885913", {\hf0, \hfe, \hd0, \hde}),
                    Telling("baltic", {\hf9, \hea, \hd9, \hca}),
                    Telling("cp1257", {\hf0, \hfe, \hd0, \hde})>>
      iso13win == <<Eols("iso885913", {"lf"}), Eols("cp1257", AllEols)>>
      iso4win == <<Eols("iso88594", {"lf"}), Eols("cp1257", AllEols)>>
  IN [name |-> "et", english |-> "estonian",
      charsets |-> <<"iso88594", "cp1257", "ibm775", "iso885913", "macce",
                    "baltic">>,
      hook |-> <<<<allinone>>, <<iso13win>>>>,
      eolhook |-> iso4win]

ENCA_LANGUAGE_FI ==
  LET iso4cp1257 == <<Telling("iso88594", {\hb9, \hbe, \ha9, \hae, \ha8}),
                      Telling("cp1257", {\hf0, \hfe, \hd0, \hde, \hb8})>>
  IN [name |-> "fi", english |-> "finnish",
      charsets |-> <<"iso88594", "cp1257">>,
      hook |-> <<<<iso4cp1257>>>>,
      eolhook |-> <<>>]

ENCA_LANGUAGE_HR ==
  LET iso1250 == <<Telling("iso88592", {\hb9, \hbe, \ha9, \hae}),
                   Telling("cp1250", {\h9a, \h9e, \h8a, \h8e})>>
      isowin == <<Eols("cp1250", {"crlf"}), Eols("iso88592", AllEols)>>
  IN [name |-> "hr", english |-> "croatian",
      charsets |-> <<"cp1250", "iso88592", "ibm852", "macce", "cork">>,
      hook |-> <<<<iso1250>>>>,
      eolhook |-> isowin]

ENCA_LANGUAGE_HU ==
  LET isocork == <<Telling("iso88592", {\hf5, \hfb, \hd5}),
                   Telling("cp1250", {\hf5, \hfb, \hd5}),
                   Telling("cork", {\hae, \hb6, \h8e})>>
      iso1250 == <<Eols("cp1250", {"crlf"}), Eols("iso88592", AllEols)>>
  IN [name |-> "hu", english |-> "hungarian",
      charsets |-> <<"iso88592", "cp1250", "ibm852", "macce", "cork">>,
      hook |-> <<<<isocork>>, <<iso1250>>>>,
      eolhook |-> <<>>]

ENCA_LANGUAGE_LT ==
  LET baltwin == <<Telling("cp1257", {\hf0, \hfe, \heb, \he8, \hd0, \hde,
                                      \hc8}),
                   Telling("iso885913", {\hf0, \hfe, \heb, \he8, \hd0, \hde,
                                         \hc8}),
                   Telling("baltic", {\hf9, \hea, \he7, \hd9, \hca, \hc7,
                                      \hc0})>>
      lat4balt == <<Telling("iso88594", {\hec, \hb9, \hbe, \hb1, \hfe, \he8,
                                         \ha9, \hae, \hc8}),
                    Telling("baltic", {\he1, \hf8, \he6, \he0, \hfb, \heb,
                                       \hd9, \hca, \hc0})>>
      iso13win == <<Eols("iso885913", {"lf"}), Eols("cp1257", AllEols)>>
  IN [name |-> "lt", english |-> "lithuanian",
      charsets |-> <<"cp1257", "iso88594", "ibm775", "iso885913", "macce",
                    "baltic">>,
      hook |-> <<<<baltwin, lat4balt>>, <<iso13win>>>>,
      eolhook |-> <<>>]

ENCA_LANGUAGE_LV ==
  LET baltwin == <<Telling("cp1257", {\he7, \hf0, \hf2, \hfe, \hd0, \hde}),
                   Telling("iso885913", {\he7, \hf0, \hf2, \hfe, \hd0, \hde}),
                   Telling("baltic", {\hec, \hf9, \hf1, \hea, \hd9, \hcc})>>
      iso13win == <<Eols("iso885913", {"lf"}), Eols("cp1257", AllEols)>>
  IN [name |-> "lv", english |-> "latvian",
      charsets |-> <<"cp1257", "iso88594", "ibm775", "iso885913", "macce",
                    "baltic">>,
      hook |-> <<<<baltwin>>, <<iso13win>>>>,
      eolhook |-> <<>>]

ENCA_LANGUAGE_PL ==
  LET iso1250 == <<Telling("iso88592", {\hb1, \hb6, \hbc, \ha6}),
                   Telling("cp1250", {\hb9, \h9c, \h9f, \h8})>>
      balt13 == <<Telling("baltic", {\hf0, \heb, \hf2, \hfe}),
                  Telling("iso885913", {\hf9, \he0, \hf1, \hea})>>
      isowin == <<Eols("cp1250", {"crlf"}), Eols("iso88592", AllEols)>>
  IN [name |-> "pl", english |-> "polish",
      charsets |-> <<"iso88592", "cp1250", "ibm852", "macce", "iso885913",
                    "iso885916", "baltic", "cork">>,
      hook |-> <<<<iso1250, balt13>>>>,
      eolhook |-> isowin]

ENCA_LANGUAGE_RU ==
  LET mac1251 == <<Telling("maccyr", {\hdf, \h82, \h8f, \h8d, \h80, \h91,
                                      \h88}),
                   Telling("cp1251", {\hff, \hc2, \hcf, \hcd, \hc0, \hd1,
                                      \hc8})>>
      macwin == <<Eols("maccyr", {"cr"}), Eols("cp1251", AllEols)>>
  IN [name |-> "ru", english |-> "russian",
      charsets |-> <<"koi8r", "cp1251", "iso88595", "ibm866", "maccyr">>,
      hook |-> <<<<mac1251>>>>,
      eolhook |-> macwin]

ENCA_LANGUAGE_SK ==
  LET iso1250 == <<Telling("iso88592", {\hb9, \hbb, \hb5, \ha9, \hae}),
                   Telling("cp1250", {\h9e, \h9a, \h9d, \h8a, \h8e})>>
      ibmkam == <<Telling("ibm852", {\ha7, \he7, \hec, \h9c, \h96, \hd4,
                                     \he5}),
                  Telling("keybcs2", {\h87, \h91, \ha8, \h98, \h8c, \h83,
                                      \ha4})>>
      isowin == <<Eols("cp1250", {"crlf"}), Eols("iso88592", AllEols)>>
  IN [name |-> "sk", english |-> "slovak",
      charsets |-> <<"cp1250", "iso88592", "ibm852", "keybcs2", "macce",
                    "koi8cs2", "cork">>,
      hook |-> <<<<iso1250, ibmkam>>>>,
      eolhook |-> isowin]

ENCA_LANGUAGE_SL ==
  LET isowin == <<Eols("cp1250", {"crlf"}), Eols("iso88592", AllEols)>>
  IN [name |-> "sl", english |-> "slovene",
      charsets |-> <<"iso88592", "cp1250", "ibm852", "macce", "cork">>,
      hook |-> <<>>,
      eolhook |-> isowin]

ENCA_LANGUAGE_UK ==
  LET mac1251 == <<Telling("maccyr", {\hb4, \hdf, \hbb, \h82, \h8f}),
                   Telling("cp1251", {\hb3, \hff, \hbf, \hc2, \hcf})>>
      isokoi == <<Telling("iso88595", {\hdd, \he2, \hf6, \he0, \hde, \he1,
                                       \he3, \hdc, \hdf, \hef, \hec}),
                  Telling("koi8u", {\hcf, \hc1, \hce, \hc9, \ha6, \hc5, \hcb,
                                    \hcc, \hc4, \hcd, \hc7})>>
      ibm1125 == <<Telling("cp1125", {\hae, \had, \he2, \hf7, \he0, \ha5,
                                      \hab, \haf, \hef, \haa, \ha7}),
                   Telling("ibm855", {\hd6, \hd4, \hb7, \h8a, \heb, \hc6,
                                      \hd0, \hd2, \hd8, \hde, \hf3})>>
      macwin == <<Eols("maccyr", {"cr"}), Eols("cp1251", AllEols)>>
  IN [name |-> "uk", english |-> "ukrainian",
      charsets |-> <<"cp1251", "ibm855", "iso88595", "cp1125", "koi8u",
                    "maccyr">>,
      hook |-> <<<<mac1251, isokoi, ibm1125>>>>,
      eolhook |-> macwin]

\* Its hook and its ratings are in module Languages.
ENCA_LANGUAGE_ZH ==
  [name |-> "zh", english |-> "chinese", charsets |-> <<"gbk", "big5", "hz">>,
   hook |-> <<>>, eolhook |-> <<>>]

ENCA_LANGUAGE___ ==
  [name |-> "__", english |-> "none", charsets |-> <<>>,
   hook |-> <<>>, eolhook |-> <<>>]

LANGUAGE_LIST ==
  <<ENCA_LANGUAGE_BE, ENCA_LANGUAGE_BG, ENCA_LANGUAGE_CS, ENCA_LANGUAGE_ET,
    ENCA_LANGUAGE_FI, ENCA_LANGUAGE_HR, ENCA_LANGUAGE_HU, ENCA_LANGUAGE_LT,
    ENCA_LANGUAGE_LV, ENCA_LANGUAGE_PL, ENCA_LANGUAGE_RU, ENCA_LANGUAGE_SK,
    ENCA_LANGUAGE_SL, ENCA_LANGUAGE_UK, ENCA_LANGUAGE_ZH, ENCA_LANGUAGE___>>

\* The names enca_get_languages() lists, and find_language() finds.
GetLanguages == {lang.name : lang \in ToSet(LANGUAGE_LIST)}

\* The place of a charset in the language's list: what the hooks look for in
\* the analyser's table of charset ids.
CharsetIndex(lang, cs) == SelectInSeq(lang.charsets, LAMBDA c : c = cs)
=============================================================================
