\* Samples of each kind up to a length, for four settings of the options, with
\* a threshold of 1.1.
CONSTANTS
  Alphabet <- MCAlphabet
  MaxLength <- MCMaxLength
  Options <- MCOptions
SPECIFICATION Spec
CHECK_DEADLOCK FALSE
INVARIANTS SurfacesAreFound BoxdrawExact Utf8IsExact
  RatingsAreExact NamesAreFound
  Utf7IsExact EscapesAreExact WideIsExact
  LanguagesDecide DoubleCheckExact
  HooksTellApart AmbiguousIsHarmless BuiltinKeepsText
  LinesAreRead CacheIsTruthful
