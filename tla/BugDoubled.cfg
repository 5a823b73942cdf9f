\* Texts in UTF-8 without a letter of Russian.
CONSTANTS
  Alphabet <- OnceAlphabet
  MaxLength <- OnceMaxLength
  Options <- MCOptions
SPECIFICATION Spec
CHECK_DEADLOCK FALSE
INVARIANT UnratedIsNotDoubled
