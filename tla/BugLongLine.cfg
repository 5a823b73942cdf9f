\* Files with lines longer than the buffer that they are read by.
CONSTANTS
  Alphabet <- LineAlphabet
  MaxLength <- LineMaxLength
  Options <- MCOptions
SPECIFICATION Spec
CHECK_DEADLOCK FALSE
INVARIANT LongLinesEnd
