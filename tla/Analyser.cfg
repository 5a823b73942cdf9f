CONSTANTS
  Samples <- MCSamples
  Languages <- MCLanguages
  Options <- SomeOptions
  MaxCalls = 2
SPECIFICATION Spec
CHECK_DEADLOCK FALSE
INVARIANTS TypeOK CallerUntouched CopyOwned UnknownHasReason CountsAreFresh NoiseIsTold
