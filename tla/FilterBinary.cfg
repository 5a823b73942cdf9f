CONSTANTS
  Min = 5
  Samples <- ShortSamples
SPECIFICATION Spec
CHECK_DEADLOCK FALSE
INVARIANTS TypeOK BlocksAreBlank CountIsExact
