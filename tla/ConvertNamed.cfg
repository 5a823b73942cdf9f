CONSTANTS
  Files <- F12
  BufSize = 2
  IconvSize = 2
  FaultSets <- Loud
  ArgLists <- TwoFiles
  ConverterLists <- Internal
  Contents <- Bytes
SPECIFICATION Spec
CHECK_DEADLOCK FALSE
INVARIANTS ExitStatusTruthful FilesSurvive
PROPERTY KeepsPromise
