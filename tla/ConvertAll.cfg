CONSTANTS
  Files <- F1
  BufSize = 2
  IconvSize = 2
  FaultSets <- EveryFault
  ArgLists <- FileOrStdin
  ConverterLists <- AnyList
  Contents <- MoreBytes
SPECIFICATION FairSpec
CHECK_DEADLOCK FALSE
INVARIANTS TypeOK OnlyOpenStreams BuffersInBounds
  StdoutIsTruthful StreamedIsConverted NoTempLeft
PROPERTY Termination
