CONSTANTS
  Files <- F12
  BufSize = 2
  IconvSize = 2
  FaultSets <- ReadFault
  ArgLists <- TwoFiles
  ConverterLists <- BuiltinIconv
  Contents <- Bytes
SPECIFICATION Spec
CHECK_DEADLOCK FALSE
INVARIANT SuccessIsConversion
