CONSTANTS
  Files <- F1
  BufSize = 2
  IconvSize = 2
  FaultSets <- NoFaults
  ArgLists <- StdinOnly
  ConverterLists <- RecodeOnly
  Contents <- MoreBytes
SPECIFICATION Spec
CHECK_DEADLOCK FALSE
INVARIANT SuccessIsConversion
