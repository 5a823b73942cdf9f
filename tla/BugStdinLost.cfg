CONSTANTS
  Files <- F1
  BufSize = 2
  IconvSize = 2
  FaultSets <- NoFaults
  ArgLists <- StdinOnly
  ConverterLists <- ExternFirst
  Contents <- Bytes
SPECIFICATION Spec
CHECK_DEADLOCK FALSE
INVARIANT RefusalCopiesStdin
