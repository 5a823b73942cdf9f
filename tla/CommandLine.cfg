\* Families of command lines; see MCCommandLine.
CONSTANTS
  CommandLines <- AllLines
  ConverterNames <- SomeConverters
  DefaultConverterList = "built-in,librecode,iconv"
  DefaultExternalConverter = "cstocs"
  ExtconvDir = "/ext"
  Word <- AllWords
SPECIFICATION Spec
CHECK_DEADLOCK FALSE
INVARIANTS TypeOK ArgumentsAreRead TypeIsAsked ConvertersAsAsked
  NativeCharsetFits ReadyIsSane
