\* Options that do not do what is said of them.
CONSTANTS
  CommandLines <- Documented
  ConverterNames <- SomeConverters
  DefaultConverterList = "built-in,librecode,iconv"
  DefaultExternalConverter = "cstocs"
  ExtconvDir = "/ext"
  Word <- AllWords
SPECIFICATION Spec
CHECK_DEADLOCK FALSE
INVARIANT SettingsAsDocumented
