SPECIFICATION FairSpec
CONSTANTS
  Inputs <- MissingBrace
  PrefixLimit = 2
  DiagCap = 2
PROPERTIES
  ParsingEnds
CHECK_DEADLOCK FALSE
