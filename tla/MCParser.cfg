SPECIFICATION FairSpec
CONSTANTS
  Inputs <- Edited
  PrefixLimit = 2
  DiagCap = 2
INVARIANTS
  TypeOK
  LossIsReported
  RecoveryKeepsTheRest
PROPERTIES
  EndsUnlessStalled
CHECK_DEADLOCK FALSE
