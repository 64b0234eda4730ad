SPECIFICATION FairSpec
CONSTANTS
  Worlds <- MCWorlds
  Names <- MCNames
  Builtins <- MCBuiltins
INVARIANTS
  TypeOK
  LoadingIsTheImportChain
  FilesHaveOneName
  ImportsFinishFirst
  VerdictIsRight
  AcceptedIsComplete
PROPERTIES
  LoadingEnds
CHECK_DEADLOCK FALSE
