SPECIFICATION Spec
CONSTANTS
  Worlds <- Shadowing
  Names <- MCNames
  Builtins <- MCBuiltins
INVARIANTS
  ConflictsAreReported
CHECK_DEADLOCK FALSE
