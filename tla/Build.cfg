SPECIFICATION Spec
CONSTANTS
  MaxCommands = 2
  MaxNest = 1
INVARIANTS
  TempsRemoved
  ExitTellsWhatWasBuilt
CHECK_DEADLOCK FALSE
