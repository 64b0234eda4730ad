CONSTANTS
    Programs <- MCPrograms
    MaxChoices = 5
SPECIFICATION Spec
INVARIANTS TypeOK ExitOrder SameBindings FunctionsReturn ValuesAreProved
CHECK_DEADLOCK FALSE
