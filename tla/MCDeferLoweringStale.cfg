CONSTANTS
    Programs <- ResultPrograms
    MaxChoices = 5
SPECIFICATION Spec
INVARIANT NoStaleProof
CHECK_DEADLOCK FALSE
