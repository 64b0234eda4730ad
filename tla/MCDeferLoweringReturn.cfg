CONSTANTS
    Programs <- CleanupPrograms
    MaxChoices = 3
SPECIFICATION Spec
INVARIANT ReturnBeforeCleanup
CHECK_DEADLOCK FALSE
