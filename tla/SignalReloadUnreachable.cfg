CONSTANTS
    MaxEdits = 1
    MaxSignals = 1
SPECIFICATION Spec
INVARIANTS
    FailedReloadKeepsServing
