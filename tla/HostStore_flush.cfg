SPECIFICATION Spec
CONSTANTS
    SavedBefore = TRUE
    MaxVersion = 2
INVARIANTS
    FlushNowKeepsLatest
CHECK_DEADLOCK FALSE
