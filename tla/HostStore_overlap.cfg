SPECIFICATION Spec
CONSTANTS
    SavedBefore = TRUE
    MaxVersion = 2
INVARIANTS
    NoChangeIsLost
CHECK_DEADLOCK FALSE
