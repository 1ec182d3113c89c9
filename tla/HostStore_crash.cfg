SPECIFICATION Spec
CONSTANTS
    SavedBefore = TRUE
    MaxVersion = 2
INVARIANTS
    CrashKeepsFile
CHECK_DEADLOCK FALSE
