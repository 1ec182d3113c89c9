SPECIFICATION FairSpec
CONSTANTS
    SavedBefore = TRUE
    MaxVersion = 4
INVARIANTS
    CleanMeansTaken
    SavedWhenClean
    NeverTorn
    CopyRemains
    StopSavesEverything
PROPERTIES
    DirtyIsTaken
CHECK_DEADLOCK FALSE
