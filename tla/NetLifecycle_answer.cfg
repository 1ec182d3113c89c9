SPECIFICATION Spec
CONSTANT
    GnsAvailable = TRUE
INVARIANT
    StartReportsFailure
CHECK_DEADLOCK FALSE
