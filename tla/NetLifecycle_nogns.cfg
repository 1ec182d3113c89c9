SPECIFICATION Spec
CONSTANT
    GnsAvailable = FALSE
INVARIANT
    StoreStopsWithSession
CHECK_DEADLOCK FALSE
