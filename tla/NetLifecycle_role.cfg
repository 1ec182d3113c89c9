SPECIFICATION Spec
CONSTANT
    GnsAvailable = TRUE
INVARIANT
    RoleMatchesSession
CHECK_DEADLOCK FALSE
