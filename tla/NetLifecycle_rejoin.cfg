SPECIFICATION Spec
CONSTANT
    GnsAvailable = TRUE
PROPERTY
    RejoinIsAccepted
CHECK_DEADLOCK FALSE
