SPECIFICATION FairSpec
CONSTANT
    GnsAvailable = TRUE
INVARIANTS
    ConnectedIsUsable
    NothingOutlivesTheWorker
PROPERTIES
    NoStartUnderAWorker
    CallsReturn
CHECK_DEADLOCK FALSE
