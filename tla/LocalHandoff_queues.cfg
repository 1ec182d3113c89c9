SPECIFICATION FairSpec
CONSTANTS
    Look = {coat, bare}
    NoLook = NoLook
    MaxChanges = 2
    MaxShots = 2
    MaxEvents = 2
    MaxTick = 1
INVARIANTS
    HelloComesFirst
    CleanLookIsSent
PROPERTIES
    ShotsImplementMailbox
    EventsImplementMailbox
    FinalLookIsHeard
