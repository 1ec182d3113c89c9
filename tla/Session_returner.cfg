SPECIFICATION FairSessionSpec
CONSTANTS
    c1 = c1
    c2 = c2
    hostGuid = hostGuid
    ann = ann
    bob = bob
    casual = casual
    suit = suit
    MaxNetId = 2
    Guid = {hostGuid, ann}
    NoGuid = NoGuid
    Look = {casual, suit}
    NoLook = NoLook
    Pos = {}
    NoPos = NoPos
    MaxHealth = 2
    MaxHitDamage = 2
    ClaimedDamage = {1, 2}
    Conn = {c1}
    Local = Local
    HostGuid = hostGuid
    SavedRecord <- Returners
    MaxStat = 2
    Player <- OneGuest
    OneConnectionEach = TRUE
    MaxPushes = 2
    MaxLost = 1
INVARIANTS
    LookConverges
    LatestLookWins
PROPERTIES
    DeadPuppetsReturn
CHECK_DEADLOCK FALSE
