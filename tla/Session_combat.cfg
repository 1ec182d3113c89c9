SPECIFICATION SessionSpec
CONSTANTS
    c1 = c1
    c2 = c2
    hostGuid = hostGuid
    ann = ann
    bob = bob
    casual = casual
    suit = suit
    MaxNetId = 3
    Guid = {hostGuid, ann, bob}
    NoGuid = NoGuid
    Look = {}
    NoLook = NoLook
    Pos = {}
    NoPos = NoPos
    MaxHealth = 1
    MaxHitDamage = 1
    ClaimedDamage = {1}
    Conn = {c1, c2}
    Local = Local
    HostGuid = hostGuid
    SavedRecord <- Strangers
    MaxStat = 3
    Player <- TwoGuests
    OneConnectionEach = TRUE
    MaxPushes = 1
    MaxLost = 1
VIEW StateView
INVARIANTS
    KnowsItself
    NoOrphanMessage
    RosterConverges
    HealthConverges
    StatsConverge
CHECK_DEADLOCK FALSE
