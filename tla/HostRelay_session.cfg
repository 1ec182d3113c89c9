SPECIFICATION Spec
CONSTANTS
    c1 = c1
    c2 = c2
    hostGuid = hostGuid
    guestGuid = guestGuid
    plaza = plaza
    MaxNetId = 4
    Guid = {hostGuid, guestGuid}
    NoGuid = NoGuid
    Look = {}
    NoLook = NoLook
    Pos = {plaza}
    NoPos = NoPos
    MaxHealth = 2
    MaxHitDamage = 2
    ClaimedDamage <- AnyDamage
    Conn = {c1, c2}
    Local = Local
    HostGuid = hostGuid
    SavedRecord <- Returners
    MaxStat = 1
SYMMETRY HandleSymmetry
VIEW hostVars
INVARIANTS
    TypeOK
    NetIdsAreUnique
    DeadIffRespawnPending
    OnlyPresentOnFile
PROPERTIES
    ScoreCountsDeaths
    ImplementsArena
    RestoreGoesHome
