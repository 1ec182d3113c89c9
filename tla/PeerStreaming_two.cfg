SPECIFICATION FairSpec
CONSTANTS
    jacket = jacket
    f = f
    m = m
    Bare = Bare
    Peer = {2, 3}
    Position = {here}
    Look <- TwoLooks
    EntityId = {1, 2, 3}
    MaxTick = 1
INVARIANTS
    NoGhostPuppet
    AppliedMeansDressed
PROPERTIES
    PeersAppear
    FarPeersDisappear
