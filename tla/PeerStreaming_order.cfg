SPECIFICATION Spec
CONSTANTS
    jacket = jacket
    f = f
    m = m
    Bare = Bare
    Peer = {2}
    Position = {here, there}
    Look <- OneLook
    EntityId = {1, 2}
    MaxTick = 2
PROPERTIES
    TargetIsNewest
