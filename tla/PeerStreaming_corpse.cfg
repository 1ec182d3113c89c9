SPECIFICATION Spec
CONSTANTS
    jacket = jacket
    f = f
    m = m
    Bare = Bare
    Peer = {2}
    Position = {here}
    Look <- OneLook
    EntityId = {1, 2}
    MaxTick = 1
INVARIANTS
    DeadPuppetsLie
