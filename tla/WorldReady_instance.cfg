SPECIFICATION Spec
CONSTANTS
    Peer = {1, 2}
    HostId = 1
    Position = {saved, street}
    Saved = saved
    Home = home
    Nowhere = nowhere
    Hp = {0, 50, 100}
    Full = 100
    StableTicks = 3
    PlayerState = {"none", "whole"}
    MaxSpawns = 1
INVARIANTS
    GameInstanceIsCached
