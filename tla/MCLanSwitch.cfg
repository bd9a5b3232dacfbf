CONSTANTS
    Networks = {a, b}
    Home = a
    None = none
    Ips = {1, 2}
    Depth = 3
    Worlds <- MCWorlds
    MaxSelections = 2
SPECIFICATION FairSpec
INVARIANT TypeOK
INVARIANT OneLan
INVARIANT OnlyLateFramesCross
INVARIANT BroadcastHeard
PROPERTY RingIsChannel
PROPERTY SelectionApplied
PROPERTY AddressGetsGroups
