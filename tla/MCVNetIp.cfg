CONSTANTS
    h1 = h1
    m1 = m1
    Hosts = {h1, h2, h3}
    Macs = {m1, m2}
    Unknown = Unknown
    Everyone = Everyone
    Group = Group
    ArpEntries = 2
    ReasmSlots = 2
    ReasmMax = 24
    MaxPayload = 10
    Traffics <- MCTraffics
    MaxResets = 1
SPECIFICATION Spec
INVARIANTS TypeOK HandedIsSent TwoAtOnce
PROPERTY CacheIsRecent
CHECK_DEADLOCK FALSE
