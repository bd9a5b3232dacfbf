CONSTANTS
    MaxSockets = 2
    PoolPackets = 2
    MaxDatagram = 2
    EphemeralFirst = 4
    PortMax = 6
    EphemeralTries = 3
    BindPorts = {4}
    Datagrams <- MCDatagrams
    BufSizes = {1}
    BindIps = {"mine", "other"}
    AutoBinders = {0, 1}
SPECIFICATION Spec
INVARIANT TypeOK
INVARIANT PoolPartitioned
PROPERTY SocketsAreQueues
PROPERTY AutomaticPortIsFresh
