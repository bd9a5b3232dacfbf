CONSTANTS
    p = p
    q = q
    Pids = {p, q}
    NoPid = nobody
    Fds = {1, 2}
    MaxLanSockets = 2
    MaxSockets = 2
    Ports = {1, 2}
    PiaPorts = {1}
    MaxResets = 1
SPECIFICATION MCSpec
CHECK_DEADLOCK FALSE
INVARIANT TypeOK
INVARIANT NoOrphan
INVARIANT MirrorsAgree
PROPERTY DeadHoldNoSocket
