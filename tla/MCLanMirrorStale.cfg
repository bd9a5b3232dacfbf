CONSTANTS
    p = p
    q = q
    Pids = {p, q}
    NoPid = nobody
    Fds = {1, 2}
    MaxLanSockets = 2
    MaxSockets = 2
    Ports = {1}
    PiaPorts = {1}
    MaxResets = 1
SPECIFICATION Spec
CHECK_DEADLOCK FALSE
INVARIANT MirrorsDistinct
