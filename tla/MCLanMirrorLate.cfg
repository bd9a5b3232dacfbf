CONSTANTS
    p = p
    q = q
    Pids = {p}
    NoPid = nobody
    Fds = {1}
    MaxLanSockets = 2
    MaxSockets = 2
    Ports = {1}
    PiaPorts = {1}
    MaxResets = 1
SPECIFICATION FairSpec
CHECK_DEADLOCK FALSE
PROPERTY DeadAreForgotten
