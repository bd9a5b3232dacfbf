CONSTANTS
    Pids = {p, q}
    Proxied = {p, q}
    NoPid = nobody
    Sessions = {s1, s2}
    NoSession = none
    MaxTrackedClients = 2
SPECIFICATION Spec
CHECK_DEADLOCK FALSE
INVARIANT TypeOK
INVARIANT LentOnce
PROPERTY LiveKeepTheirs
PROPERTY UnregisteredKept
PROPERTY ExitReleases
