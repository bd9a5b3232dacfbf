SPECIFICATION Spec
CHECK_DEADLOCK FALSE
CONSTANTS
    Fds = {1, 2}
    NoFd = 99
    MaxSockets = 2
    MaxQueue = 1
    MaxResets = 1
    Games <- MCGames
INVARIANT TypeOK
INVARIANT AccountedSends
INVARIANT OverlayServes
PROPERTY ReadyIsTrue
PROPERTY QueuedIsReported
