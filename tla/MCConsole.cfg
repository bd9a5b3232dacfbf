SPECIFICATION Spec
CHECK_DEADLOCK FALSE
CONSTANTS
    a = a
    b = b
    Nets = {a, b}
    None = None
    Disks <- MCDisks
    MaxChoices = 1
    MaxReboots = 1
    MaxLooks = 2
INVARIANT TypeOK
PROPERTY JoinsWhatWasAsked
PROPERTY AvailableIsEarned
PROPERTY BothGoOn
