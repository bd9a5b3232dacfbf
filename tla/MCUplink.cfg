CONSTANTS
    FailStreakMax = 2
    Modes = {{"psc"}, {"nat", "psc"}}
SPECIFICATION Spec
INVARIANT TypeOK
INVARIANT ConfirmedMeansQuiet
INVARIANT RouterLeftAlone
INVARIANT AnnouncedIsOurs
INVARIANT ReadyMeansSocket
PROPERTY WakesUp
PROPERTY Recovers
