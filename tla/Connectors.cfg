SPECIFICATION Spec
CONSTANTS
    MaxItems = 4
    MaxBreaks = 3
    Buttons = {2}
    Silent = {3}
    Threshold = 2
    Cooldown = 2
    MaxChunks = 3
INVARIANTS
    Accounted
    RepeatsBounded
    OpenIsQuiet
PROPERTIES
    CatchUp
    BreakerRecovers
CHECK_DEADLOCK FALSE
