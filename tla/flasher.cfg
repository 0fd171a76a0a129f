SPECIFICATION Spec
CONSTANTS
    Clicks = {c1, c2}
    NumChunks = 2
    Good <- MCGood
    Bad <- MCBad
    MaxSessions = 2
    None = None
    Erased = Erased
    Junk = Junk
INVARIANTS
    TypeOK
    SuccessMeansWritten
    OnlyCheckedFirmware
PROPERTY FlashEnds
CHECK_DEADLOCK FALSE
