SPECIFICATION Spec
CONSTANTS
    Slots = {0, 1}
    MaxSteps = 10
    Depth = 2
    ClockMod = 4
    Programs <- MCPrograms
    Readings <- MCReadings
INVARIANTS
    TypeOK
    LoopsNested
    RunsAsWritten
PROPERTIES
    DelayHonoured
