SPECIFICATION Spec
CONSTANTS
    Cap = 24
    ExportMax = 3
    StepsPerSlot = 1
    MacroSlots = 1
    Layers = 16
    TextChars = 2
    BitmapBytes = 3
    Reports <- MCReports
INVARIANTS
    TypeOK
    EveryCommandAnswered
    ConclusionsHold
    ExportIsConfig
PROPERTIES
    DamageChangesNothing
    DispatchReturns
