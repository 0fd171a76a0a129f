SPECIFICATION InputSpec
CONSTANTS
    KeySet = {0}
    Debounce = 1
    ClockMod = 5
    MaxGap = 1
    SlotCount = 2
    CodeMod = 3
    Keycodes = {1, 2, 4}
    Mods = {}
    ModsOf <- MCModsOf
INVARIANTS
    KeysTypeOK
    SteadyContactIsShown
    AskedPressReportedOnce
    ReportTypeOK
    ReleasedKeysAreGone
PROPERTIES
    ChangesAreSpaced
    ImplementsHeldKeys
