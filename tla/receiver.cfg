SPECIFICATION Spec
CONSTANTS
    BufSize = 5
    Alphabet = {0, 4, 5, 6}
    MaxBytes = 9
INVARIANTS
    BufferIsPartOfCommand
    CommandsAreTheStreams
CHECK_DEADLOCK FALSE
