SPECIFICATION Spec
CONSTANTS
    DataWords = 2
    BssWords = 3
    Words = {0, 1}
INVARIANT BssIsZero
CHECK_DEADLOCK FALSE
