SPECIFICATION Spec
CONSTANTS
    NumBanks = 2
    BootModulus = 2
    Empty = Empty
    p1 = p1
    p2 = p2
    big = big
    Payloads <- MCPayloads
    Oversized <- MCOversized
    Garbage = Garbage
    Crc <- MCCrc
    ErasedWord = 9
    NoCommit = NoCommit
INVARIANT AckedIsNextBoot
