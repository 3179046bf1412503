CONSTANTS
    CounterRange = 1024
    Lengths <- MCLengths
    Rests = {0, 1, 2, 3, 4, 5, 6, 7}
    KeyLengths = {0, 32, 64, 65}
    Rounds = {0, 1, 2, 3, 8, 9, 12, 13, 16, 17}
SPECIFICATION Spec
CHECK_DEADLOCK FALSE
INVARIANTS DigestsAgree RoundsAgree
