CONSTANTS
    CallAttempts = 3
    FloatBase = TRUE
    MaxExponent = 3
    MaxTransient = 6
    From = 3
    To = 9
    BatchSettings = {0, 4, 7}
SPECIFICATION LiveSpec
INVARIANTS TypeOK ResultComplete RefusesOneBlock ReplayedOnce
PROPERTIES Ends
