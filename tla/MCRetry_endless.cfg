CONSTANTS
    CallAttempts = 2
    FloatBase = TRUE
    MaxExponent = 4
    MaxTransient = 6
SPECIFICATION Spec
INVARIANTS NeverGivesUp
