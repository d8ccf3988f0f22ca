CONSTANTS
    Confirmations = 0
    MaxLag = 1
    Batch = 2
    MaxCatchup = 0
    MaxFailures = 2
    FirstHead = 1
    MaxHead = 4
    HeadSkew = 0
    Crashes = 0
    DbErrors = 0
SPECIFICATION Spec
PROPERTIES SkipJustified
