CONSTANTS
    Confirmations = 0
    MaxLag = 1
    Batch = 3
    MaxCatchup = 2
    MaxFailures = 2
    FirstHead = 2
    MaxHead = 4
    HeadSkew = 1
    Crashes = 1
    DbErrors = 1
SPECIFICATION LiveSpec
INVARIANTS TypeOK OncePerRun FailuresOfNextOnly OnlyConfirmed
PROPERTIES EveryBlockDecided
