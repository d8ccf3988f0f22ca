CONSTANTS
    Confirmations = 1
    MaxLag = 1
    Batch = 3
    MaxCatchup = 3
    MaxFailures = 1
    FirstHead = 3
    MaxHead = 6
    HeadSkew = 1
    Crashes = 1
    DbErrors = 2
SPECIFICATION Spec
INVARIANTS NoSilentLoss
PROPERTIES CommittedNeverRedone RecentNeverPassedOver LedgerSpec
