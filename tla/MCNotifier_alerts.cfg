CONSTANTS
    MaxQueue = 2
    Attempts = 3
    MaxAlerts = 4
SPECIFICATION LiveSpec
INVARIANTS TypeOK DrainedIsSettled InOrder
PROPERTIES EveryAlertSettled CloseReturns
