SPECIFICATION Live
CONSTANTS
    Tasks = {t1, t2}
    NoTask = NoTask
    Lag = 3
    Skew = 1
    Drift = 1
    TxLife = 1
    Batch = 2
    MaxEvent = 3
    LastInsert = 0
    MaxTime = 6
    MaxFailures = 1
INVARIANTS NothingIsPassedOver RepeatsAreFailures
PROPERTIES EveryEventIsShipped
CHECK_DEADLOCK FALSE
