SPECIFICATION Spec
CONSTANTS
    HistSize = 2
    YieldDenom = 3
    Rates = {0, 1, 4}
    Amount = 2
    MaxTime = 7
INVARIANTS
    YieldMatchesRateLog
PROPERTIES
    ChangeIsNotRetroactive
CHECK_DEADLOCK FALSE
