SPECIFICATION Spec
CONSTANTS
    HistSize = 1
    YieldDenom = 2
    Depositors = {d1, d2}
    Terms <- YieldTerms
    Changes <- YieldChanges
    ContractTerms <- OneContract
    Amounts = {1, 2}
    DepositFees = {0}
    YieldFees = {0}
    Preferences = {"Claim"}
    FeeDenom = 10
    Timelock = 1
    IdleExpiry = 1
    U64Max = 100
    Keep = Keep
    NoChange = NoChange
    MaxTime = 3
    MaxInterest = 0
INVARIANTS
    DepositorsCanExit
CHECK_DEADLOCK FALSE
