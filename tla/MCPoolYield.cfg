SPECIFICATION Spec
CONSTANTS
    HistSize = 1
    YieldDenom = 1
    Depositors = {d1, d2}
    Terms <- YieldTerms
    Changes <- YieldChanges
    ContractTerms <- OneContract
    Amounts = {1, 2}
    DepositFees = {0}
    YieldFees = {5}
    Preferences = {}
    FeeDenom = 10
    Timelock = 1
    IdleExpiry = 1
    U64Max = 100
    Keep = Keep
    NoChange = NoChange
    MaxTime = 2
    MaxInterest = 1
INVARIANTS
    TotalsAreSums
    
    
PROPERTIES
    CreditedYieldIsBacked
SYMMETRY DepositorSymmetry
CHECK_DEADLOCK FALSE
