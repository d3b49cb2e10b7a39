SPECIFICATION Spec
CONSTANTS
    HistSize = 1
    YieldDenom = 1
    Depositors = {d1, d2}
    Terms <- QueueTerms
    Changes <- QueueChanges
    ContractTerms <- AnyContract
    Amounts = {1, 2}
    DepositFees = {0}
    YieldFees = {0}
    Preferences = {}
    FeeDenom = 10
    Timelock = 1
    IdleExpiry = 1
    U64Max = 100
    Keep = Keep
    NoChange = NoChange
    MaxTime = 2
    MaxInterest = 0
INVARIANTS
    TypeOK
    UtilizedWithinDeposits
    QueueCountExact
    QueueNeverStranded
SYMMETRY DepositorSymmetry
CHECK_DEADLOCK FALSE
