SPECIFICATION Spec
CONSTANTS
    HistSize = 1
    YieldDenom = 2
    Depositors = {d1}
    Terms <- TimelockTerms
    Changes <- TimelockChanges
    ContractTerms <- AnyContract
    Amounts = {1, 2}
    DepositFees = {5}
    YieldFees = {5}
    Preferences = {"Claim"}
    FeeDenom = 10
    Timelock = 1
    IdleExpiry = 1
    U64Max = 100
    Keep = Keep
    NoChange = NoChange
    MaxTime = 3
    MaxInterest = 0
PROPERTIES
    TermsChangeOnlyAsAnnounced
    IdleClockStartsAtEmpty
    YieldIsConserved
CHECK_DEADLOCK FALSE
