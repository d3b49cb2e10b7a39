SPECIFICATION FairLoanSpec
CONSTANTS
    Lenders = {l1, l2}
    Nobody = Nobody
    Offers <- LoanOffers
    Amounts = {1, 2}
    OtherDebt = 1
    ListingLife = 1
    Cooldown = 9
    BpsDenom = 10
    ListingFeeBps = 0
    FrontendShareBps = 8
    MaxTime = 3
    Payments = {2, 5}
    TopUps = {1}
    Prices = {0, 2}
    InterestDenom = 3
    InterestFrequency = 1
    BalanceCap = 2
    Day = 1
    Grace = 1
    RecallFeeBps = 5
    PrepaymentFeeBps = 4
    LiquidationFeeBps = 1
    PartialCapBps = 5
    BufferBps = 3
    MaxCollateral = 4
INVARIANTS
    EscrowsHoldTheirAmount
    
    CollateralIsHeld
    NoDebtIsLeftBehind
PROPERTIES
    StatusMovesAsDocumented
    DistributionsAreExact
    RecallSparesTheOthers
    RecallIsSettled
CHECK_DEADLOCK FALSE
