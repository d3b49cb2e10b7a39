SPECIFICATION RevolvingSpec
CONSTANTS
    Lenders = {l1, l2}
    Nobody = Nobody
    Offers <- Facilities
    Amounts = {1}
    OtherDebt = 1
    ListingLife = 1
    Cooldown = 9
    BpsDenom = 10
    ListingFeeBps = 0
    FrontendShareBps = 8
    MaxTime = 3
    Payments = {1, 2}
    TopUps = {}
    Prices = {0, 2}
    InterestDenom = 1
    InterestFrequency = 1
    BalanceCap = 2
    Day = 1
    Grace = 1
    RecallFeeBps = 5
    PrepaymentFeeBps = 4
    LiquidationFeeBps = 1
    PartialCapBps = 5
    BufferBps = 3
    MaxCollateral = 4
    StandbyFeeRate = 1
    LtvRatio = 40
INVARIANTS
    FacilityAddsUp
    TotalDebtIsDrawn
    ClosedFacilityCompletes
PROPERTIES
    PastChargesStand
SYMMETRY LenderSymmetry
CHECK_DEADLOCK FALSE
