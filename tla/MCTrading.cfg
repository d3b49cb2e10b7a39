SPECIFICATION TradingSpec
CONSTANTS
    Lenders = {l1, l2, l3}
    Nobody = Nobody
    MaxListings = 2
    MaxOffers = 1
    Nonces = {1}
    TradeAmounts = {1}
    TradePrices = {5}
    MinListing = 1
    MaxListingLife = 1
    MinTimeLeft = 1
    RatioScale = 100
    TradeFeeBps = 0
    Offers <- Loans
    Amounts = {1, 3}
    OtherDebt = 9
    ListingLife = 1
    Cooldown = 9
    BpsDenom = 10
    ListingFeeBps = 0
    FrontendShareBps = 8
    MaxTime = 2
    Payments = {3}
    TopUps = {}
    Prices = {2}
    InterestDenom = 3
    InterestFrequency = 1
    BalanceCap = 2
    Day = 1
    Grace = 1
    RecallFeeBps = 5
    PrepaymentFeeBps = 4
    LiquidationFeeBps = 1
    PartialCapBps = 5
    BufferBps = 3
    MaxCollateral = 4
INVARIANTS
    PositionsAddUp
    LendersStayWithinCap
    EscrowsAddUp
SYMMETRY LenderSymmetry
CHECK_DEADLOCK FALSE
