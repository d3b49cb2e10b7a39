SPECIFICATION ProposalsSpec
CONSTANTS
    Lenders = {l1, l2}
    Nobody = Nobody
    Borrower = Borrower
    Offers <- Loans
    ProposedTerms <- Texts
    ProposalExpiry = 1
    ProposalCooldown = 9
    MaxProposals = 3
    MaxDemandProposals = 1
    TradeAmounts = {1, 2}
    TradePrices = {5}
    MinListing = 1
    MinTimeLeft = 1
    RatioScale = 100
    TradeFeeBps = 0
    Amounts = {2}
    OtherDebt = 9
    ListingLife = 1
    Cooldown = 9
    BpsDenom = 10
    ListingFeeBps = 0
    FrontendShareBps = 8
    MaxTime = 3
    Payments = {2}
    TopUps = {}
    Prices = {2}
    InterestDenom = 8
    InterestFrequency = 1
    BalanceCap = 2
    Day = 1
    Grace = 1
    RecallFeeBps = 0
    PrepaymentFeeBps = 4
    LiquidationFeeBps = 1
    PartialCapBps = 5
    BufferBps = 3
    MaxCollateral = 4
INVARIANT PendingIsFlagged
CHECK_DEADLOCK FALSE
