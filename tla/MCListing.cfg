SPECIFICATION FairListingSpec
CONSTANTS
    Lenders = {l1, l2, l3}
    Nobody = Nobody
    Offers <- ListingOffers
    Amounts = {1, 2, 3}
    OtherDebt = 0
    ListingLife = 2
    Cooldown = 1
    BpsDenom = 10
    ListingFeeBps = 10
    FrontendShareBps = 8
    MaxTime = 4
INVARIANTS
    TypeOK
    FundingIsBacked
    ContributorsAreListed
    ListingHasRoom
PROPERTIES
    LoanIsWhatWasLent
    StatusMovesAsDocumented
    LendersAreRefunded
    RaisesFunds
CHECK_DEADLOCK FALSE
