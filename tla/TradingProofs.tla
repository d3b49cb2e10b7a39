---------------------------- MODULE TradingProofs ----------------------------
(* Theorems about the market for positions and the loan that goes on under *)
(* it, for any lenders, terms, amounts, prices, fees and bounds.           *)
EXTENDS Trading, LoanServicingProofs

ListingType == [exists : BOOLEAN, amount : Nat, expires_at : Nat]

OfferType == [exists : BOOLEAN, amount : Nat, price : Nat, expires_at : Nat]

(* Who owns a part of the loan, by the lenders' accounts k.  Who has sold  *)
(* everything keeps accounts that are not refunded and hold nothing.       *)
OwnersIn(k) ==
    {l \in Lenders : /\ k[l].exists /\ ~k[l].is_refunded
                     /\ k[l].contribution_amount > 0}

(* PositionsAddUp, of given accounts.                                      *)
PositionsFit(c, k) ==
    /\ c.contributions = OwnersIn(k)
    /\ c.funded_amount = AmountTotal(k, c.contributions)
    /\ c.num_contributions = Cardinality(c.contributions)

(* The buyer's account is created empty, so nothing is lost by it.         *)
ClosedEscrowsAreEmpty ==
    \A l \in Lenders : ~escrow[l].exists => escrow[l].escrow_amount = 0

TradingInductive ==
    /\ TypeOK
    /\ contract.last_principal_payment <= now
    /\ listings \in [ListingKeys -> ListingType]
    /\ offers \in [OfferKeys -> OfferType]
    /\ PositionsAddUp
    /\ LendersStayWithinCap
    /\ EscrowsAddUp
    /\ ClosedEscrowsAreEmpty
-----------------------------------------------------------------------------
(* What every step starts from.                                            *)
LEMMA PositionsAre ==
    /\ PositionsAddUp <=> (OnLoan => PositionsFit(contract, contribution))
    /\ PositionsAddUp' <=>
          (OnLoan' => PositionsFit(contract', contribution'))
  <1> DEFINE Owners == {l \in Contributors : contribution[l].contribution_amount > 0}
  <1>1. Owners = OwnersIn(contribution) /\ Owners' = OwnersIn(contribution')
    BY DEF Contributors, OwnersIn
  <1>2. /\ TotalOf(contract.contributions) =
             AmountTotal(contribution, contract.contributions)
        /\ TotalOf(contract.contributions)' =
             AmountTotal(contribution', contract'.contributions)
    BY DEF TotalOf, AmountTotal, MapThenSumSet, MapThenFoldSet
  <1> QED  BY <1>1, <1>2 DEF PositionsAddUp, PositionsFit

LEMMA MarketFacts ==
    ASSUME TradingInductive
    PROVE  /\ TypeOK /\ now \in Nat /\ terms \in Offers
           /\ terms.max_lenders \in Nat
           /\ contract \in ContractType
           /\ contribution \in [Lenders -> ContributionType]
           /\ escrow \in [Lenders -> EscrowType]
           /\ usdc \in Nat /\ collateral \in Nat /\ treasuryUsdc \in Nat
           /\ totalDebt \in Nat
           /\ contract.last_principal_payment <= now
           /\ contract.contributions \subseteq Lenders
           /\ IsFiniteSet(contract.contributions)
           /\ OnLoan => PositionsFit(contract, contribution)
           /\ contract.num_contributions <= terms.max_lenders
  <1>1. TypeOK  BY DEF TradingInductive
  <1>2. terms.max_lenders \in Nat
    BY <1>1, OffersAreValid DEF TypeOK, ValidOffer
  <1>3. contract.contributions \subseteq Lenders
    BY <1>1 DEF TypeOK, ContractType
  <1>4. IsFiniteSet(contract.contributions)
    BY <1>3, LendersAreFinite, FS_Subset
  <1> QED
    BY <1>1, <1>2, <1>3, <1>4, PositionsAre
       DEF TypeOK, TradingInductive, LendersStayWithinCap

(* Every lender of the loan has a part of it, and no more than all.        *)
LEMMA PositionIsPart ==
    ASSUME TradingInductive, OnLoan, NEW l \in contract.contributions
    PROVE  /\ l \in Lenders /\ StakesAddUp /\ StakeFits(l)
           /\ contribution[l].contribution_amount > 0
  <1>1. /\ contract.contributions \subseteq Lenders
        /\ IsFiniteSet(contract.contributions)
        /\ contract.contributions = OwnersIn(contribution)
        /\ contract.funded_amount =
             AmountTotal(contribution, contract.contributions)
        /\ contribution \in [Lenders -> ContributionType]
        /\ contract.funded_amount \in Nat
    BY MarketFacts DEF PositionsFit, ContractType
  <1>2. /\ contribution[l].contribution_amount \in Nat
        /\ contribution[l].contribution_amount > 0
    BY <1>1 DEF OwnersIn, ContributionType
  <1>3. contribution[l].contribution_amount <= contract.funded_amount
    <2>1. \A k \in contract.contributions \ {l} :
             contribution[k].contribution_amount =
               contribution[k].contribution_amount
      OBVIOUS
    <2>2. contribution[l].contribution_amount <=
            AmountTotal(contribution, contract.contributions)
      BY <1>1, <2>1, AmountLeaves
    <2> QED  BY <1>1, <2>2
  <1>4. contract.funded_amount \in Nat \ {0}  BY <1>1, <1>2, <1>3
  <1> QED
    BY <1>1, <1>2, <1>3, <1>4 DEF StakesAddUp, StakeFits

(* A step that leaves the lenders and their parts alone.                   *)
LEMMA PositionsStay ==
    ASSUME TradingInductive, OnLoan' => OnLoan,
           UNCHANGED <<contribution, terms>>,
           contract'.funded_amount = contract.funded_amount,
           contract'.num_contributions = contract.num_contributions,
           contract'.contributions = contract.contributions
    PROVE  PositionsAddUp' /\ LendersStayWithinCap'
  BY MarketFacts, PositionsAre DEF PositionsFit, LendersStayWithinCap

-----------------------------------------------------------------------------
(* The escrows' books and tokens, taken together.                          *)
BookedTotal(e) == MapThenSumSet(LAMBDA l : e[l].escrow_amount, Lenders)

BookedOf(e) == [l \in Lenders |-> e[l].escrow_amount]

LEMMA BookedTotalIs ==
    ASSUME NEW e
    PROVE  BookedTotal(e) = Total(BookedOf(e), Lenders)
  <1> DEFINE f == BookedOf(e)
             Step(g, s) == IF s = {} THEN 0
                           ELSE e[Picked(s)].escrow_amount + g[s \ {Picked(s)}]
             IsStep(g) == g = [s \in SUBSET Lenders |-> Step(g, s)]
  <1>1. BookedTotal(e) = (CHOOSE g : IsStep(g))[Lenders]
    BY DEF BookedTotal, MapThenSumSet, MapThenFoldSet, Picked
  <1>2. \A g : \A s \in SUBSET Lenders : NextSum(f, g, s) = Step(g, s)
    BY DEF NextSum, Picked, BookedOf
  <1> HIDE DEF f, Step
  <1>3. \A g : IsSum(f, Lenders, g) <=> IsStep(g)  BY <1>2 DEF IsSum
  <1>4. PICK g : IsSum(f, Lenders, g)  BY LendersAreFinite, SumExists
  <1>5. \E h : IsStep(h)  BY <1>3, <1>4
  <1> HIDE DEF IsStep
  <1>6. IsStep(CHOOSE h : IsStep(h))  BY <1>5
  <1>7. IsSum(f, Lenders, CHOOSE h : IsStep(h))  BY <1>3, <1>6
  <1> QED  BY <1>1, <1>7, LendersAreFinite, TotalIs DEF f

EscrowsFit(e) == Total(BookedOf(e), Lenders) = Total(UsdcOf(e), Lenders)

LEMMA EscrowsFitIs ==
    /\ EscrowsAddUp <=> EscrowsFit(escrow)
    /\ EscrowsAddUp' <=> EscrowsFit(escrow')
  <1>1. /\ EscrowsAddUp <=> BookedTotal(escrow) = UsdcTotal(escrow)
        /\ EscrowsAddUp' <=> BookedTotal(escrow') = UsdcTotal(escrow')
    BY DEF EscrowsAddUp, EscrowTotal, BookedTotal, UsdcTotal, MapThenSumSet,
           MapThenFoldSet
  <1> QED  BY <1>1, BookedTotalIs, UsdcTotalIs DEF EscrowsFit

(* What goes into an escrow, or out of it, is booked.                      *)
Gains(e, d, gain) ==
    \A l \in Lenders :
        /\ gain[l] \in Nat
        /\ d[l].escrow_amount = e[l].escrow_amount + gain[l]
        /\ d[l].usdc = e[l].usdc + gain[l]

LEMMA GainsAreBooked ==
    ASSUME NEW e \in [Lenders -> EscrowType], NEW d \in [Lenders -> EscrowType],
           NEW gain, Gains(e, d, gain)
    PROVE  EscrowsFit(e) <=> EscrowsFit(d)
  <1> DEFINE eb == BookedOf(e)
             eu == UsdcOf(e)
             db == BookedOf(d)
             du == UsdcOf(d)
  <1>1. ASSUME NEW l \in Lenders
        PROVE  /\ eb[l] \in Nat /\ eu[l] \in Nat /\ gain[l] \in Nat
               /\ db[l] = eb[l] + gain[l] /\ du[l] = eu[l] + gain[l]
    BY DEF Gains, BookedOf, UsdcOf, EscrowType
  <1>2. EscrowsFit(e) <=> Total(eb, Lenders) = Total(eu, Lenders)
    BY DEF EscrowsFit
  <1>3. EscrowsFit(d) <=> Total(db, Lenders) = Total(du, Lenders)
    BY DEF EscrowsFit
  <1> HIDE DEF eb, eu, db, du
  <1>4. /\ Total(db, Lenders) = Total(eb, Lenders) + Total(gain, Lenders)
        /\ Total(du, Lenders) = Total(eu, Lenders) + Total(gain, Lenders)
    BY <1>1, LendersAreFinite, TotalPlus
  <1>5. /\ Total(eb, Lenders) \in Nat /\ Total(eu, Lenders) \in Nat
        /\ Total(gain, Lenders) \in Nat
    BY <1>1, LendersAreFinite, TotalType
  <1> QED  BY <1>2, <1>3, <1>4, <1>5

-----------------------------------------------------------------------------
(* What of a balance goes with a part of a position.                       *)
LEMMA SplitFits ==
    ASSUME NEW balance \in Nat, NEW amount \in Nat, NEW total \in Nat \ {0},
           amount <= total
    PROVE  SplitOff(balance, amount, total) \in Nat
           /\ SplitOff(balance, amount, total) <= balance
  <1> DEFINE ratio == (amount * RatioScale) \div total
             split == (balance * ratio) \div RatioScale
  <1>1. RatioScale \in Nat \ {0}  BY PositionConstants
  <1>2. ratio \in Nat /\ ratio <= RatioScale
    <2>1. ratio = Share(amount, total, RatioScale)  BY DEF Share
    <2> HIDE DEF ratio
    <2>2. RatioScale \in Nat  BY <1>1
    <2> QED  BY <2>1, <2>2, ShareFits
  <1>3. SplitOff(balance, amount, total) = split  BY DEF SplitOff
  <1> HIDE DEF ratio
  <1>4. split \in Nat /\ split <= balance
    <2>1. \A a, b \in Nat : a * b = b * a  OBVIOUS
    <2>2. split = Share(ratio, RatioScale, balance)
      BY <1>2, <2>1 DEF Share
    <2> HIDE DEF split
    <2> QED  BY <1>1, <1>2, <2>2, ShareFits
  <1> QED  BY <1>3, <1>4

(* The books of the seller's escrow are split, not its tokens.             *)
LEMMA SplitEscrowIs ==
    ASSUME NEW e \in EscrowType, NEW amount \in Nat, NEW total \in Nat \ {0},
           amount <= total
    PROVE  /\ SplitEscrow(e, amount, total) \in EscrowType
           /\ SplitEscrow(e, amount, total).exists = e.exists
           /\ SplitEscrow(e, amount, total).usdc = e.usdc
           /\ SplitEscrow(e, amount, total).escrow_amount =
                e.escrow_amount - SplitOff(e.escrow_amount, amount, total)
  <1> DEFINE a == e.escrow_amount - SplitOff(e.escrow_amount, amount, total)
             i == e.available_interest
                    - SplitOff(e.available_interest, amount, total)
             p == e.available_principal
                    - SplitOff(e.available_principal, amount, total)
  <1>1. a \in Nat /\ i \in Nat /\ p \in Nat
    <2>1. ASSUME NEW balance \in Nat
          PROVE  balance - SplitOff(balance, amount, total) \in Nat
      BY SplitFits
    <2>2. /\ e.escrow_amount \in Nat /\ e.available_interest \in Nat
          /\ e.available_principal \in Nat
      BY DEF EscrowType
    <2> QED  BY <2>1, <2>2
  <1>2. SplitEscrow(e, amount, total) =
          [e EXCEPT !.escrow_amount = a, !.available_interest = i,
                    !.available_principal = p]
    BY DEF SplitEscrow
  <1> HIDE DEF a, i, p
  <1>3. SplitEscrow(e, amount, total) \in EscrowType
    BY <1>1, <1>2 DEF EscrowType
  <1>4. /\ SplitEscrow(e, amount, total).exists = e.exists
        /\ SplitEscrow(e, amount, total).usdc = e.usdc
        /\ SplitEscrow(e, amount, total).escrow_amount = a
    BY <1>2 DEF EscrowType
  <1> QED  BY <1>3, <1>4 DEF a

(* Books that move from one escrow to another, whose books were empty.     *)
LEMMA MovedBooksFit ==
    ASSUME NEW e \in [Lenders -> EscrowType], NEW d \in [Lenders -> EscrowType],
           NEW seller \in Lenders, NEW buyer \in Lenders, seller # buyer,
           NEW moved \in Nat,
           moved <= e[seller].escrow_amount, e[buyer].escrow_amount = 0,
           d[seller].escrow_amount = e[seller].escrow_amount - moved,
           d[buyer].escrow_amount = moved,
           \A l \in Lenders \ {seller, buyer} :
              d[l].escrow_amount = e[l].escrow_amount,
           \A l \in Lenders : d[l].usdc = e[l].usdc
    PROVE  EscrowsFit(e) => EscrowsFit(d)
  <1> DEFINE f == BookedOf(e)
             g == BookedOf(d)
             less == [f EXCEPT ![seller] = @ - moved]
  <1>1. /\ \A l \in Lenders : f[l] \in Nat /\ g[l] \in Nat
        /\ f[seller] >= moved /\ f[buyer] = 0
        /\ g[seller] = f[seller] - moved /\ g[buyer] = moved
        /\ \A l \in Lenders \ {seller, buyer} : g[l] = f[l]
        /\ f = [l \in Lenders |-> f[l]]
    BY DEF BookedOf, EscrowType
  <1>2. Total(UsdcOf(d), Lenders) = Total(UsdcOf(e), Lenders)
    <2>1. \A l \in Lenders : UsdcOf(d)[l] = UsdcOf(e)[l]  BY DEF UsdcOf
    <2> QED  BY <2>1, LendersAreFinite, TotalAgrees
  <1>3. /\ EscrowsFit(e) <=> Total(f, Lenders) = Total(UsdcOf(e), Lenders)
        /\ EscrowsFit(d) <=> Total(g, Lenders) = Total(UsdcOf(d), Lenders)
    BY DEF EscrowsFit
  <1> HIDE DEF f, g
  <1>4. /\ \A l \in Lenders : less[l] \in Nat
        /\ less[seller] = f[seller] - moved /\ less[buyer] = 0
        /\ \A l \in Lenders \ {seller} : less[l] = f[l]
        /\ \A l \in Lenders \ {buyer} : g[l] = less[l]
    BY <1>1
  <1> HIDE DEF less
  <1>5. /\ Total(f, Lenders) \in Nat /\ Total(less, Lenders) \in Nat
        /\ Total(less, Lenders) = Total(f, Lenders) - f[seller] + less[seller]
    <2>1. \A l \in Lenders : f[l] \in Nat  BY <1>1
    <2>2. \A l \in Lenders : less[l] \in Nat  BY <1>4
    <2>3. \A l \in Lenders \ {seller} : less[l] = f[l]  BY <1>4
    <2> QED  BY <2>1, <2>2, <2>3, LendersAreFinite, TotalChange
  <1>6. /\ Total(g, Lenders) \in Nat
        /\ Total(g, Lenders) = Total(less, Lenders) - less[buyer] + g[buyer]
    <2>1. \A l \in Lenders : g[l] \in Nat  BY <1>1
    <2>2. \A l \in Lenders : less[l] \in Nat  BY <1>4
    <2>3. \A l \in Lenders \ {buyer} : g[l] = less[l]  BY <1>4
    <2> QED  BY <2>1, <2>2, <2>3, LendersAreFinite, TotalChange
  <1>7. f[seller] \in Nat  BY <1>1
  <1>8. Total(g, Lenders) = Total(f, Lenders)
    BY <1>1, <1>4, <1>5, <1>6, <1>7
  <1> QED  BY <1>2, <1>3, <1>8

-----------------------------------------------------------------------------
(* A part of what the lenders S have goes from one of them to another.     *)
PartMoves(c, d, S, seller, buyer, amount) ==
    /\ c \in [Lenders -> ContributionType]
    /\ d \in [Lenders -> ContributionType]
    /\ S \subseteq Lenders /\ IsFiniteSet(S)
    /\ seller \in S /\ buyer \in Lenders \ S
    /\ amount \in Nat /\ amount <= c[seller].contribution_amount
    /\ d[seller].contribution_amount = c[seller].contribution_amount - amount
    /\ d[buyer].contribution_amount = amount
    /\ \A l \in S \ {seller} :
          d[l].contribution_amount = c[l].contribution_amount

LEMMA PartsMove ==
    ASSUME NEW c, NEW d, NEW S, NEW seller, NEW buyer, NEW amount,
           PartMoves(c, d, S, seller, buyer, amount)
    PROVE  /\ AmountTotal(d, S \union {buyer}) = AmountTotal(c, S)
           /\ amount = c[seller].contribution_amount =>
                AmountTotal(d, (S \ {seller}) \union {buyer}) =
                  AmountTotal(c, S)
  <1> DEFINE R == S \ {seller}
             all == AmountTotal(c, S)
             rest == AmountTotal(d, R)
             total == c[seller].contribution_amount
             left == d[seller].contribution_amount
  <1>0. /\ c \in [Lenders -> ContributionType]
        /\ d \in [Lenders -> ContributionType]
        /\ S \subseteq Lenders /\ IsFiniteSet(S)
        /\ seller \in S /\ buyer \in Lenders \ S
        /\ amount \in Nat /\ amount <= total /\ left = total - amount
        /\ d[buyer].contribution_amount = amount
        /\ \A l \in S \ {seller} :
              d[l].contribution_amount = c[l].contribution_amount
    BY DEF PartMoves
  <1>1. /\ R \subseteq Lenders /\ IsFiniteSet(R) /\ seller \in Lenders \ R
        /\ R \union {seller} = S
    BY <1>0, FS_RemoveElement
  <1>2. rest = all - total  BY <1>0, AmountLeaves
  <1>3. all \in Nat /\ rest \in Nat /\ total \in Nat
    BY <1>0, <1>1, AmountTotalType DEF ContributionType
  <1>4. \A k : d[k].contribution_amount = d[k].contribution_amount
    OBVIOUS
  <1> HIDE DEF R
  <1>5. AmountTotal(d, R \union {seller}) = rest + left
    BY <1>0, <1>1, <1>4, AmountJoins
  <1>6. AmountTotal(d, S) = all - amount
    <2>1. AmountTotal(d, S) = rest + left  BY <1>1, <1>5
    <2> HIDE DEF all, rest, total, left
    <2> QED  BY <1>0, <1>2, <1>3, <2>1
  <1>7. ASSUME NEW kept \in {S, R}
        PROVE  AmountTotal(d, kept \union {buyer}) =
                 AmountTotal(d, kept) + amount
    <2>1. /\ kept \subseteq Lenders /\ IsFiniteSet(kept)
          /\ buyer \in Lenders \ kept
      BY <1>0, <1>1 DEF R
    <2> QED  BY <1>0, <1>4, <2>1, AmountJoins
  <1>8. AmountTotal(d, S \union {buyer}) = all
    <2> HIDE DEF all
    <2> QED  BY <1>0, <1>3, <1>6, <1>7
  <1>9. amount = total => AmountTotal(d, R \union {buyer}) = all
    <2>1. AmountTotal(d, R \union {buyer}) = rest + amount  BY <1>7
    <2> HIDE DEF all, rest, total
    <2> QED  BY <1>0, <1>2, <1>3, <2>1
  <1> QED  BY <1>8, <1>9 DEF all, total, R

-----------------------------------------------------------------------------
(* A part of a position, or all of it, goes to a buyer.                    *)
LEMMA TransferKeepsPositions ==
    ASSUME TradingInductive, contract.status = "Active",
           NEW seller \in Lenders, NEW buyer \in Lenders, NEW amount \in Nat,
           MayDivide(contribution[seller].contribution_amount, amount),
           ExecutePositionTransfer(seller, buyer, amount)
    PROVE  /\ contract' \in ContractType
           /\ contribution' \in [Lenders -> ContributionType]
           /\ contract'.last_principal_payment =
                contract.last_principal_payment
           /\ PositionsAddUp'
           /\ contract'.num_contributions <= terms.max_lenders
  <1> DEFINE S == contract.contributions
             total == contribution[seller].contribution_amount
             left == total - amount
             lenders == SyncContributions(seller, buyer, left)
             number == Cardinality(lenders)
             bought == [exists |-> TRUE, contribution_amount |-> amount,
                        is_refunded |-> FALSE, last_contributed_at |-> now]
             R == S \ {seller}
             c == contribution
             d == contribution'
  <1>1. /\ ~contribution[buyer].exists /\ contribution[seller].exists
        /\ seller \in S /\ amount > 0 /\ amount <= total
        /\ amount < total => contract.num_contributions < terms.max_lenders
        /\ contribution' = [contribution EXCEPT
              ![seller].contribution_amount = left, ![buyer] = bought]
        /\ contract' = [contract EXCEPT !.contributions = lenders,
                                        !.num_contributions = number]
    BY DEF ExecutePositionTransfer, MayDivide
  <1>2. /\ OnLoan /\ PositionsFit(contract, contribution)
        /\ contract \in ContractType /\ now \in Nat
        /\ c \in [Lenders -> ContributionType]
        /\ S \subseteq Lenders /\ IsFiniteSet(S)
        /\ terms.max_lenders \in Nat
        /\ contract.num_contributions <= terms.max_lenders
    BY MarketFacts DEF OnLoan
  <1>3. /\ total \in Nat /\ S = OwnersIn(c)
        /\ contract.num_contributions = Cardinality(S)
        /\ contract.funded_amount = AmountTotal(c, S)
    BY <1>1, <1>2 DEF ContributionType, PositionsFit
  <1>4. /\ left \in Nat /\ left = total - amount
        /\ left = 0 <=> amount = total
        /\ left # 0 => left > 0 /\ amount < total
    <2> HIDE DEF total
    <2> QED  BY <1>1, <1>3
  <1> HIDE DEF left
  <1>5. buyer \notin S /\ buyer # seller  BY <1>1, <1>3 DEF OwnersIn
  <1>6. bought \in ContributionType  BY <1>2 DEF ContributionType
  <1>7. d \in [Lenders -> ContributionType]
        /\ d[buyer] = bought
        /\ d[seller] = [c[seller] EXCEPT !.contribution_amount = left]
        /\ d[seller].contribution_amount = left
        /\ d[seller].exists = c[seller].exists
        /\ d[seller].is_refunded = c[seller].is_refunded
        /\ \A l \in Lenders \ {seller, buyer} : d[l] = c[l]
    <2> HIDE DEF bought
    <2>1. [c[seller] EXCEPT !.contribution_amount = left] \in ContributionType
      BY <1>2, <1>4 DEF ContributionType
    <2> QED  BY <1>1, <1>2, <1>5, <1>6, <2>1 DEF ContributionType
  <1>8. lenders = (IF left = 0 THEN R ELSE S) \union {buyer}
    BY DEF SyncContributions
  <1>9. lenders \subseteq Lenders /\ IsFiniteSet(lenders) /\ number \in Nat
    <2>1. lenders \subseteq Lenders  BY <1>2, <1>8
    <2>2. IsFiniteSet(lenders)  BY <2>1, LendersAreFinite, FS_Subset
    <2> HIDE DEF lenders
    <2> QED  BY <2>1, <2>2, FS_CardinalityType
  <1>10. /\ contract' \in ContractType
        /\ contract'.contributions = lenders
        /\ contract'.num_contributions = number
        /\ contract'.funded_amount = contract.funded_amount
        /\ contract'.last_principal_payment = contract.last_principal_payment
    <2> HIDE DEF lenders, number
    <2>1. contract' \in ContractType
      BY <1>1, <1>2, <1>9, ZenonT(40) DEF ContractType
    <2> QED  BY <1>1, <1>2, <2>1 DEF ContractType
  <1>11. lenders = OwnersIn(d)
    <2>1. \A l \in Lenders \ {seller, buyer} :
             l \in OwnersIn(d) <=> l \in OwnersIn(c)
      BY <1>7 DEF OwnersIn
    <2>2. buyer \in OwnersIn(d)  BY <1>1, <1>7 DEF OwnersIn
    <2>3. seller \in OwnersIn(d) <=> left # 0
      <3>1. c[seller].exists /\ ~c[seller].is_refunded
        BY <1>1, <1>3 DEF OwnersIn
      <3>2. d[seller].exists /\ ~d[seller].is_refunded
        BY <1>7, <3>1
      <3>3. d[seller].contribution_amount > 0 <=> left # 0
        BY <1>4, <1>7
      <3> HIDE DEF d
      <3> QED  BY <3>2, <3>3 DEF OwnersIn
    <2>4. OwnersIn(d) \subseteq Lenders  BY DEF OwnersIn
    <2> HIDE DEF lenders, left, d, S
    <2> QED  BY <1>1, <1>2, <1>3, <1>5, <1>8, <2>1, <2>2, <2>3, <2>4
  <1>12. AmountTotal(d, lenders) = AmountTotal(c, S)
    <2>1. PartMoves(c, d, S, seller, buyer, amount)
      <3>1. /\ seller \in S /\ buyer \in Lenders \ S
            /\ amount <= c[seller].contribution_amount
            /\ d[seller].contribution_amount =
                 c[seller].contribution_amount - amount
            /\ d[buyer].contribution_amount = amount
        BY <1>1, <1>4, <1>5, <1>7
      <3>2. \A l \in S \ {seller} :
               d[l].contribution_amount = c[l].contribution_amount
        BY <1>2, <1>5, <1>7
      <3> QED  BY <1>2, <1>7, <3>1, <3>2 DEF PartMoves
    <2>2. /\ AmountTotal(d, S \union {buyer}) = AmountTotal(c, S)
          /\ amount = c[seller].contribution_amount =>
               AmountTotal(d, R \union {buyer}) = AmountTotal(c, S)
      BY <2>1, PartsMove
    <2> QED  BY <1>4, <1>8, <2>2
  <1>13. PositionsAddUp'
    <2>1. PositionsFit(contract', d)
      BY <1>3, <1>10, <1>11, <1>12 DEF PositionsFit
    <2> QED  BY <2>1, PositionsAre
  <1>14. number <= terms.max_lenders
    <2>1. CASE left = 0
      <3>1. /\ IsFiniteSet(R) /\ Cardinality(R) = Cardinality(S) - 1
            /\ Cardinality(S) \in Nat
        BY <1>1, <1>2, FS_RemoveElement, FS_CardinalityType
      <3>2. buyer \notin R  BY <1>5
      <3>3. lenders = R \union {buyer}  BY <1>8, <2>1
      <3> HIDE DEF R, lenders
      <3>4. Cardinality(R \union {buyer}) = Cardinality(R) + 1
        BY <3>1, <3>2, FS_AddElement
      <3>5. number = Cardinality(S)  BY <3>1, <3>3, <3>4
      <3> QED  BY <1>2, <1>3, <3>5
    <2>2. CASE left # 0
      <3>1. lenders = S \union {buyer}  BY <1>8, <2>2
      <3>2. Cardinality(S) \in Nat  BY <1>2, FS_CardinalityType
      <3>3. amount < total  BY <1>4, <2>2
      <3> HIDE DEF lenders, S
      <3>4. Cardinality(S \union {buyer}) = Cardinality(S) + 1
        BY <1>2, <1>5, FS_AddElement
      <3>5. number = Cardinality(S) + 1  BY <3>1, <3>4
      <3>6. Cardinality(S) < terms.max_lenders
        BY <1>1, <1>3, <3>3 DEF S
      <3> QED  BY <1>2, <3>2, <3>5, <3>6
    <2> QED  BY <2>1, <2>2
  <1> QED  BY <1>7, <1>10, <1>13, <1>14

LEMMA TransferKeepsEscrows ==
    ASSUME TradingInductive, NEW seller \in Lenders, NEW buyer \in Lenders,
           NEW amount \in Nat,
           MayDivide(contribution[seller].contribution_amount, amount),
           ExecutePositionTransfer(seller, buyer, amount)
    PROVE  /\ escrow' \in [Lenders -> EscrowType]
           /\ EscrowsAddUp' /\ ClosedEscrowsAreEmpty'
  <1> DEFINE total == contribution[seller].contribution_amount
             from == escrow[seller]
             moved == SplitOff(from.escrow_amount, amount, total)
             interest == SplitOff(from.available_interest, amount, total)
             principal == SplitOff(from.available_principal, amount, total)
             there == escrow[buyer].usdc
             sold == SplitEscrow(from, amount, total)
             bought == [exists |-> TRUE, usdc |-> there,
                        escrow_amount |-> moved,
                        available_interest |-> interest,
                        available_principal |-> principal]
  <1>1. /\ amount > 0 /\ amount <= total
        /\ ~contribution[buyer].exists /\ contribution[seller].exists
        /\ ~escrow[buyer].exists /\ from.exists
        /\ escrow' = [escrow EXCEPT ![seller] = sold, ![buyer] = bought]
    BY DEF ExecutePositionTransfer, MayDivide
  <1>2. /\ escrow \in [Lenders -> EscrowType]
        /\ contribution \in [Lenders -> ContributionType]
        /\ EscrowsAddUp /\ escrow[buyer].escrow_amount = 0
        /\ \A l \in Lenders : ~escrow[l].exists => escrow[l].escrow_amount = 0
    BY <1>1, MarketFacts DEF TradingInductive, ClosedEscrowsAreEmpty
  <1>3. /\ total \in Nat \ {0} /\ from \in EscrowType /\ seller # buyer
        /\ there \in Nat /\ from.escrow_amount \in Nat
        /\ from.available_interest \in Nat /\ from.available_principal \in Nat
    <2>1. total \in Nat  BY <1>2 DEF ContributionType
    <2>2. total # 0  BY <1>1, <2>1
    <2> HIDE DEF total
    <2> QED  BY <1>1, <1>2, <2>1, <2>2 DEF EscrowType
  <1>4. /\ moved \in Nat /\ moved <= from.escrow_amount
        /\ interest \in Nat /\ principal \in Nat
    BY <1>1, <1>3, SplitFits
  <1>5. /\ sold \in EscrowType /\ sold.exists = from.exists
        /\ sold.usdc = from.usdc
        /\ sold.escrow_amount = from.escrow_amount - moved
    <2>1. amount <= total  BY <1>1
    <2> HIDE DEF total, from
    <2> QED  BY <1>3, <2>1, SplitEscrowIs
  <1> HIDE DEF moved, interest, principal, there, sold
  <1>6. /\ bought \in EscrowType /\ bought.exists /\ bought.usdc = there
        /\ bought.escrow_amount = moved
    BY <1>3, <1>4 DEF EscrowType
  <1> HIDE DEF bought
  <1>7. /\ escrow' \in [Lenders -> EscrowType]
        /\ escrow'[seller] = sold /\ escrow'[buyer] = bought
        /\ \A l \in Lenders \ {seller, buyer} : escrow'[l] = escrow[l]
    BY <1>1, <1>2, <1>3, <1>5, <1>6
  <1>8. \A l \in Lenders : escrow'[l].usdc = escrow[l].usdc
    BY <1>5, <1>6, <1>7 DEF there
  <1>9. EscrowsFit(escrow) => EscrowsFit(escrow')
    <2>1. /\ escrow'[seller].escrow_amount =
               escrow[seller].escrow_amount - moved
          /\ escrow'[buyer].escrow_amount = moved
          /\ moved <= escrow[seller].escrow_amount
          /\ \A l \in Lenders \ {seller, buyer} :
                escrow'[l].escrow_amount = escrow[l].escrow_amount
      BY <1>4, <1>5, <1>6, <1>7
    <2> QED
      BY <1>2, <1>3, <1>4, <1>7, <1>8, <2>1, MovedBooksFit
  <1>10. ClosedEscrowsAreEmpty'
    BY <1>1, <1>2, <1>5, <1>6, <1>7 DEF ClosedEscrowsAreEmpty
  <1> QED  BY <1>2, <1>7, <1>9, <1>10, EscrowsFitIs

(* The fees of both sides, less what a frontend gets of them.              *)
LEMMA TradeFeesType ==
    ASSUME NEW price \in Nat, NEW frontend \in BOOLEAN, treasuryUsdc \in Nat,
           HandlePaymentTransfer(price, frontend)
    PROVE  treasuryUsdc' \in Nat
  <1> DEFINE half == BpsOf(price, TradeFeeBps)
             fee == 2 * half
             frontendShare == IF frontend THEN BpsOf(fee, FrontendShareBps)
                              ELSE 0
  <1>1. treasuryUsdc' = treasuryUsdc + fee - frontendShare
    BY DEF HandlePaymentTransfer
  <1>2. /\ TradeFeeBps \in Nat /\ FrontendShareBps \in Nat
        /\ FrontendShareBps <= BpsDenom
    BY PositionConstants, ConstantsAreNumbers
  <1>3. half \in Nat  BY <1>2, BpsIsNat
  <1> HIDE DEF half
  <1>4. fee \in Nat  BY <1>3
  <1> HIDE DEF fee
  <1>5. BpsOf(fee, FrontendShareBps) \in Nat
        /\ BpsOf(fee, FrontendShareBps) <= fee
    BY <1>2, <1>4, BpsIsNat
  <1>6. frontendShare \in Nat /\ frontendShare <= fee  BY <1>4, <1>5
  <1> HIDE DEF frontendShare
  <1> QED  BY <1>1, <1>4, <1>6

LEMMA TransferKeeps ==
    ASSUME TradingInductive, contract.status = "Active",
           NEW seller \in Lenders, NEW buyer \in Lenders, NEW amount \in Nat,
           NEW price \in Nat, NEW frontend \in BOOLEAN,
           MayDivide(contribution[seller].contribution_amount, amount),
           ExecutePositionTransfer(seller, buyer, amount),
           HandlePaymentTransfer(price, frontend),
           UNCHANGED <<now, isPaused, terms, approved, usdc, collateral,
                       totalDebt>>,
           listings' \in [ListingKeys -> ListingType],
           offers' \in [OfferKeys -> OfferType]
    PROVE  TradingInductive'
  <1>1. /\ contract' \in ContractType
        /\ contribution' \in [Lenders -> ContributionType]
        /\ contract'.last_principal_payment <= now'
        /\ PositionsAddUp' /\ LendersStayWithinCap'
    BY MarketFacts, TransferKeepsPositions DEF LendersStayWithinCap
  <1>2. /\ escrow' \in [Lenders -> EscrowType]
        /\ EscrowsAddUp' /\ ClosedEscrowsAreEmpty'
    BY TransferKeepsEscrows
  <1>3. treasuryUsdc' \in Nat  BY MarketFacts, TradeFeesType
  <1>4. TypeOK'  BY <1>1, <1>2, <1>3, MarketFacts DEF TypeOK
  <1> QED  BY <1>1, <1>2, <1>4 DEF TradingInductive

-----------------------------------------------------------------------------
(* Listings and offers of positions leave the loan alone.                  *)
LEMMA MarketFactsStay ==
    ASSUME TradingInductive, UNCHANGED vars,
           listings' \in [ListingKeys -> ListingType],
           offers' \in [OfferKeys -> OfferType]
    PROVE  TradingInductive'
  <1>1. TypeOK'  BY DEF vars, TradingInductive, TypeOK
  <1>2. PositionsAddUp' /\ LendersStayWithinCap'
    BY PositionsStay DEF vars, OnLoan
  <1>3. EscrowsAddUp' /\ ClosedEscrowsAreEmpty'
    BY EscrowsFitIs DEF vars, TradingInductive, ClosedEscrowsAreEmpty
  <1> QED  BY <1>1, <1>2, <1>3 DEF TradingInductive, vars

LEMMA MarketStepKeeps ==
    ASSUME TradingInductive, MarketStep
    PROVE  TradingInductive'
  <1>0. /\ listings \in [ListingKeys -> ListingType]
        /\ offers \in [OfferKeys -> OfferType]
        /\ now \in Nat /\ TradeAmounts \subseteq Nat /\ TradePrices \subseteq Nat
    BY MarketFacts, PositionConstants DEF TradingInductive
  <1>1. NoListing \in ListingType /\ NoOffer \in OfferType
    BY DEF NoListing, NoOffer, ListingType, OfferType
  <1>2. ASSUME NEW l \in Lenders, NEW n \in Nonces, NEW amount \in TradeAmounts,
               NEW life \in 1 .. MaxListingLife,
               CreateTradeListing(l, n, amount, now + life)
        PROVE  TradingInductive'
    <2> DEFINE new == [exists |-> TRUE, amount |-> amount,
                       expires_at |-> now + life]
    <2>1. new \in ListingType  BY <1>0 DEF ListingType
    <2>2. listings' = [listings EXCEPT ![<<l, n>>] = new]
      BY <1>2 DEF CreateTradeListing
    <2> HIDE DEF new
    <2>3. listings' \in [ListingKeys -> ListingType]  BY <1>0, <2>1, <2>2
    <2> QED  BY <1>0, <1>2, <2>3, MarketFactsStay DEF CreateTradeListing
  <1>3. ASSUME NEW key \in ListingKeys, NEW buyer \in Lenders,
               NEW price \in TradePrices, NEW life \in 1 .. MaxListingLife,
               CreateTradeOffer(key, buyer, price, now + life)
        PROVE  TradingInductive'
    <2> DEFINE new == [exists |-> TRUE, amount |-> listings[key].amount,
                       price |-> price, expires_at |-> now + life]
    <2>1. new \in OfferType
      <3>1. listings[key].amount \in Nat  BY <1>0 DEF ListingType
      <3> QED  BY <1>0, <3>1 DEF OfferType
    <2>2. offers' = [offers EXCEPT ![<<key, buyer>>] = new]
      BY <1>3 DEF CreateTradeOffer
    <2> HIDE DEF new
    <2>3. offers' \in [OfferKeys -> OfferType]  BY <1>0, <2>1, <2>2
    <2> QED  BY <1>0, <1>3, <2>3, MarketFactsStay DEF CreateTradeOffer
  <1>4. ASSUME NEW key \in ListingKeys, NEW buyer \in Lenders,
               NEW frontend \in BOOLEAN, AcceptTradeOffer(key, buyer, frontend)
        PROVE  TradingInductive'
    <2> DEFINE seller == key[1]
               offer == offers[<<key, buyer>>]
    <2>1. /\ contract.status = "Active"
          /\ MayDivide(contribution[seller].contribution_amount, offer.amount)
          /\ ExecutePositionTransfer(seller, buyer, offer.amount)
          /\ HandlePaymentTransfer(offer.price, frontend)
          /\ listings' = [listings EXCEPT ![key] = NoListing]
          /\ offers' = [offers EXCEPT ![<<key, buyer>>] = NoOffer]
          /\ UNCHANGED <<now, isPaused, terms, approved, usdc, collateral,
                         totalDebt>>
      BY <1>4 DEF AcceptTradeOffer
    <2>2. seller \in Lenders  BY DEF ListingKeys
    <2>3. offer \in OfferType  BY <1>0 DEF OfferKeys
    <2> HIDE DEF seller, offer
    <2>4. offer.amount \in Nat /\ offer.price \in Nat  BY <2>3 DEF OfferType
    <2>5. listings' \in [ListingKeys -> ListingType]  BY <1>0, <1>1, <2>1
    <2>6. offers' \in [OfferKeys -> OfferType]  BY <1>0, <1>1, <2>1
    <2> QED  BY <2>1, <2>2, <2>4, <2>5, <2>6, TransferKeeps
  <1>5. ASSUME NEW key \in ListingKeys, NEW buyer \in Lenders,
               CancelOrphanedTradeOffer(key, buyer)
        PROVE  TradingInductive'
    <2>1. offers' = [offers EXCEPT ![<<key, buyer>>] = NoOffer]
      BY <1>5 DEF CancelOrphanedTradeOffer
    <2>2. offers' \in [OfferKeys -> OfferType]  BY <1>0, <1>1, <2>1
    <2> QED  BY <1>0, <1>5, <2>2, MarketFactsStay DEF CancelOrphanedTradeOffer
  <1>6. ASSUME NEW seller \in Lenders, NEW buyer \in Lenders,
               NEW amount \in TradeAmounts, NEW price \in TradePrices,
               NEW frontend \in BOOLEAN,
               TransferLenderPosition(seller, buyer, amount, price, frontend)
        PROVE  TradingInductive'
    <2>1. /\ contract.status = "Active"
          /\ MayDivide(contribution[seller].contribution_amount, amount)
          /\ ExecutePositionTransfer(seller, buyer, amount)
          /\ HandlePaymentTransfer(price, frontend)
          /\ UNCHANGED <<now, isPaused, terms, approved, usdc, collateral,
                         totalDebt>>
          /\ UNCHANGED <<listings, offers>>
      BY <1>6 DEF TransferLenderPosition, MayTrade, tradeVars
    <2>2. amount \in Nat /\ price \in Nat  BY <1>0
    <2> QED  BY <1>0, <2>1, <2>2, TransferKeeps
  <1>7. ASSUME NEW key \in ListingKeys,
               CancelTradeListing(key) \/ ExpireTradeListing(key)
        PROVE  TradingInductive'
    <2>1. /\ listings' = [listings EXCEPT ![key] = NoListing]
          /\ UNCHANGED <<vars, offers>>
      BY <1>7 DEF CancelTradeListing, ExpireTradeListing
    <2>2. listings' \in [ListingKeys -> ListingType]  BY <1>0, <1>1, <2>1
    <2> QED  BY <1>0, <2>1, <2>2, MarketFactsStay
  <1> QED
    BY <1>2, <1>3, <1>4, <1>5, <1>6, <1>7 DEF MarketStep
-----------------------------------------------------------------------------
(* The loan goes on.                                                       *)
LEMMA GainsKeepEscrows ==
    ASSUME TradingInductive, escrow' \in [Lenders -> EscrowType],
           NEW gain, \A l \in Lenders :
              /\ gain[l] \in Nat
              /\ escrow'[l].escrow_amount = escrow[l].escrow_amount + gain[l]
              /\ escrow'[l].usdc = escrow[l].usdc + gain[l]
              /\ escrow'[l].exists = escrow[l].exists
              /\ gain[l] # 0 => escrow[l].exists
    PROVE  EscrowsAddUp' /\ ClosedEscrowsAreEmpty'
  <1>1. /\ escrow \in [Lenders -> EscrowType] /\ EscrowsAddUp
        /\ ClosedEscrowsAreEmpty
    BY MarketFacts DEF TradingInductive
  <1>2. EscrowsFit(escrow) <=> EscrowsFit(escrow')
    <2>1. Gains(escrow, escrow', gain)  BY DEF Gains
    <2> QED  BY <1>1, <2>1, GainsAreBooked
  <1>3. ClosedEscrowsAreEmpty'
    <2> SUFFICES ASSUME NEW l \in Lenders, ~escrow'[l].exists
                 PROVE  escrow'[l].escrow_amount = 0
      BY DEF ClosedEscrowsAreEmpty
    <2>1. gain[l] = 0 /\ escrow[l].escrow_amount = 0
      BY <1>1 DEF ClosedEscrowsAreEmpty
    <2> QED  BY <2>1
  <1> QED  BY <1>1, <1>2, <1>3, EscrowsFitIs

LEMMA EscrowsStay ==
    ASSUME TradingInductive, UNCHANGED escrow
    PROVE  EscrowsAddUp' /\ ClosedEscrowsAreEmpty'
  BY EscrowsFitIs DEF TradingInductive, ClosedEscrowsAreEmpty

LEMMA PaymentKeeps ==
    ASSUME TradingInductive, NEW amount \in Payments, NEW last \in Lenders,
           MakePaymentWithDistribution(amount, last), UNCHANGED tradeVars
    PROVE  TradingInductive'
  <1> DEFINE payment == Payment(amount)
             S == contract.contributions
             interest(l) == LenderShare(l, last, payment.interest)
                              + LenderShare(l, last, payment.fee)
             principal(l) == LenderShare(l, last, payment.effective)
             gain == [l \in Lenders |-> IF l \in S
                                        THEN interest(l) + principal(l) ELSE 0]
  <1>1. /\ OnLoan /\ ScheduleFits(WithInterest(contract))
        /\ Settle(payment) /\ last \in S /\ amount \in Nat
        /\ \A l \in S : escrow[l].exists
        /\ UNCHANGED <<now, isPaused, terms, contribution, approved, usdc,
                       treasuryUsdc>>
    BY ServicingConstantsAreNumbers
       DEF MakePaymentWithDistribution, MayPay, OnLoan, LendersPassed
  <1>2. /\ payment.interest \in Nat /\ payment.fee \in Nat
        /\ payment.effective \in Nat
    BY <1>1, MarketFacts, PaymentType
  <1>3. /\ contract' \in ContractType /\ collateral' \in Nat
        /\ totalDebt' \in Nat
        /\ contract'.funded_amount = contract.funded_amount
        /\ contract'.num_contributions = contract.num_contributions
        /\ contract'.contributions = contract.contributions
        /\ contract'.last_principal_payment <= now
    BY <1>1, MarketFacts, SettleType
  <1> HIDE DEF payment
  <1>4. /\ StakesAddUp /\ S \subseteq Lenders
    BY <1>1, PositionIsPart, MarketFacts
  <1>5. ASSUME NEW l \in S
        PROVE  interest(l) \in Nat /\ principal(l) \in Nat
    <2>1. \A share \in {payment.interest, payment.fee, payment.effective} :
             LenderShare(l, last, share) \in Nat
      BY <1>1, <1>2, <1>4, SharesOfStakesAddUp
    <2> QED  BY <2>1
  <1>6. escrow' = [l \in Lenders |->
          IF l \notin S THEN escrow[l]
          ELSE Credited(escrow[l], interest(l), principal(l))]
    BY DEF MakePaymentWithDistribution, payment
  <1>7. ASSUME NEW l \in Lenders
        PROVE  /\ gain[l] \in Nat /\ escrow'[l] \in EscrowType
               /\ escrow'[l].escrow_amount = escrow[l].escrow_amount + gain[l]
               /\ escrow'[l].usdc = escrow[l].usdc + gain[l]
               /\ escrow'[l].exists = escrow[l].exists
               /\ gain[l] # 0 => escrow[l].exists
    <2>1. escrow[l] \in EscrowType  BY MarketFacts
    <2>2. escrow[l].escrow_amount \in Nat /\ escrow[l].usdc \in Nat
      BY <2>1 DEF EscrowType
    <2>3. CASE l \in S
      <3> DEFINE i == interest(l)
                 p == principal(l)
      <3>1. i \in Nat /\ p \in Nat  BY <1>5, <2>3
      <3>2. escrow'[l] = Credited(escrow[l], i, p) /\ gain[l] = i + p
        BY <1>6, <2>3
      <3>3. escrow[l].exists  BY <1>1, <2>3
      <3> HIDE DEF i, p, gain
      <3>4. /\ escrow'[l] \in EscrowType
            /\ escrow'[l].exists = escrow[l].exists
            /\ escrow'[l].usdc = escrow[l].usdc + i + p
            /\ escrow'[l].escrow_amount = escrow[l].escrow_amount + i + p
        BY <2>1, <3>1, <3>2, CreditedIs
      <3> QED  BY <2>2, <3>1, <3>2, <3>3, <3>4
    <2>4. CASE l \notin S
      <3>1. escrow'[l] = escrow[l] /\ gain[l] = 0  BY <1>6, <2>4
      <3> QED  BY <2>1, <2>2, <3>1
    <2> QED  BY <2>3, <2>4
  <1> HIDE DEF gain
  <1>8. escrow' \in [Lenders -> EscrowType]
    <2>1. escrow' = [l \in Lenders |-> escrow'[l]]  BY <1>6
    <2> QED  BY <1>7, <2>1
  <1>9. EscrowsAddUp' /\ ClosedEscrowsAreEmpty'
    BY <1>7, <1>8, GainsKeepEscrows
  <1>10. PositionsAddUp' /\ LendersStayWithinCap'
    BY <1>1, <1>3, PositionsStay
  <1>11. TypeOK'  BY <1>1, <1>3, <1>8, MarketFacts DEF TypeOK
  <1> QED
    BY <1>1, <1>3, <1>9, <1>10, <1>11 DEF TradingInductive, tradeVars

LEMMA RequestKeeps ==
    ASSUME TradingInductive, NEW l \in Lenders, RequestRecall(l),
           UNCHANGED tradeVars
    PROVE  TradingInductive'
  <1>1. /\ contract' = [contract EXCEPT !.status = "PendingRecall",
                                        !.recall_requested = TRUE,
                                        !.recall_requested_at = now,
                                        !.recall_requested_by = l]
        /\ UNCHANGED <<now, isPaused, terms, contribution, escrow, approved,
                       usdc, collateral, treasuryUsdc, totalDebt>>
    BY DEF RequestRecall
  <1>2. contract \in ContractType /\ now \in Nat /\ OnLoan
    BY MarketFacts DEF RequestRecall, OnLoan
  <1>3. contract' \in ContractType
    <2>1. "PendingRecall" \in Statuses /\ TRUE \in BOOLEAN
          /\ l \in Lenders \union {Nobody}
      BY DEF Statuses
    <2> QED  BY <1>1, <1>2, <2>1, ZenonT(40) DEF ContractType
  <1>4. /\ contract'.funded_amount = contract.funded_amount
        /\ contract'.num_contributions = contract.num_contributions
        /\ contract'.contributions = contract.contributions
        /\ contract'.last_principal_payment = contract.last_principal_payment
    BY <1>1, <1>2 DEF ContractType
  <1>5. TypeOK'  BY <1>1, <1>3, MarketFacts DEF TypeOK
  <1>6. PositionsAddUp' /\ LendersStayWithinCap'
    BY <1>1, <1>2, <1>4, PositionsStay
  <1>7. EscrowsAddUp' /\ ClosedEscrowsAreEmpty'  BY <1>1, EscrowsStay
  <1> QED
    BY <1>1, <1>4, <1>5, <1>6, <1>7 DEF TradingInductive, tradeVars

(* A claim takes the same from the books of an escrow and from its tokens. *)
LEMMA ClaimKeeps ==
    ASSUME TradingInductive, NEW l \in Lenders, ClaimFromEscrow(l),
           UNCHANGED tradeVars
    PROVE  TradingInductive'
  <1> DEFINE e == escrow[l]
             total == e.available_interest + e.available_principal
             amount == e.escrow_amount - total
             balance == e.usdc - total
             after == [e EXCEPT !.escrow_amount = amount,
                                !.available_interest = 0,
                                !.available_principal = 0,
                                !.usdc = balance]
             gain == [k \in Lenders |-> IF k = l THEN total ELSE 0]
  <1>1. /\ e.exists /\ e.usdc >= total
        /\ UNCHANGED <<now, isPaused, terms, contract, contribution, approved,
                       usdc, collateral, treasuryUsdc, totalDebt>>
        /\ \/ /\ e.escrow_amount = total /\ e.usdc = total
              /\ escrow' = [escrow EXCEPT ![l] = NoEscrow]
           \/ /\ e.escrow_amount >= total
              /\ escrow' = [escrow EXCEPT ![l] = after]
    BY DEF ClaimFromEscrow
  <1>2. /\ escrow \in [Lenders -> EscrowType] /\ e \in EscrowType
        /\ EscrowsAddUp /\ ClosedEscrowsAreEmpty
    BY MarketFacts DEF TradingInductive
  <1>3. /\ total \in Nat /\ e.escrow_amount \in Nat /\ e.usdc \in Nat
    BY <1>2 DEF EscrowType
  <1>4. /\ escrow' \in [Lenders -> EscrowType]
        /\ \A k \in Lenders \ {l} : escrow'[k] = escrow[k]
        /\ e.escrow_amount = escrow'[l].escrow_amount + total
        /\ e.usdc = escrow'[l].usdc + total
        /\ ~escrow'[l].exists => escrow'[l].escrow_amount = 0
    <2>1. CASE /\ e.escrow_amount = total /\ e.usdc = total
               /\ escrow' = [escrow EXCEPT ![l] = NoEscrow]
      <3>1. /\ NoEscrow \in EscrowType /\ NoEscrow.usdc = 0
            /\ NoEscrow.escrow_amount = 0
        BY DEF NoEscrow, EscrowType
      <3> QED  BY <1>2, <1>3, <2>1, <3>1
    <2>2. CASE /\ e.escrow_amount >= total
               /\ escrow' = [escrow EXCEPT ![l] = after]
      <3> HIDE DEF e, total
      <3>1. /\ amount \in Nat /\ balance \in Nat
            /\ e.escrow_amount = amount + total /\ e.usdc = balance + total
        BY <1>1, <1>3, <2>2
      <3> HIDE DEF amount, balance
      <3>2. /\ after \in EscrowType /\ after.exists = e.exists
            /\ after.escrow_amount = amount /\ after.usdc = balance
        <4>1. 0 \in Nat  OBVIOUS
        <4> QED  BY <1>2, <3>1, <4>1 DEF EscrowType
      <3> HIDE DEF after
      <3> QED  BY <1>1, <1>2, <2>2, <3>1, <3>2
    <2> QED  BY <1>1, <2>1, <2>2
  <1>5. ASSUME NEW k \in Lenders
        PROVE  /\ gain[k] \in Nat
               /\ escrow[k].escrow_amount = escrow'[k].escrow_amount + gain[k]
               /\ escrow[k].usdc = escrow'[k].usdc + gain[k]
    <2>1. CASE k = l
      <3>1. gain[k] = total  BY <2>1
      <3> HIDE DEF gain, total
      <3> QED  BY <1>3, <1>4, <2>1, <3>1
    <2>2. CASE k # l
      <3>1. gain[k] = 0 /\ escrow'[k] = escrow[k]  BY <1>4, <2>2
      <3>2. escrow[k].escrow_amount \in Nat /\ escrow[k].usdc \in Nat
        BY <1>2 DEF EscrowType
      <3> QED  BY <3>1, <3>2
    <2> QED  BY <2>1, <2>2
  <1> HIDE DEF gain
  <1>6. EscrowsFit(escrow') <=> EscrowsFit(escrow)
    <2>1. Gains(escrow', escrow, gain)  BY <1>5 DEF Gains
    <2> QED  BY <1>2, <1>4, <2>1, GainsAreBooked
  <1>7. EscrowsAddUp'  BY <1>2, <1>6, EscrowsFitIs
  <1>8. ClosedEscrowsAreEmpty'
    BY <1>2, <1>4 DEF ClosedEscrowsAreEmpty
  <1>9. TypeOK'  BY <1>1, <1>4, MarketFacts DEF TypeOK
  <1>10. PositionsAddUp' /\ LendersStayWithinCap'
    BY <1>1, PositionsStay DEF OnLoan
  <1> QED
    BY <1>1, <1>7, <1>8, <1>9, <1>10 DEF TradingInductive, tradeVars
(* A recall that is settled takes a lender out of the loan with its part.  *)
LEMMA SettledRecallKeeps ==
    ASSUME TradingInductive, NEW l \in Lenders, NEW received \in Nat,
           MaySettleRecall(l), SettleRecall(l, received),
           treasuryUsdc' \in Nat, UNCHANGED tradeVars
    PROVE  TradingInductive'
  <1> DEFINE S == contract.contributions
             part == contribution[l].contribution_amount
             R == S \ {l}
  <1>1. /\ OnLoan /\ l \in S
        /\ collateral >= RecallPart(l, contract.collateral_amount)
        /\ totalDebt >= RecallPart(l, contract.outstanding_balance)
        /\ contract' = WithoutLender(l)
        /\ contribution' = [contribution EXCEPT ![l].is_refunded = TRUE]
        /\ escrow' = [escrow EXCEPT ![l] = Credited(@, 0, received)]
        /\ collateral' = collateral - RecallPart(l, contract.collateral_amount)
        /\ totalDebt' = totalDebt - RecallPart(l, contract.outstanding_balance)
        /\ escrow[l].exists
        /\ UNCHANGED <<now, isPaused, terms, approved, usdc>>
    BY DEF MaySettleRecall, SettleRecall, OnLoan
  <1>2. /\ contract \in ContractType
        /\ contribution \in [Lenders -> ContributionType]
        /\ S \subseteq Lenders /\ IsFiniteSet(S)
        /\ PositionsFit(contract, contribution)
        /\ contract.num_contributions <= terms.max_lenders
        /\ terms.max_lenders \in Nat
        /\ contract.last_principal_payment <= now
        /\ collateral \in Nat /\ totalDebt \in Nat
        /\ escrow \in [Lenders -> EscrowType]
        /\ StakeFits(l)
    BY <1>1, MarketFacts, PositionIsPart
  <1>3. /\ contract.outstanding_balance \in Nat
        /\ contract.collateral_amount \in Nat
    BY <1>2 DEF ContractType
  <1>4. /\ RecallPart(l, contract.outstanding_balance) \in Nat
        /\ RecallPart(l, contract.collateral_amount) \in Nat
    BY <1>2, <1>3, PartOfStakeFits
  <1>5. /\ contract' \in ContractType
        /\ contract'.funded_amount = contract.funded_amount - part
        /\ contract'.contributions = R
        /\ contract'.num_contributions = Cardinality(R)
        /\ contract'.last_principal_payment = contract.last_principal_payment
    BY <1>1, <1>2, WithoutStakeIs
  <1>6. /\ contribution' \in [Lenders -> ContributionType]
        /\ contribution'[l].is_refunded
        /\ \A k \in Lenders \ {l} : contribution'[k] = contribution[k]
    BY <1>1, <1>2 DEF ContributionType
  <1>7. PositionsFit(contract', contribution')
    <2>1. S = OwnersIn(contribution)
          /\ contract.funded_amount = AmountTotal(contribution, S)
      BY <1>2 DEF PositionsFit
    <2>2. R = OwnersIn(contribution')  BY <1>2, <1>6, <2>1 DEF OwnersIn
    <2>3. \A k \in S \ {l} : contribution'[k].contribution_amount =
                               contribution[k].contribution_amount
      BY <1>2, <1>6
    <2>4. AmountTotal(contribution', R) = AmountTotal(contribution, S) - part
      <3>1. /\ contribution \in [Lenders -> ContributionType]
            /\ S \subseteq Lenders /\ IsFiniteSet(S) /\ l \in S
        BY <1>1, <1>2
      <3> HIDE DEF S
      <3> QED  BY <2>3, <3>1, AmountLeaves
    <2> HIDE DEF S, R, part
    <2> QED  BY <1>5, <2>1, <2>2, <2>4 DEF PositionsFit
  <1>8. contract'.num_contributions <= terms.max_lenders
    <2>1. contract.num_contributions = Cardinality(S)
      BY <1>2 DEF PositionsFit
    <2>2. Cardinality(S) \in Nat /\ Cardinality(R) = Cardinality(S) - 1
      BY <1>1, <1>2, FS_RemoveElement, FS_CardinalityType
    <2> HIDE DEF S, R
    <2> QED  BY <1>2, <1>5, <2>1, <2>2
  <1>9. PositionsAddUp' /\ LendersStayWithinCap'
    BY <1>1, <1>7, <1>8, PositionsAre DEF LendersStayWithinCap
  <1>10. /\ escrow' \in [Lenders -> EscrowType]
         /\ EscrowsAddUp' /\ ClosedEscrowsAreEmpty'
    <2> DEFINE e == Credited(escrow[l], 0, received)
               gain == [k \in Lenders |-> IF k = l THEN received ELSE 0]
    <2>1. /\ e \in EscrowType /\ e.exists = escrow[l].exists
          /\ e.usdc = escrow[l].usdc + received
          /\ e.escrow_amount = escrow[l].escrow_amount + received
      <3>1. 0 \in Nat /\ escrow[l] \in EscrowType  BY <1>2
      <3>2. /\ e \in EscrowType /\ e.exists = escrow[l].exists
            /\ e.usdc = escrow[l].usdc + 0 + received
            /\ e.escrow_amount = escrow[l].escrow_amount + 0 + received
        BY <3>1, CreditedIs
      <3>3. escrow[l].usdc \in Nat /\ escrow[l].escrow_amount \in Nat
        BY <3>1 DEF EscrowType
      <3> HIDE DEF e
      <3> QED  BY <3>2, <3>3
    <2>2. escrow' = [escrow EXCEPT ![l] = e]  BY <1>1
    <2> HIDE DEF e
    <2>3. escrow' \in [Lenders -> EscrowType]  BY <1>2, <2>1, <2>2
    <2>4. ASSUME NEW k \in Lenders
          PROVE  /\ gain[k] \in Nat
                 /\ escrow'[k].escrow_amount = escrow[k].escrow_amount + gain[k]
                 /\ escrow'[k].usdc = escrow[k].usdc + gain[k]
                 /\ escrow'[k].exists = escrow[k].exists
                 /\ gain[k] # 0 => escrow[k].exists
      <3>1. CASE k = l
        <4>1. gain[k] = received  BY <3>1
        <4> HIDE DEF gain
        <4> QED  BY <1>1, <1>2, <2>1, <2>2, <3>1, <4>1
      <3>2. CASE k # l
        <4>1. gain[k] = 0 /\ escrow'[k] = escrow[k]  BY <1>2, <2>2, <3>2
        <4>2. escrow[k].escrow_amount \in Nat /\ escrow[k].usdc \in Nat
          BY <1>2 DEF EscrowType
        <4> QED  BY <4>1, <4>2
      <3> QED  BY <3>1, <3>2
    <2> HIDE DEF gain
    <2> QED  BY <2>3, <2>4, GainsKeepEscrows
  <1>11. TypeOK'
    <2>1. collateral' \in Nat /\ totalDebt' \in Nat  BY <1>1, <1>2, <1>4
    <2> QED  BY <1>1, <1>5, <1>6, <1>10, <2>1, MarketFacts DEF TypeOK
  <1> QED
    BY <1>1, <1>2, <1>5, <1>9, <1>10, <1>11 DEF TradingInductive, tradeVars

LEMMA BorrowerRecallKeeps ==
    ASSUME TradingInductive, NEW l \in Lenders, BorrowerRepayRecall(l),
           UNCHANGED tradeVars
    PROVE  TradingInductive'
  <1>1. OnLoan /\ l \in contract.contributions
    BY DEF BorrowerRepayRecall, MaySettleRecall, OnLoan
  <1>2. RecallPart(l, contract.outstanding_balance) \in Nat
    BY <1>1, MarketFacts, PositionIsPart, PartOfStakeFits DEF ContractType
  <1>3. treasuryUsdc' \in Nat  BY MarketFacts DEF BorrowerRepayRecall
  <1> QED  BY <1>2, <1>3, SettledRecallKeeps DEF BorrowerRepayRecall

LEMMA BotRecallKeeps ==
    ASSUME TradingInductive, NEW l \in Lenders, NEW paidFrontend \in BOOLEAN,
           ProcessRecall(l, paidFrontend), UNCHANGED tradeVars
    PROVE  TradingInductive'
  <1> DEFINE debtShare == RecallPart(l, contract.outstanding_balance)
             fee == BpsOf(debtShare, RecallFeeBps)
             frontendShare == IF terms.frontend /\ paidFrontend
                              THEN BpsOf(fee, FrontendShareBps) ELSE 0
             received == debtShare - fee
  <1>1. /\ OnLoan /\ l \in contract.contributions /\ MaySettleRecall(l)
        /\ SettleRecall(l, received)
        /\ treasuryUsdc' = treasuryUsdc + fee - frontendShare
    BY DEF ProcessRecall, MaySettleRecall, OnLoan
  <1>2. debtShare \in Nat
    BY <1>1, MarketFacts, PositionIsPart, PartOfStakeFits DEF ContractType
  <1> HIDE DEF debtShare
  <1>3. /\ RecallFeeBps \in Nat /\ RecallFeeBps <= BpsDenom
        /\ FrontendShareBps \in Nat /\ FrontendShareBps <= BpsDenom
    BY ConstantsAreNumbers, ServicingConstantsAreNumbers
  <1>4. fee \in Nat /\ fee <= debtShare  BY <1>2, <1>3, BpsIsNat
  <1> HIDE DEF fee
  <1>5. frontendShare \in Nat /\ frontendShare <= fee
    <2>1. /\ BpsOf(fee, FrontendShareBps) \in Nat
          /\ BpsOf(fee, FrontendShareBps) <= fee
      BY <1>3, <1>4, BpsIsNat
    <2> QED  BY <1>4, <2>1
  <1> HIDE DEF frontendShare
  <1>6. received \in Nat  BY <1>2, <1>4
  <1> HIDE DEF received
  <1>7. treasuryUsdc' \in Nat  BY <1>1, <1>4, <1>5, MarketFacts
  <1> QED  BY <1>1, <1>6, <1>7, SettledRecallKeeps

(* What the bot pays for a loan that it liquidates is credited to the      *)
(* lenders by their positions.                                             *)
LEMMA EscrowsWithGain ==
    ASSUME TradingInductive, OnLoan, NEW last, LendersPassed(last),
           NEW amount \in Nat, escrow' = EscrowsWith(amount, last)
    PROVE  /\ escrow' \in [Lenders -> EscrowType]
           /\ EscrowsAddUp' /\ ClosedEscrowsAreEmpty'
           /\ SharesOf(amount, last) = amount
  <1> DEFINE S == contract.contributions
             share(l) == LenderShare(l, last, amount)
             gain == [l \in Lenders |-> IF l \in S THEN share(l) ELSE 0]
  <1>1. /\ last \in S /\ S \subseteq Lenders /\ StakesAddUp
        /\ \A l \in S : escrow[l].exists
        /\ escrow \in [Lenders -> EscrowType]
    BY MarketFacts, PositionIsPart DEF LendersPassed
  <1>2. /\ \A l \in S : share(l) \in Nat
        /\ SharesOf(amount, last) = amount
    BY <1>1, SharesOfStakesAddUp
  <1>3. escrow' = [l \in Lenders |-> IF l \in S
                                     THEN Credited(escrow[l], 0, share(l))
                                     ELSE escrow[l]]
    BY DEF EscrowsWith
  <1>4. ASSUME NEW l \in Lenders
        PROVE  /\ gain[l] \in Nat /\ escrow'[l] \in EscrowType
               /\ escrow'[l].escrow_amount = escrow[l].escrow_amount + gain[l]
               /\ escrow'[l].usdc = escrow[l].usdc + gain[l]
               /\ escrow'[l].exists = escrow[l].exists
               /\ gain[l] # 0 => escrow[l].exists
    <2>1. escrow[l] \in EscrowType  BY <1>1
    <2>2. escrow[l].escrow_amount \in Nat /\ escrow[l].usdc \in Nat
      BY <2>1 DEF EscrowType
    <2>3. CASE l \in S
      <3> DEFINE p == share(l)
                 e == Credited(escrow[l], 0, p)
      <3>1. p \in Nat /\ 0 \in Nat  BY <1>2, <2>3
      <3>2. escrow'[l] = e /\ gain[l] = p  BY <1>3, <2>3
      <3>3. escrow[l].exists  BY <1>1, <2>3
      <3> HIDE DEF p, gain
      <3>4. /\ e \in EscrowType /\ e.exists = escrow[l].exists
            /\ e.usdc = escrow[l].usdc + 0 + p
            /\ e.escrow_amount = escrow[l].escrow_amount + 0 + p
        BY <2>1, <3>1, CreditedIs
      <3> HIDE DEF e
      <3>5. /\ e.usdc = escrow[l].usdc + p
            /\ e.escrow_amount = escrow[l].escrow_amount + p
        BY <2>2, <3>1, <3>4
      <3> QED  BY <3>1, <3>2, <3>3, <3>4, <3>5
    <2>4. CASE l \notin S
      <3>1. escrow'[l] = escrow[l] /\ gain[l] = 0  BY <1>3, <2>4
      <3> QED  BY <2>1, <2>2, <3>1
    <2> QED  BY <2>3, <2>4
  <1> HIDE DEF gain
  <1>5. escrow' \in [Lenders -> EscrowType]
    <2>1. escrow' = [l \in Lenders |-> escrow'[l]]  BY <1>3
    <2> QED  BY <1>4, <2>1
  <1> QED  BY <1>2, <1>4, <1>5, GainsKeepEscrows

LEMMA LiquidationKeeps ==
    ASSUME TradingInductive, NEW price \in Prices, NEW last \in Lenders,
           Liquidate(price, last), UNCHANGED tradeVars
    PROVE  TradingInductive'
  <1> DEFINE c == WithInterest(contract)
             value == collateral * price
             debt == DebtOf(c)
             botPays == Lesser(debt, value)
             lost == debt - botPays
             retired == MinusSaturating(c.funded_amount,
                                        c.total_principal_paid)
  <1>1. /\ OnLoan /\ LendersPassed(last)
        /\ escrow' = EscrowsWith(botPays, last)
        /\ usdc' = usdc + botPays - SharesOf(botPays, last)
        /\ contract' = [c EXCEPT !.status = "Liquidated",
                                 !.uncollectable_balance = lost,
                                 !.outstanding_balance = 0,
                                 !.collateral_amount = 0,
                                 !.accrued_interest = 0]
        /\ collateral' = 0
        /\ totalDebt' = MinusSaturating(totalDebt, retired)
        /\ UNCHANGED <<now, isPaused, terms, contribution, approved,
                       treasuryUsdc>>
    BY DEF Liquidate
  <1>2. /\ c \in ContractType /\ SameLenders(contract, c) /\ debt \in Nat
        /\ c.last_principal_payment <= now
    BY MarketFacts, DebtType
  <1>3. value \in Nat
    <2>1. price \in Nat  BY ServicingConstantsAreNumbers
    <2> QED  BY <2>1, MarketFacts
  <1> HIDE DEF c
  <1>4. retired \in Nat
    <2>1. c.funded_amount \in Nat /\ c.total_principal_paid \in Nat
      BY <1>2 DEF ContractType
    <2> QED  BY <2>1 DEF MinusSaturating
  <1> HIDE DEF value, debt, retired
  <1>5. botPays \in Nat /\ lost \in Nat
    <2>1. botPays \in Nat /\ botPays <= debt  BY <1>2, <1>3, LesserIs
    <2> HIDE DEF botPays
    <2> QED  BY <1>2, <2>1
  <1> HIDE DEF botPays, lost
  <1>6. /\ escrow' \in [Lenders -> EscrowType]
        /\ EscrowsAddUp' /\ ClosedEscrowsAreEmpty'
        /\ SharesOf(botPays, last) = botPays
    BY <1>1, <1>5, EscrowsWithGain
  <1>7. contract' \in ContractType
    <2>1. 0 \in Nat /\ "Liquidated" \in Statuses  BY DEF Statuses
    <2> QED  BY <1>1, <1>2, <1>5, <2>1, ZenonT(40) DEF ContractType
  <1>8. /\ contract'.funded_amount = contract.funded_amount
        /\ contract'.num_contributions = contract.num_contributions
        /\ contract'.contributions = contract.contributions
        /\ contract'.last_principal_payment <= now
    BY <1>1, <1>2 DEF ContractType, SameLenders
  <1>9. PositionsAddUp' /\ LendersStayWithinCap'
    BY <1>1, <1>8, PositionsStay
  <1>10. TypeOK'
    <2>1. usdc' \in Nat  BY <1>1, <1>5, <1>6, MarketFacts
    <2>2. totalDebt' \in Nat  BY <1>1, <1>4, MarketFacts DEF MinusSaturating
    <2> QED  BY <1>1, <1>6, <1>7, <2>1, <2>2, MarketFacts DEF TypeOK
  <1> QED
    BY <1>1, <1>6, <1>8, <1>9, <1>10 DEF TradingInductive, tradeVars

LEMMA TimeKeeps ==
    ASSUME TradingInductive, Tick, UNCHANGED tradeVars
    PROVE  TradingInductive'
  <1>1. /\ now' = now + 1
        /\ UNCHANGED <<isPaused, terms, contract, contribution, escrow,
                       approved, usdc, collateral, treasuryUsdc, totalDebt>>
    BY DEF Tick
  <1>2. TypeOK'  BY <1>1, MarketFacts DEF TypeOK
  <1>3. contract'.last_principal_payment <= now'
    <2>1. contract.last_principal_payment \in Nat
      BY MarketFacts DEF ContractType
    <2> QED  BY <1>1, <2>1, MarketFacts
  <1>4. PositionsAddUp' /\ LendersStayWithinCap'
    BY <1>1, PositionsStay DEF OnLoan
  <1>5. EscrowsAddUp' /\ ClosedEscrowsAreEmpty'  BY <1>1, EscrowsStay
  <1> QED  BY <1>2, <1>3, <1>4, <1>5 DEF TradingInductive, tradeVars
LEMMA LoanStepKeeps ==
    ASSUME TradingInductive, LoanStep
    PROVE  TradingInductive'
  <1>1. ASSUME NEW price \in Prices, SettleAt(price), UNCHANGED tradeVars
        PROVE  TradingInductive'
    BY <1>1, BotRecallKeeps, LiquidationKeeps DEF SettleAt
  <1>2. ASSUME LenderServices, UNCHANGED tradeVars
        PROVE  TradingInductive'
    BY <1>2, RequestKeeps, ClaimKeeps DEF LenderServices
  <1> QED
    BY <1>1, <1>2, PaymentKeeps, BorrowerRecallKeeps, TimeKeeps
       DEF LoanStep, SettleByBot

-----------------------------------------------------------------------------
(* The loan that is traded has just been funded.                           *)
LEMMA TradingStarts ==
    ASSUME TradingInit
    PROVE  TradingInductive
  <1>1. PICK stake \in [Lenders -> Amounts \union {0}] :
          StakesAre(stake) /\ contract = FundedContract(stake)
    BY DEF TradingInit, FundedInit
  <1>2. stake \in [Lenders -> Nat]
    <2>1. Amounts \union {0} \subseteq Nat  BY ConstantsAreNumbers
    <2> QED  BY <2>1
  <1>3. /\ now = 1 /\ isPaused = FALSE /\ terms \in Offers /\ approved = {}
        /\ collateral = terms.collateral_amount /\ treasuryUsdc = 0
        /\ usdc = 0 /\ totalDebt = OtherDebt + terms.target_amount
        /\ listings = [key \in ListingKeys |-> NoListing]
        /\ offers = [key \in OfferKeys |-> NoOffer]
    BY DEF TradingInit, FundedInit
  <1>4. /\ now \in Nat /\ terms.target_amount \in Nat
        /\ terms.collateral_amount \in Nat /\ OtherDebt \in Nat
    BY <1>3, OffersAreValid, ConstantsAreNumbers DEF ValidOffer
  <1> DEFINE S == Funders(stake)
  <1>5. /\ contract \in ContractType /\ contract.contributions = S
        /\ contract.funded_amount = terms.target_amount
        /\ contract.num_contributions = Cardinality(S)
        /\ contract.last_principal_payment = now
    BY <1>1, <1>3, <1>4, FundedContractIs
  <1>6. /\ contribution \in [Lenders -> ContributionType]
        /\ escrow \in [Lenders -> EscrowType]
        /\ \A l \in Lenders :
              /\ contribution[l].contribution_amount = stake[l]
              /\ escrow[l].escrow_amount = 0 /\ escrow[l].usdc = 0
    BY <1>1, <1>2, <1>4, StakesAreIs
  <1>7. TypeOK
    <2>1. /\ usdc \in Nat /\ collateral \in Nat /\ treasuryUsdc \in Nat
          /\ totalDebt \in Nat
      BY <1>3, <1>4
    <2>2. isPaused \in BOOLEAN /\ approved \subseteq Lenders  BY <1>3
    <2> HIDE DEF S
    <2>3. /\ contract \in ContractType /\ terms \in Offers
          /\ contribution \in [Lenders -> ContributionType]
          /\ escrow \in [Lenders -> EscrowType]
      BY <1>3, <1>5, <1>6
    <2> QED  BY <1>4, <2>1, <2>2, <2>3 DEF TypeOK
  <1>8. S \subseteq Lenders /\ IsFiniteSet(S)
    BY LendersAreFinite, FS_Subset DEF Funders
  <1>9. S = OwnersIn(contribution)
    <2>1. \A l \in Lenders : stake[l] \in Nat  BY <1>2
    <2>2. ASSUME NEW l \in Lenders, stake[l] > 0
          PROVE  contribution[l].exists /\ ~contribution[l].is_refunded
      BY <1>1, <2>1, <2>2 DEF StakesAre
    <2> QED  BY <1>6, <2>2 DEF Funders, OwnersIn
  <1>10. terms.target_amount = AmountTotal(contribution, S)
    <2>1. terms.target_amount = Total(stake, Lenders)
      BY <1>1 DEF StakesAre, Total
    <2>2. Total(stake, Lenders) = Total(stake, S)
      <3>1. \A l \in Lenders : stake[l] \in Nat  BY <1>2
      <3>2. \A l \in Lenders \ S : stake[l] = 0  BY <3>1 DEF Funders
      <3> HIDE DEF S
      <3> QED  BY <1>8, <3>1, <3>2, LendersAreFinite, TotalOfRest
    <2> HIDE DEF S
    <2>3. \A l \in S : AmountsOf(contribution, S)[l] = stake[l]
      BY <1>6, <1>8 DEF AmountsOf
    <2>4. Total(AmountsOf(contribution, S), S) = Total(stake, S)
      BY <1>8, <2>3, TotalAgrees
    <2> QED  BY <1>8, <2>1, <2>2, <2>4, AmountTotalIs
  <1>11. PositionsAddUp
    BY <1>5, <1>9, <1>10, PositionsAre DEF PositionsFit
  <1>12. LendersStayWithinCap
    BY <1>1, <1>5 DEF StakesAre, Funders, LendersStayWithinCap
  <1>13. EscrowsAddUp
    <2>1. \A l \in Lenders : BookedOf(escrow)[l] = UsdcOf(escrow)[l]
      BY <1>6 DEF BookedOf, UsdcOf
    <2> QED  BY <2>1, LendersAreFinite, TotalAgrees, EscrowsFitIs DEF EscrowsFit
  <1>14. ClosedEscrowsAreEmpty  BY <1>6 DEF ClosedEscrowsAreEmpty
  <1>15. /\ listings \in [ListingKeys -> ListingType]
         /\ offers \in [OfferKeys -> OfferType]
    BY <1>3 DEF NoListing, NoOffer, ListingType, OfferType
  <1>16. contract.last_principal_payment <= now  BY <1>4, <1>5
  <1> QED
    BY <1>7, <1>11, <1>12, <1>13, <1>14, <1>15, <1>16 DEF TradingInductive

LEMMA TradingStepKeeps ==
    ASSUME TradingInductive, [TradingNext]_allVars
    PROVE  TradingInductive'
  <1>1. CASE ToggleProposal
    BY <1>1, MarketFactsStay DEF ToggleProposal, TradingInductive
  <1>2. CASE UNCHANGED allVars
    BY <1>2, MarketFactsStay DEF allVars, tradeVars, TradingInductive
  <1> QED  BY <1>1, <1>2, MarketStepKeeps, LoanStepKeeps DEF TradingNext

-----------------------------------------------------------------------------
(* What every trade, payment, recall, liquidation and claim preserves.     *)
THEOREM TradingInvariant == TradingSpec => []TradingInductive
  <1>1. TradingInit => TradingInductive  BY TradingStarts
  <1>2. TradingInductive /\ [TradingNext]_allVars => TradingInductive'
    BY TradingStepKeeps
  <1> QED  BY <1>1, <1>2, PTL DEF TradingSpec

(* However often positions are divided, sold on, recalled and paid, the    *)
(* contract's lenders are those who own a part of it, its number of lenders*)
(* is theirs, and their parts add up to what it says was funded            *)
(* (sync_contract_contributions, execute_position_transfer).               *)
THEOREM PositionsAlwaysAddUp == TradingSpec => []PositionsAddUp
  <1>1. TradingInductive => PositionsAddUp  BY DEF TradingInductive
  <1> QED  BY <1>1, TradingInvariant, PTL

(* No order of listings, offers, acceptances and direct transfers gives a  *)
(* loan more lenders than max_lenders (enforce_partial_lender_cap).        *)
THEOREM LendersAlwaysWithinCap == TradingSpec => []LendersStayWithinCap
  <1>1. TradingInductive => LendersStayWithinCap  BY DEF TradingInductive
  <1> QED  BY <1>1, TradingInvariant, PTL

(* Taken together the lenders' escrow accounts hold what their books say,  *)
(* though a transfer moves books and leaves the tokens where they are.     *)
THEOREM EscrowsAlwaysAddUp == TradingSpec => []EscrowsAddUp
  <1>1. TradingInductive => EscrowsAddUp  BY DEF TradingInductive
  <1> QED  BY <1>1, TradingInvariant, PTL
=============================================================================
