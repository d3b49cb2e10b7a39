# Stendar in TLA+

Stendar is a Solana lending program (`src/programs/stendar`, Rust with
Anchor). Borrowers list debt contracts, lenders fund them with USDC, pools lend
their depositors' USDC to contracts, and a bot moves interest, expires listings
and liquidates. This directory holds TLA+ models of the program, the TLC
configurations that check them, and proofs for TLAPS.

File names below are relative to `src/programs/stendar/src` unless they begin
with another directory.

## Inventory

| Component | State | Operations | Where |
|---|---|---|---|
| Lending pools | `PoolState`, `PoolDeposit`, `PendingPoolChange`, vault | create, deposit, withdraw directly or through the queue, return, accrue, claim and compound yield, propose, apply and cancel changes, pause, close, expire, deploy to a contract, claim from its escrow | `instructions/pools.rs`, `state/pools.rs`, `contexts/pools.rs` |
| Listing and funding | `DebtContract`, `LenderContribution`, `LenderEscrow`, `ApprovedFunder`, the contract's token accounts | create, approve, revoke, contribute, withdraw, cancel, expire, close listing, refund | `instructions/lending.rs`, `contexts/lending.rs` |
| Loan servicing | the same accounts, `State.total_debt` | pay, pay with distribution, accrue, scheduled principal, top up collateral, recall, credit and claim from escrows | `instructions/lending.rs`, `instructions/payment_operations.rs`, `utils/interest.rs` |
| Liquidation | the same, collateral account, price | full and partial liquidation | `instructions/lending.rs`, `utils/liquidation.rs`, `utils/oracle.rs` |
| Automated transfers | `DebtContract`, bot's token accounts | `automated_interest_transfer`, `automated_principal_transfer` | `instructions/admin_operations.rs` |
| Treasury and administration | `Treasury`, `State` | withdraw, two-step authority transfer, bot authority, pause, fee rates, frontends | `instructions/admin_operations.rs` |
| Term proposals | `TermAmendmentProposal`, votes, cooldowns | create, vote, cancel, expire, process pledged recalls, close | `instructions/proposals.rs` |
| Position trading | listings, offers, positions | list, offer, accept, transfer directly, cancel, expire | `instructions/trading.rs` |
| Revolving credit | revolving fields of `DebtContract` | draw, repay, distribute standby fees, close, sweep | `instructions/revolving.rs` |
| Collateral registry | `CollateralRegistry` | add, update, deactivate | `instructions/collateral.rs` |
| Oracle, fees | none | pure functions | `utils/oracle.rs`, `utils/fees.rs` |
| SDK, transparency, scripts, security, tests | none on chain | clients and tooling around the program | `src/sdk`, `src/transparency`, `src/scripts`, `src/security`, `src/tests`, `src/trident-tests` |

Components share accounts rather than send messages. A pool is a lender of a
contract like any other: `pool_deploy_to_contract` ends in the same
`finalize_contribution_to_contract`, and what the contract pays reaches the
pool through its `LenderEscrow`. Recalls, liquidations and payments of one
contract work on the same books in any order. All contracts share
`State.total_debt`, the pause flag and the treasury.

What is hard here:

- Every instruction is atomic, so the concurrency is in the order of
  instructions of many signers: nothing but the accounts' contents says who
  comes next, and handlers keep redundant books (a count beside a list, an
  amount beside a token balance, a total beside its parts) by hand.
- Time: grace periods, timelocks, cooldowns and expiries race the instructions
  they are meant to exclude.
- Integer division: shares, rates and fees are rounded, with a remainder that
  has to go somewhere.
- Some instructions are refused while the platform is paused, others are not;
  some demand accounts that a contract without collateral does not have.

What makes each component right: a pool can always explain its vault and pays
each second at the rate then in force; a queue strands nobody; terms change
only as announced. A listing holds what its lenders put in and gives it back or
lends it on. A loan's shares are of the lenders it still has, distributions
are exact, a recall does not hurt those who stay and comes to an end, and no
book is closed with something on it. A facility's draws fit its limit, its past
charges stand, and it completes when nothing is owed. The terms of a loan change
by the consent of all who were in it when the change was proposed, pledges made in a
vote are carried out, and trades neither create nor lose a part of a loan.

## Modules

| Module | What it is |
|---|---|
| `RateHistory`, `RateHistoryCheck` | the pool's ring of past rates and the accrual in segments, as operators; the same beside a log of the rate of every second |
| `Pool` | one pool, extends `RateHistory` |
| `Fundraising` | abstract: stakes in a pot that becomes one loan or goes back |
| `DebtContract` | one contract from listing to loan, cancellation or expiry; implements `Fundraising` |
| `LoanServicing` | the funded loan, extends `DebtContract` |
| `Revolving` | a revolving facility, extends `LoanServicing` |
| `Positions` | what changes hands in a trade of a position, extends `LoanServicing` |
| `Consent` | abstract: terms change when all who are asked agree |
| `Proposals` | amendments of the terms beside payments, recalls, liquidations, claims and trades, extends `Positions`; implements `Consent` |
| `Trading` | the market for positions, extends `Positions` |
| `MCRateHistory`, `MCPool`, `MCDebtContract`, `MCLoanServicing`, `MCRevolving`, `MCProposals`, `MCTrading` | values of the constants for TLC |
| `SumProofs`, `RateHistoryProofs` | lemmas about sums over finite sets, and about the ring and the accrual, on which the other proofs rest |
| `RateHistoryCheckProofs`, `PoolProofs`, `RevolvingProofs`, `ProposalsProofs`, `TradingProofs` | theorems about the modules they are named after, and their proofs |
| `LoanServicingProofs` | the same for `DebtContract`, its refinement of `Fundraising`, and `LoanServicing`, in this order |

In `Pool`, `pool`, `position`, `pendingChange` and `vault` are the accounts of
the same names; `loans` is what the pool's money does outside (lent, waiting in
escrows, lost, and credited as principal beyond what was lent), and `flows` is a history variable of the totals that crossed
the vault.

In `DebtContract`, `terms` are the fields no instruction of a listing changes,
`contract` the others, `contribution` and `escrow` the lenders' accounts, `usdc`
and `collateral` the contract's token accounts, `totalDebt` the sum over all
contracts in `State`, to which others contribute `OtherDebt`. `LoanServicing`
adds what happens to the funded loan; its next-state relation is the
disjunction of both. `Revolving`, `Proposals` and `Trading` compose with it:
each starts from a loan that has just been funded (`FundedInit`,
`RevolvingInit`: what the last contribution leaves behind), adds the state of its own
accounts (`facility`; `proposals`, the flag and the cooldowns; `listings` and
`offers`) and interleaves its actions with those of the loan that change what it
reads; `Proposals` and `Trading` interleave with all of them. `Revolving` has its own
versions of the loan's instructions, where the
code branches on `is_revolving`. `Trading` takes the flag of proposals as a
variable that anybody may switch, which is all the proposals are to it, and
`Proposals` has trades as one action, by which a lender gives another a part of a
position or all of it: listings and offers are nothing to it. There, the borrower is
not among the buyers, though the code does not exclude it: it would be no other
party than it was.

Each instruction is one action, named after it in CamelCase; an instruction of
the bot with the same body as a user's is the same action with a parameter.
`checked_*` arithmetic is a guard.

Definitions named `Faulty...` stand before the definition they are a broken
version of. They are not part of any specification; substituted for it, they
show that a property notices.

Abstractions common to all: keys, mints, account versions and bumps are left
out (the right accounts are passed); transfers from a caller's own wallet
succeed; a transfer from a modelled account is a guard on its balance; events,
statistics nobody reads back and the SOL operations fund are left out. The
order in which lenders' accounts are passed to a distribution matters only for
who comes last, so distributions have a parameter `last`. A contract's list of
contributions is a set (the code never stores a duplicate).

## Abstract specifications

`Fundraising` says what a listing promises: what lenders stake is held in one
pot, out of which comes one loan, of all of it and of no less than the borrower
would start with, or every stake goes back to who brought it. `DebtContract`
maps its statuses to phases, `funded_amount` and the contributions to the stakes,
and the contract's account to the pot (`Raising`, checked as `RaisesFunds`). It is not
obvious because three instructions start a loan, three end a listing, and the
account and the books are lowered by different handlers.

`Consent` says what proposals promise: a text replaces the terms only when
everybody it was put to, all the parties in the loan at that time, has agreed.
Parties may leave meanwhile, and others may join (`Admit`), who are bound by the text
without being asked. It promises no more because the code does not: trades are barred
while the flag is up, but the flag may be down over a pending proposal
(`proposals_flag`), and be raised again by another before the old one is
carried. `Proposals` counts approvals against a number while lenders are recalled,
trade and claim (`Consented`, checked as `TermsChangeByConsent`).

## Runs

| Run | Asks | Bounds |
|---|---|---|
| `rate_history` | Does segmented accrual equal accrual second by second? | ring of 2, three rates, seven seconds; rates change often enough to wrap the ring |
| `pool_queue` | Do direct and queued withdrawals, deployments, defaults and a terms change leave the queue and the books right? | 2 depositors, amounts 1 and 2, capacity 3 |
| `pool_yield` | Is yield neither lost, doubled nor promised twice? Do vault and utilization stay explained? | 2 depositors, one unit of yield per unit and second, two seconds, one unit paid in beyond the loans, as interest or as principal |
| `pool_timelock` | Do terms change only as announced, is the idle clock right, and do rate changes leave earned yield alone? | 1 depositor, two kinds of change, one of the rate, a ring of one entry |
| `listing` | Is funding backed, a listing fillable, a loan what was lent, everybody refunded? Does it implement `Fundraising`? | 3 lenders, 4 offers: plain, partial fill with a frontend, single lender without collateral, allowlist |
| `servicing` | Do payments, automated transfers, recalls, liquidations and claims agree in any order? | 2 lenders, demand and committed loans of 3 units, with and without a schedule, prices 0 and 2, three clock units |
| `revolving` | Do limit, draws, charges and `total_debt` agree through recalls and liquidations, and does a closed facility complete? | 2 lenders, a demand and a committed facility, draws of 1, payments of 1 and 2, prices 0 and 2, three clock units |
| `proposals` | Do terms change by consent only, is the flag never stuck, are pledges kept, and can they be called in? | 2 lenders who may buy from each other and the borrower, a demand loan with one proposal and a committed loan with three, expiry and grace of one clock unit, two clock units |
| `trading` | Do positions add up, within the cap, and escrows with them? | 3 traders, demand and committed loans of 3 units with room for two lenders, parts of 1, two listings and one offer at once |

The bounds are small because the arithmetic is relative: two lenders with
contributions 1 and 2 already make every division leave a remainder, two
depositors already compete for the same liquidity, and two prices give a
healthy or partially liquidatable position and one that is worth nothing. The
clock reaches past every timelock, grace period and expiry. Three proposals are
what it takes for a flag to go down over a pending one (two, of which the older is
closed), a lender to join, and the flag to be up again; pledges, which only demand
loans have, are of one proposal each, so one is enough there
(`MaxDemandProposals`). The cooldown of `proposals` is longer than its clock: a proposer
who failed is out, the others go on. Two listings are what it takes to
list a position twice, and a single offer because acceptances do not read other offers.
In `pool_timelock` the ring has one entry and the clock leaves time for two
changes of the rate, so that the second one drops an entry, with and without
somebody who has yet to be paid at the rate that is lost; `YieldIsConserved` says
what it says of the first case only, because in the second the code changes what is
owed (see below). Denominators are
small (10 instead of 10,000 basis points) so that fees and thresholds are
reached by small amounts. `CHECK_DEADLOCK FALSE` is set everywhere: the clock's
bound ends a behaviour, and a finished contract has nothing left to do.

Each passing run's properties are stated with a comment in the module that
defines them. Those that say most:

- `YieldMatchesRateLog`, `ChangeIsNotRetroactive`: an accrual from any past
  second pays the rates that were in force.
- `YieldIsConserved`: no step but the passing of time changes what depositors
  are owed plus what they were paid, a change of the rate included, unless it
  drops a rate from the ring that somebody has yet to be paid at.
- `VaultMatchesBooks`, `UtilizedIsOutside`: the vault and the utilization are
  explained by the books and by what crossed the vault.
- `QueueNeverStranded`: a request exists only while there is a queue to serve it.
- `RaisesFunds`, `FundingIsBacked`, `LendersAreRefunded`: the ways a
  loan starts agree, and a cancelled contract pays everybody back.
- `DistributionsAreExact`, `EscrowsHoldTheirAmount`: in whatever order accounts
  are passed, a distribution is paid in full and escrow books match their
  tokens.
- `CollateralIsHeld`, `NoDebtIsLeftBehind`: the collateral that one instruction
  reads from the account and another from the books is the same, and no loan
  ends with debt that nobody can pay.
- `RecallNamesALender`, `RecallSparesTheOthers`, `RecallIsSettled`: recalls can
  be settled, at nobody else's expense, and are.
- `FacilityAddsUp`, `TotalDebtIsDrawn`: nobody draws on the money of a lender
  who has left, and a facility leaves nothing behind in `total_debt`.
- `PastChargesStand`: drawing, repaying or a partial liquidation changes what is
  charged from now on, never what is due for the time before.
- `ClosedFacilityCompletes`: the step that pays the last of a closed facility
  completes it; no later one could.
- `TermsChangeByConsent`: see above.
- `PledgesAreKept`, `PledgesCanBeCalledIn`: a
  failed proposal is closed only when those who pledged to leave have left, and
  the bot can call in the pledges of a secured loan that is still running, whatever
  recalls, payments, partial liquidations, claims and trades came before.
- `PositionsAddUp`, `LendersStayWithinCap`: listings made when there was room
  are accepted when there is none, and of positions sold in part since, but the
  lenders of the contract stay its owners and within the cap.

### Where the code differs from what the repository says

Three runs end in a violation, each of one property that restates a comment or a
test:

- `pool_exit`: "depositors can always exit during pause" (`instructions/pools.rs:648`).
  Compounding into a deposit of zero does not count the depositor, whose full
  withdrawal then fails on `num_depositors - 1`.
- `servicing_credit`: the credit of `update_lender_escrow` is off by at most
  "(num_lenders - 1) atomic units" (`instructions/lending.rs:3590`). It credits
  again what was claimed, and credits a recalled lender by a funded amount that
  the recall has lowered. `claim_from_escrow` then fails until other money
  arrives.
- `proposals_flag`: "accept_trade_offer must fail with ProposalAlreadyActive for
  active proposals" (`tests/security_regression_static.ts:1052`). Closing the
  accounts of an old proposal takes the flag from a new one, which is pending
  without anybody being able to vote on it.

### What a maintainer may want to look at

Behaviours of the code that the models have, and that no document speaks
against clearly enough to be a finding:

- A ring of seven entries forgets: with more changes of the rate since a
  depositor's last update, the time before the oldest entry is paid at that
  entry's rate, so what the depositor is owed jumps when the entry is dropped.
- Compounding fills an empty pool without clearing `idle_since`
  (`state/pools.rs:83` says "0 when not idle"); the stamp is renewed
  when the pool is next empty, so no pool expires early.
- A demand loan without collateral whose lender asks for a recall stays in
  `PendingRecall`: every way out demands a collateral account or an active
  contract.
- After a payment and a recall, a liquidation retires less of `total_debt` than
  the loan has left in it; capitalised interest is paid out of other loans' part.
- `automated_principal_transfer` pays whatever `total_principal_paid` says,
  which a distribution may have paid already, and resets it.
- A closed facility completes with undrawn money in its account, which neither
  lenders nor (while there are lenders) the borrower can then take. Standby fees are paid out
  of that money whether or not the borrower has paid them in. A partial
  liquidation makes money of a closed facility available again on the books, and one that
  brings `credit_limit` to zero caps accrued interest at zero.
- Recalls change what is drawn without a checkpoint: the time since the last one
  is charged at the lower amount.
- Contracts credit pools with more principal than they lent: capitalised interest
  that is repaid, and the interest in a share of a liquidation or a recall
  (`instructions/lending.rs:1994-2026`, `:2643`, `:2989`,
  `instructions/payment_operations.rs:584-586`). `pool_claim_from_escrow` subtracts all
  of it from `current_utilized` with a `checked_sub`
  (`instructions/pools.rs:1816-1820`). As long as the pool has other principal out,
  that counts too little as utilized; else the claim fails, and what is in
  that escrow stays there until the pool lends again. `update_lender_escrow` credits principal
  again that was claimed, after which the claim's transfer fails.
- A lender who joins while a proposal is pending without its flag is bound by
  it without being asked, if those who were asked carry it later.
- A pledge may be beyond processing once the loan has ended: a full liquidation closes
  the collateral account that `process_proposal_recall` demands
  (`instructions/lending.rs:2088-2096`, `contexts/proposals.rs:207-212`), and a
  claim on a finished loan closes the lender's escrow
  (`instructions/lending.rs:3523-3543`). The failed proposal can then not be closed.
  The `checked_sub` of `total_debt`, which does not grow with capitalised interest, may
  refuse a pledge of a running loan too.
- A lender who sold out after pledging a recall can never be processed, and the
  proposal cannot be closed. Processing a pledge while another lender's recall
  is pending makes the loan `Active` with the request still on its books.
- An approved text may shorten the term of a committed loan to one that is
  already over, so that it can be liquidated at once.
- A trade moves escrow books but no tokens, so a buyer's escrow owes more than
  it holds until the next distribution, and rounding may leave the seller's
  claimable amounts a unit above `escrow_amount`.
- A seller's accounts are not closed, so who was a lender once can never buy
  again. An offer outlives its listing and is good for another one under the
  same nonce; its buyer may not take it back while that one is active.
- A collateral type that was deactivated can be neither reactivated nor added
  again, and liquidations and draws demand an active one.

## Fairness

Safety runs assume none. `FairListingSpec` assumes that the bot refunds: for
each lender, a refund that stays possible is made (`refund_lender` or
`bot_refund_expired_lender`, which need no unpaused platform).
`FairLoanSpec` assumes that the bot settles pending recalls by `process_recall`
or, which stays possible while the platform is paused, by liquidation. It
sees the highest price of the oracle when it liquidates, so that no loan is
settled merely because its collateral would be worthless at another price.
Neither assumes anything of borrowers or lenders, or of the pause flag.
That pledgers do leave is not stated as liveness: once a loan has ended they
may be unable to. `PledgesCanBeCalledIn` says instead that while it runs the bot is never
refused, so that a bot that acts before the end does call them in.

## Proofs

Every invariant but one, every action property and both refinements that the passing runs
check are also theorems, for all values of the constants that satisfy the
assumptions named in the modules. The theorems that a reader should know of are listed in `PROJECT.json`; what follows is how they are argued. Except
where it says otherwise there is one lemma per action, instructions that share a
body share lemmas about it, and `checked_*` guards give the upper bounds, so
that no bound on the clock or on amounts enters.

The assumptions say that constants are numbers in the ranges the program
enforces. Those that the arguments lean on: a set of lenders or depositors is
finite (keys have 32 bytes); an offer has the fields an amendment may replace; a
fee on deposits is less than the whole deposit (`MAX_FEE_TENTHS_BPS` is 100 of
100,000); recall and prepayment fees are at most the whole; the standby rate
is between zero and the interest rate.

### Sums

`SumProofs` is about `MapThenSumSet`, which recurses by choosing elements of a
set. It shows that the recursion has exactly one solution on the subsets of a
finite set (the library's well-foundedness of strict inclusion gives a minimal
counterexample; no induction theorem with an operator parameter is used) and from
that what the books need: the sum does not depend on the order, changes by
one term when one term changes, is monotone, additive and homogeneous, and shares of an
amount in proportion to the parts of a whole, each rounded down, never exceed the
amount (`SharesFit`).

### Pool

- `PoolInvariant` joins the types with `UtilizedWithinDeposits`,
  `VaultMatchesBooks` and `UtilizedIsOutside`. The parts need each other: types
  because `available_liquidity` subtracts, the equation of the vault because
  payments are bounded by the vault, and that of the utilization because
  `pool_claim_from_escrow` lowers it by the principal in an escrow. That equation has
  the principal credited beyond what was lent on one side: it does not say that the claim's subtraction
  succeeds, which is false, but for what sum alone it may fail. `PoolTypes`,
  `LoansWithinDeposits`, `VaultIsAccountedFor` and `UtilizationIsAccountedFor` are
  its parts.
- `DepositorsInvariant` adds the sums of deposits and of credited yield, the number of
  requests, `QueueNeverStranded` and that an account that does not exist is
  empty. Each instruction of a depositor is shown to move the totals by what it
  moves in that depositor's account. `TotalsAreAlwaysSums`, `QueueCountIsExact` and
  `QueueIsNeverStranded` follow.
- `TermsAlwaysChangeAsAnnounced` needs that a pending change takes effect at its
  announcement plus the timelock (`AnnouncedInTime`).
- `CreditedYieldIsAlwaysBacked` follows from the single place that credits yield.
- `IdleClockAlwaysStartsAtEmpty` is the subtle one. Compounding fills an empty pool
  without clearing its stamp, so a pool in use may carry an old one, and a withdrawal
  that empties it would keep that. It cannot: such a pool counts no
  depositor (`IdleBooks`, with the count never above the number of
  accounts with a deposit), and the withdrawal that would empty it fails on the
  count, as `pool_exit` shows. A deposit, which clears the stamp, counts because
  its fee leaves some of it.
- `YieldIsAlwaysConserved` rests on `EarnedStands` (see the next section), whose
  hypothesis about the ring is the invariant `RateBooks`: the ring fills before it
  wraps, its times are in order and not after the current rate's, and no
  deposit is credited for time that has not passed. It is a theorem of its own
  (`RateBooksAreInOrder`). The rest is bookkeeping: each instruction of a
  depositor moves what that depositor is due by what it pays, and all others'
  accounts stand, so that the sum moves by one term.

### Rates and their log

`RateHistoryProofs` is about what `EarnedYield` computes for anything that has the
four fields of a pool it reads. Its fold over the rates in the ring has exactly
one solution, shown as for the sums, so it can be taken apart into one cut per
entry (`Cuts`, `CutsAre`). What a push does to the sequence of rates is stated
once for a ring with room (`PushedNotFull`) and once for a full one (`PushedFull`).
`EarnedStands` says that a rate change is not retroactive. There are three cases:
the ring has room (`EarnedAsGrown`); it drops a rate that had ended when the
deposit was last credited (`EarnedAsShifted`); or it comes out as it was, because
what it drops is a copy of what it adds (`EarnedAsRepeated`).

`RateHistoryCheckProofs` compares the same computation with the log of the rate of
every second.

- `RateHistoryInvariant`: types; that the ring fills before it wraps, its times
  and the current rate's are strictly in order and not in the future, and the
  log says of every second from the oldest entry on what the ring says
  (`LogBooks`); that what was credited is what the log pays up to the last sync,
  less one rounding per segment at most (`SyncBooks`). While the history variable
  `forgot` is false, the oldest entry is not after the last sync, which is what
  makes the ring enough.
- `YieldAlwaysMatchesRateLog` adds one accrual to that. The accrual is
  followed entry by entry (`SoFar`): after the cut at each entry, what has been
  earned is the sum over the log up to the start of the open segment, with one
  rounding per change inside the window, and the rate of that segment is the
  log's from there to the next entry. `EarnedAsLogged` is the last cut. That the
  roundings are as many as `SegmentsSince` counts is a fact about the
  cardinality of the changes inside the window.
- `ChangeIsNeverRetroactive` is `EarnedStands` again, for any ring and any rates, and
  for a sync the fact that nothing is earned in no time.

### Listing

- `ListingInvariant`: types, `ListingHasRoom`, `ContributorsAreListed`, a finite
  list of contributors, `AccountHoldsFunding` (`usdc = funded_amount` until the
  loan starts and after a cancellation) and a record that is untouched until the
  listing. `ListingHasRoom` is the subtle one: a contribution that leaves
  something missing was not the last one there was a place for, or
  `FillsListing` would have refused it. The count of contributors needs the
  list to be finite and the lender who joins not to be on it already, which
  comes from `ContributorsAreListed`.
- `ListingBooks` adds `FundingBooks`, that `funded_amount` is the sum over the
  contributors, and that each of them has something in. `ListingIsBacked` and
  `LoanStartsAsLent` follow.
- `ListingMovesAsDocumented`: every change of status is one
  `ContractStatus::valid_transitions` lists.
- `ListingRaisesFunds` is the refinement: initial states
  map to initial states, and each step of a listing to the step of `Fundraising`
  it stands for or to a stutter. The mapping needs two facts besides the
  invariant: an open contract names the borrower's goal as its target, and nobody
  on the list of contributors has an empty stake. That the threshold in basis
  points, met by multiplication, is the abstract threshold in units, rounded up,
  is a lemma about integer division (`RoundedUpIsLeast`). The loan starts in three
  ways (the last contribution, the borrower closing the listing and the expiry
  of one that is filled enough); the latter two are one lemma.

### Loan

`LoanInvariant`, of `LoanSpec`, which starts with the listing: the listing's
invariant and books, `EscrowsHoldTheirAmount`, `RecallNamesALender`,
`CollateralIsHeld`, `NoDebtIsLeftBehind`, and four facts of their own: before the loan
nothing is in an escrow and nothing recalled, contributors have escrows, and the
last scheduled payment is not in the future. Distributions are the long part. The
shares of all but the last lender fit the amount (`SharesFit`), so the last one's
remainder is not negative, and together they are the amount.

- `EscrowsAlwaysHoldTheirAmount`, `RecallsNameALender`, `CollateralIsAlwaysHeld`,
  `NoDebtIsEverLeftBehind`, `LoanIsBacked` and `LoanTypes` are parts of it.
- `LoanMovesAsDocumented`: the transitions of all instructions together.
- `RecallNeverHurtsTheOthers`: the part of debt and collateral that leaves with a
  recalled lender is rounded so that the ratios of those who stay do not fall.
- `DistributionsAreAlwaysExact`: for any number of lenders and any order of
  accounts.

### Facility

`RevolvingInvariant`: types, `FacilityAddsUp`, `TotalDebtIsDrawn`,
`ClosedFacilityCompletes`. A recall lowers the limit by the lender's
part, and the drawn and undrawn amounts by parts of their own, each rounded: that what
is left still fits the limit is an argument about the roundings. A partial
liquidation is bounded by what is drawn. `FacilitiesAddUp`,
`TotalDebtIsAlwaysDrawn` and `ClosedFacilitiesComplete` are its parts;
`PastChargesAlwaysStand` shows of each instruction that it charges for the time
that is over before it changes what is charged on.

### Proposals

`ProposalsInvariant`: identifiers are used in order, approvals count the
participants who voted for, recalls processed are no more than the pledged
lenders who have left, and the flag is up only over a proposal that can be voted
on. `FlagIsNeverStuck` is a part of it. `PledgesAreAlwaysKept` is the pigeonhole: when as many
recalls were processed as lenders pledged, all who pledged have left.
`TermsOnlyChangeByConsent` is the refinement of `Consent`: approvals equal to the number of
participants mean that the set of voters is the set of participants, though lenders may leave and
others join the contract between the votes. Every instruction of the loan is a
step of `Leave` or a stutter (`LoanStep` is all of `LoanServicing`), and a trade is
`Admit`, because the buyer's accounts are new and so it was not in the contract; for
that the invariant has that contributors have accounts that are not refunded, and
that who pledged has an account.

### Market

`TradingInvariant`: types, `PositionsAddUp`, `LendersStayWithinCap`,
`EscrowsAddUp` and that an escrow not yet created has empty books. Who sells
everything makes room for the buyer; only the sale of a part takes another
place, and there `MayDivide` asks whether one is free. Escrow books move
with a part of a position, to an account whose books are empty, which is why
the last part of the invariant is needed. Sold-out sellers keep accounts that
exist and hold nothing, so the owners are the accounts with an amount, not those that
exist. `PositionsAlwaysAddUp`, `LendersAlwaysWithinCap` and `EscrowsAlwaysAddUp` are its
parts.

### Model-checked only

- `LendersAreRefunded` and `RecallIsSettled` are liveness
  properties under fairness, whose proofs need `ENABLED`, which this prover does not support.
- `PledgesCanBeCalledIn`: its proof would need the loan's invariant, which speaks of
  loans without proposals and trades, carried over to processed pledges and trades.
- The three violations are behaviours TLC finds; there is nothing to prove.

## Not modelled

- The collateral registry: a list edited by the authority, whose effect on loans
  is the one listed above. The models keep every collateral type active.
- The treasury's and the platform's authorities (two-step transfers, bot
  authority, fee rates, frontends): each instruction checks a key or a bound and
  assigns a field. The models take any fee and leave keys out; of the pause flag
  and the treasury's balance they have what other instructions read.
- Price accounts: parsing, staleness and confidence are functions of bytes and
  one clock. The models take any price of a small set.
- The SOL operations fund, events, trade statistics, the valuation of
  positions: nothing the models speak of reads them.
- The SDK, the transparency service and the tooling.
- A composition of `Pool` with `DebtContract` in place of the abstract `loans`:
  the product of the two state spaces is out of TLC's reach at bounds where both are
  interesting; `loans` stands for all contracts together. It credits principal and interest in any order and
  split, principal beyond what was lent up to the bound included, loses principal and
  refunds it; it does not tell contracts apart (a claim takes any part of what is in the
  escrows), relate interest to balances, or have the credits of `update_lender_escrow` that bring no
  tokens.
- What a loan that was completed has left of accounts: a partial liquidation that
  leaves no collateral, or the repayment of a loan against native tokens, closes the collateral
  account (`instructions/lending.rs:2766-2775`,
  `instructions/payment_operations.rs:349-358`). `Proposals` still processes pledges of such a
  loan, which the code refuses; of a liquidated loan it refuses them as well.
- Purchases by the borrower in `Proposals` (see above).

`PROJECT.json` lists the hazards that no property covers, each with the reason.

## Plan

Every safety property that the runs check but `PledgesCanBeCalledIn` has a proof. What
remains open is that one, the liveness properties, for a prover with `ENABLED`, and the hazards without a
property, of which the collateral registry and the standby fees paid out of
undrawn money are the ones to model next.
