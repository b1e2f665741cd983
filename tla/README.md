# A specification of the White Whale liquidity hub

TLA+ modules, TLC model checks and TLAPS proofs of the contracts under
`src/contracts/liquidity_hub`. The contracts are CosmWasm programs: every call is a
message handled in one transaction, a failing message is undone with all it did, and
transactions are ordered by the chain. What makes the system hard is therefore not
parallelism inside a contract. It is the order of transactions of independent users, the
passing of block time between them, messages a contract sends in the middle of its own
work (submessages, replies, callbacks to somebody else's contract), and integer
arithmetic that rounds.

## The system

| component | state it keeps | operations | talks to |
| --- | --- | --- | --- |
| `whale_lair` (bonding) | `CONFIG`, `BOND`, `UNBOND`, `GLOBAL`, its coins | Bond, Unbond, Withdraw, UpdateConfig; queries Bonded, Unbonding, Withdrawable, Weight, TotalBonded | is asked for `Weight` by the fee distributor |
| `fee_distributor` | `CONFIG`, `EPOCHS`, `LAST_CLAIMED_EPOCH`, its coins | NewEpoch and the reply to it, Claim, UpdateConfig; queries CurrentEpoch, Epoch, ClaimableEpochs, Claimable | sends ForwardFees to the collector as a submessage; asks the lair |
| `fee_collector` | `CONFIG`, `TMP_EPOCH`, `TMP_ASSET_INFOS`, its coins | CollectFees, AggregateFees, ForwardFees, UpdateConfig, a reply | collects from vaults and pairs, swaps through the pool router, sends the fees and the epoch's data back |
| `vault` (flash loans) | `CONFIG`, `LOAN_COUNTER`, three fee books, its asset and its liquidity token | Deposit, Receive/Withdraw, FlashLoan, Callback/AfterTrade, CollectProtocolFees, UpdateConfig | calls the borrower's contract, then itself |
| `vault_router` | `CONFIG` | FlashLoan, NextLoan, CompleteLoan, UpdateConfig | borrows from a vault for the caller and pays back |
| `vault_factory` | `CONFIG`, `VAULTS`, `TMP_VAULT_ASSET` | CreateVault and its reply, RemoveVault, UpdateVaultConfig, MigrateVaults | instantiates and configures vaults |
| `terraswap_pair` | `CONFIG`, fee books, two assets and a liquidity token | ProvideLiquidity, Swap, WithdrawLiquidity (as a message or as the hook of a cw20), CollectProtocolFees, UpdateConfig | is called by the pool router and the collector |
| `terraswap_router` | `CONFIG`, `SWAP_ROUTES` | ExecuteSwapOperations, ExecuteSwapOperation, AssertMinimumReceive, AddSwapRoutes | swaps hop by hop through pairs |
| `terraswap_factory` | `CONFIG`, `PAIRS`, `TMP_PAIR_INFO`, `ALLOW_NATIVE_TOKENS` | CreatePair and its reply, RemovePair, UpdatePairConfig, AddNativeTokenDecimals | instantiates and configures pairs |
| `terraswap_token` | a cw20 ledger | the cw20 messages | liquidity token of pairs and vaults |

The paths that cross contracts:

* **A new epoch.** Anyone sends NewEpoch to the distributor. If the current epoch is over
  it sends ForwardFees to the collector as a submessage. The collector collects from
  vaults and pairs, swaps everything into the distribution asset, and in a reply sends
  its balance and the epoch's data to the distributor, whose own reply stores the new
  epoch and moves what the expiring epoch still has into it. All of that is one
  transaction.
* **A claim.** The distributor asks the lair for the weight of the claimer *now*, and pays
  that share of every epoch within the grace period that the claimer has not claimed.
  Bonds, unbonds and other claims happen between the epoch and the claim.
* **A flash loan.** The vault sends its asset to the borrower's contract, calls it, and
  then calls its own AfterTrade. The borrower may meanwhile call the vault again: take
  another loan, withdraw shares, make the vault send its protocol fees away.

### What is hard, and what must hold

* `whale_lair`: weights of accounts and of the global index are brought up to date at
  different moments and must still add up; unbonding requests are keyed by the second and
  read a page at a time; refunds are paid from a pool of everyone's coins. It must hold
  the coins of every bond and request, count bonds exactly, pay every matured request,
  and give no weight without a bond.
* `fee_distributor`: the epoch that gives up its fees is found by its position among the
  latest `grace_period` epochs, at the moment before the new one is stored, while the owner may
  lengthen the grace period; with fewer epochs than that it is the first of them, whose fees
  can still be claimed. Shares are read at the claim and not at the epoch. It must pay no epoch
  twice to one user, never pay with the fees of another epoch, leave no fees behind, and
  keep the schedule however late it is called.
* `vault`: everything of interest happens inside a call of a stranger. The loan counter
  must say exactly whether a loan is in progress, each protocol fee must be forwarded
  once, and no transaction may make a share worth less.
* `vault_router`: a loan is four messages of three contracts, with those of the initiator in
  the middle, which may borrow through the router again. The router pays back out of all it
  holds and gives the rest away, so that it must hold nothing of anybody else's, the vault
  must be paid for every loan, and the initiator must get what is left, no less and no more.
* `fee_collector`: one call is a list of messages that produce messages; the amounts of
  swaps are read before the swaps are executed; two temporary items carry data between
  handlers; factories list a page at a time. A forwarding must collect before it swaps,
  swap before it forwards, and do all of it or nothing.
* pools: fee books that must stay out of the amounts that are traded and shared, and
  roundings in deposits, withdrawals and swaps that must not be at the cost of those who
  hold shares, nor empty the pool. On the stableswap curve amounts are the result of Newton
  iterations that stop early and divide in integers.
* `terraswap_router`: every hop offers the router's whole balance, whoever it came from, and the
  minimum is measured by two readings of a balance with all the swaps between them. The
  receiver must get the minimum, a simulation must hold, and nothing may stay behind.
* factories: a creation is checked in one message and recorded in a reply, with one temporary
  item between them; lists are read a page at a time while entries come and go; contracts
  and entries of several versions meet migrations. An entry must lead to a contract that is
  what the entry says, a reader must miss nothing, and what a migration writes
  must be what the new program reads.

The hazards, each at the line where it bites, are in `PROJECT.json`.

## The modules

| module | models |
| --- | --- |
| `Sums` | `Sum(f, S)`: the sum of amounts over a finite set, and maps with entries added and removed |
| `WhaleLair` | `whale_lair`, every execute message and the queries the distributor needs |
| `FeeDistributor` | `fee_distributor`, every execute message; the collector as seen from it |
| `LiquidityHub` | the two together: INSTANCEs of both, with a claim that takes its share from the lair |
| `Vault` | `vault`: every execute message, loans inside loans, and calls that fail |
| `VaultRouter` | `vault_router` over a vault (EXTENDS `Vault`): its messages one by one, between those of everyone else |
| `FeeForwarding` | what the collector promises: a new epoch's forwarding as one step |
| `FeeCollector` | `fee_collector`: every execute message, message by message, its reply and the query of the fees; implements `FeeForwarding` |
| `TerraswapPair` | `terraswap_pair` with the constant product curve: every execute message |
| `PoolCurves` | pure: swaps and reverse simulations of both curves |
| `SwapRouter` | `terraswap_router` over pairs of both curves: its messages, routes and simulations |
| `PageWalk` | the pages of a factory's list, and a reader of them |
| `VaultFactory`, `PoolFactory` | `vault_factory` and `terraswap_factory`: every execute message with the replies, and the migrations of factories, vaults and pairs |
| `Factories` | the two factories, and one reader of their lists |
| `MCWhaleLair`, `MCLiquidityHub`, `MCVaultRouter`, `MCFeeCollector`, `MCTerraswapPair`, `MCSwapRouter`, `MCFactories` | instances for TLC: the funds of each user, fees and switches, payloads, operations, what factories list |
| `Arithmetic` | lemmas on products, quotients, square roots and sums |
| `WhaleLairProofs`, `FeeDistributorProofs`, `LiquidityHubProofs`, `VaultProofs`, `FeeCollectorProofs`, `TerraswapPairProofs`, `RoutingProofs` | the theorems and their proofs; `VaultProofs` has those of the vault alone and with its router, `RoutingProofs` those of the factories, of the swap router and of the curves |

Common to all: a message that fails is undone by the chain and is no step, so that a
handler's error paths are the conjuncts of its action's guard. A bank message with a zero
amount fails, and the transaction with it. `Decimal` is modelled as an integer number of
`1/Unit`, and every `floor` of the code is a `\div`. Amounts stay far below 2^128 in any
run, where the code refuses an overflow with an error; overflow is not modelled.

**`WhaleLair`.** Variables are the storage items (`lair_config`, `bond`, `unbond`,
`global`), the block time and the bank's balances of the contract and its users. `Bond`,
`Unbond`, `Withdraw` and `UpdateConfig` are the handlers of `commands.rs` with
`update_local_weight` and `update_global_weight` folded in, in the order of the code.
Time runs in ticks, `TicksPerSecond` to a second, because maturity compares nanoseconds
while weights and the keys of `UNBOND` use seconds. The `bonding_assets` whitelist is a
constant; which messages carry which coins is checked by the code and is the range of the
action's parameters.

**`FeeDistributor`.** `epochs` is a sequence: ids count up from one. An epoch's lists of
fees are functions from the assets they list; a list may be without an asset or have it
with the amount zero, and the code treats the two differently. The order of a list
matters in one place, the record of claimed fees, for which `first` remembers the asset
listed first. `NewEpoch` is NewEpoch, the collector's ForwardFees with its reply, and the
distributor's reply. `Claim(u, share)` takes the share as a parameter: alone, the module
is checked and proved for any share at all.

**`LiquidityHub`.** The variables of both, and one clock. `Claim(u)` passes the share
`query_weight` computes from the current bonds.

**`Vault`.** `loans` is the stack of loans in progress. While it is not empty only the
innermost borrower acts, which is what a single transaction allows. A call that fails is
undone with everything that happened in it, while its caller may go on (a submessage
whose error is handled): each entry keeps `before`, the state to return to, and `Fail`
returns there. `AfterTrade` is the callback the vault sends itself. `UpdateConfig` is
restricted to between transactions. The liquidity token is the ledger `lp`, for the cw20
token and the token factory alike.

**`VaultRouter`.** The router is one of the vault's users, and the only one that does nothing
but what its messages say: `tasks` is the list of those still to be performed. `Borrow` is
FlashLoan up to the callback: the vault's loan, the payload, `CompleteLoan`, and the vault's own
callback with the number of the loan it ends. `NestedFlashLoan` is a payload that borrows
through the router again, from the same vault. Other users borrow directly or have the router
borrow for them, within a loan of theirs too, and anyone may collect the fees in the middle of a
call (except between the payback and the vault's callback, where no one has a turn). No message
of the router handles an error, so that `RouterFail` returns to the state before the outermost
of the router's loans. `ledger` is no storage: it remembers what the trades of a call gained and
what its loans cost, which two of the properties speak of. Loans of several assets are refused
by the code. The vault is looked up through a factory, which may be one that does not know it.

**`FeeCollector`.** A transaction is the list `tasks` of the messages still to be executed: the
first is executed, and the messages it sends take its place, which is the depth-first order of
the chain. `ForwardMessages` is the list of ForwardFees, in the order of the code; its last
entry is the reply, which comes after every message the one before it leads to.
`TMP_ASSET_INFOS` is written, read and cleared within one handler and is therefore the operator
`AssetInfos` and no variable: of the `Places` at which assets are stored one after the other,
those whose label no later one has, so that one asset is left for each label, the last one
stored. `Swaps` makes one message for each of them that has a balance and a route. `Swap` is the
router: any return up to the amount offered, and new fees in any of the pools. A failing message
undoes the transaction: `before` is where `Fail` returns to. It may be any swap, and a reply
without an epoch or with a token to send. The whole of it is abstracted by `FeeForwarding`,
whose variables are those of the last moment between transactions. It is the abstract
specification: `Forward` is one step that collects from all listed contracts, sells every asset
that is sure to be sold (it is listed, has a route and does not share its label) and hands over
at least what has been collected in the asset asked for.

**`TerraswapPair`.** Assets are 1 and 2, their positions in `asset_infos`; an operator
`Pool(a)` is what every handler computes first, the balance without the protocol's fees.
(The code subtracts a native deposit from the balance it queries, because it has arrived
already; here the balance is still the old one.) `Gross`, `Spread`, `FeesOf` and `Return`
are `compute_swap`, with one `\div` for each conversion. Both assets have the same
decimals. `FactoryLp` says whether the liquidity token is a cw20 or of the token factory,
which decides the way a withdrawal takes.

**`PoolCurves`.** The computations behind swaps and simulations, for the constant product and
the stableswap curve, in integers and in the order of the code. `Newton` is both of its loops:
thirty-two iterations (`NewtonSteps`, a recursive function of the iteration), stopped by a
tolerance. A computation that does not converge, or that fails in the code (a subtraction below zero, a
division by zero), has the result `Undefined`.

**`SwapRouter`.** As in the collector, a transaction is a list of messages, and `call` has what
it began with. Each `ExecuteSwapOperation` offers all that the router has of the asset, the
pair's swap is that of `PoolCurves` with the fees it sets aside or burns, and
`AssertMinimumReceive` compares with the balance read when the call arrived. Pairs are looked up
on the factory's list, from which they may disappear between calls; routes are added by the
admin of the contract, or by anyone where it has none; coins of others may lie in
the router; callers may ask for operations that do not follow each other, which
`AssertOperations` lets pass as the code does.

**`PageWalk`, `VaultFactory`, `PoolFactory`, `Factories`.** The contracts a factory has created
are a sequence of records with what the factory and the migrations read and write of them; a
creation with all its replies is one transaction and one action, through `tmp_vault_asset` and
`tmp_pair_info` as in the code. An asset's name is a number, and keys are ordered as the bytes
of names are. Versions are numbers (113 is 1.1.3), and what an older version stored is a
*layout*: a migration turns one layout into another, and a contract can be read when its layout
is that of its version. A behaviour begins with a factory just instantiated or with one of an
older version that has vaults or pairs of older versions. The reader of `PageWalk` is
anyone who wants the whole list (the fee collector reads one page of it only): it asks for the
page after the last key it saw, until it gets none. Its
record keeps what it has seen, what it has seen twice, and what has been listed all the time
since it began.

## What is checked

Each run is a `.cfg` of that name. `TypeOK` is the one type invariant of a module.

| run | states | shows |
| --- | --- | --- |
| `lair_core` | 57,510 | bonds are counted exactly (`GlobalMatchesBonds`); refunds never use bonds (`Solvent`); local weights add up to the global one (`WeightsAgree`); nobody's coins change but by a collision of requests (`OnlyCollisionsLose`); every request that matures is paid (`RequestsArePaid`) |
| `lair_same_second` | violation | two unbondings of one account in one second: the second request replaces the first (`NothingLost`) |
| `distributor` | 150,840 | the contract's coins are exactly what epochs have available (`Backed`); no fees in expired epochs (`NoStrandedFees`); an epoch pays a user once (`ClaimOnce`); an epoch loses what it has to claims, or all at once to a new epoch as it leaves the grace period, the very first epoch excepted, which may lose it earlier (`FeesHandedOver`); whoever has not claimed that epoch, or another that is claimable though emptied, before it was emptied can claim nothing until it expires (`EmptiedEpochsLockOut`); all epochs eventually hand over (`FeesMoveOn`) |
| `hub` | 348,306 | nothing is paid to who has no bond (`PaidOnlyBonders`); with a growth rate that changes at any time, the hub implements the distributor with shares between zero and one (`DistributorSpec`) |
| `hub_late_bonder` | violation | bonding after a new epoch leaves too little for others, whose claims are then refused (`ClaimableCanBeClaimed`) |
| `vault` | 4.06 million | with loans directly and through the router: the counter is the number of loans in progress (`CounterCountsLoans`); each protocol fee is in the books or with the collector, once (`FeesForwardedOnce`); no transaction makes a share worth less (`ShareValueKept`); a call through the router changes no wallet but the initiator's, which gets what the trades gained less the fees of all loans (`ProfitToInitiator`); and the pool grows by the flash loan fees of all of them (`RouterPaysInFull`) |
| `pair` | 111,232 | the pool always has the protocol fees of its books (`FeesSetAside`), each of which is forwarded once (`FeesForwardedOnce`); a pool with both assets keeps them (`PoolStaysOpen`); no call makes a share worth less (`LiquidityKept`); no swap is refused because a spread rounds below zero (`SpreadDefined`) |
| `pair_toggle` | violation | with a token factory liquidity token, withdrawals go on after the owner has disabled them (`NoWithdrawalWhileDisabled`) |
| `collector` | 192,022 | every call is one step of `FeeForwarding` or nothing, also with swaps that fail (`ForwardingSpec`); what an epoch collects is what the query of the fees had answered (`CollectionForetold`); no swap is given more than there is (`TypeOK`) |
| `swap_router` | 294,211 | operations that follow each other leave nothing in the router (`NothingLeftBehind`); the receiver gains the minimum (`MinimumReceived`); a simulation is what the call then returns (`SimulationHolds`); a coin more than the reverse simulation says buys what was asked for, if that is not above the atomics of the fees (`OneMoreIsEnough`); what a stableswap pair keeps is within two units of the exact root of the curve for the `D` the code has computed (`StableCurveKept`) |
| `factories` | 434,443 | lookups find a contract of the assets asked for, and entries agree with the contracts (`VaultsMatchAssets`, `PairsAgree`); migrated contracts can read what they have stored, except pairs of 1.0.4, which are left behind in exactly one way (`ContractsReadable`); a reader of the pages sees everything that is listed all the time, once (`WalkFindsAll`) |
| `pool_migration` | violation | the migration of a pair factory from 1.1.0 writes entries that its own lookups cannot read, and that of a pair from 1.0.4 leaves the pair with layouts it cannot read (`PairsReadable`) |

The violations are behaviour of the code that a comment or message description
contradicts; `PROJECT.json` quotes both. They are statements about the code as it is. One more
such contradiction is shown by a property that holds: `EmptiedEpochsLockOut` says what becomes of
claims where the code takes the fees of an epoch before it expires.

### Observations

What was met while modelling, is the code's behaviour, and is part of the models:

* `whale_lair`: a full unbond is refused where the global weight was rounded down more often
  than the local one (`commands.rs:127`).
* `fee_distributor`: while there are fewer epochs than the grace period, the epoch said to be
  "falling out" of it is the first one, which can still be claimed (`state.rs:43`): the second
  epoch takes all that the first has left. When the grace period is lengthened, epochs that
  become claimable again have already handed their fees on. Either way a user who has not
  claimed such an epoch can claim nothing, the fees of later epochs included, until it has
  expired, for one claim pays all epochs or none (`commands.rs:95`).
* `vault`: for a borrower who calls the vault directly, the fee of a loan inside a loan counts
  as repayment of the outer one (`after_trade.rs:48`); `ShareValueKept` leaves such transactions
  out, and the deposits and withdrawals after a loan like that has taken the pool below zero,
  where there is nothing to share. Through the router every loan is paid in full, and loans
  inside loans are possible, though an error of the router says that they are disabled
  (`err.rs:35`).
* `terraswap_router`: operations that do not follow each other are accepted; they strand what
  one of them returns in the router, and the next call that offers this asset swaps it for its
  own receiver. Routes are not checked to lead from their offer to their ask and outlive the
  pairs they lead through. AssertMinimumReceive is open to anyone, though said to be internal;
  it changes nothing. Through several pairs, a reverse simulation can be short by more than any
  fixed number of coins.
* Stable pools: a swap may take all of the ask asset, and the invariant `D` can fall by rounding.
* `terraswap_factory`: every name of three parts counts as a factory token, so that no pair can be
  created with it; listing a native token again does not change the decimals of pairs that
  exist; pair keys are two names with nothing between them.
* Migrations: MigrateVaults without an address takes one page of vaults, all of them or none;
  that of the vault factory gives the asset info to ten entries; a pair of 1.1.0 cannot be
  migrated (its config is read as one with a fee it does not have yet). One of 1.0.4 goes through
  the first of three steps only, as the others ask for 1.1.0 or 1.2.0 exactly, and then has the
  newest version over the layouts of 1.1.0; a migration of it again is refused
  (`terraswap_pair/src/contract.rs:292`).
* `fee_collector`: the query of the fees drops a contract that is named twice only where the two
  stand one after the other (`dedup_by`); elsewhere it is asked, and counted, twice.

### Bounds, and why they are enough

* `lair_core`: two users and two assets, so that sums over users and over assets differ; one
  user with two coins of one asset, so that a bond can be taken out in parts; two ticks to a
  second, so that two unbondings meet in one second and also in different ticks of it; a page of
  one request, so that requests wait behind the page; unbonding periods of one and two ticks,
  which the owner may swap while requests wait. There is one growth rate and a `RateUnit` of
  one: weights are exact there, which `WeightsAgree` needs. A growth rate that changes is the
  subject of `hub`, and all theorems but the two that say otherwise hold for any.
* `distributor`: two assets that can become the distribution asset, so that an epoch has
  two fees when the unclaimed ones of another are added; forwarded amounts of zero and
  three with shares of a half and a whole, so that rewards round and that shares together
  exceed one; grace periods of one and two, with the change from one to the other at any
  time; a first epoch that starts before the first block, and time for four of them, two
  more than the longest grace period.
* `hub`: two users, one asset, fees of three; a share is measured in thirds so that it
  rounds; the owner switches the growth rate between none and one. A growth rate counts for
  the time before it, and local and global weights are brought up to date at different
  times, so after a change a share can exceed one in the model as in the code: what
  `DistributorSpec` shows is that the distributor's own checks then refuse the claim.
* `vault`: two users with two coins and one, and the router; five coins at most with what trades
  bring; loans two deep, which is one inside another: both direct, one of the router inside a
  direct one, and both of the router; payloads that lose a coin and then gain two, and that
  borrow again; trades that lose too much fail. One protocol fee is recorded before no more
  loans are made, and the fee may be collected at any moment of a later call. Fees are one half
  in one of the three parts, or two halves, the whole, which is refused. Switches are all on or
  all off. One factory lists the vault and one does not.
* `pair`: up to six and five coins in the pool; a minimum liquidity of one, so that the locked share
  is a part that matters; a `Decimal` of fifty units, more than any pool, as one of 10^18
  is (`SpreadDefined` states that as its condition); fees that round down to nothing and
  to one, the three of which exceed the whole in one setting, which is refused. Deposits,
  offers and withdrawals have every amount the user has.
* `collector`: a vault and three pairs with a page of two, so that one pair is beyond it; four
  assets, two of which share a label; four fees in all; swaps at prices up to one,
  including zero.
* `swap_router`: a triangle of pairs, one of them stable, so that two routes share a pair and a
  route can come back to where it began; seven lists of one to three operations, two of which do
  not follow each other; an admin, who may add one route; offers of zero, two and three with minimum one
  or none; three calls, which is one that leaves something behind, one that takes it up and one that
  changes the list or sends coins. A `Decimal256` has ten units and a scale of ten, so that Newton's
  iterations round at every step.
* `factories`, `pool_migration`: one registry is at work in a behaviour; the other is as
  instantiated, because the two have no state in common. Up to three vaults over three assets,
  two pairs over four tokens (two cw20 tokens, one of a token factory, one name of three parts);
  pages of at most two, so that three entries are two pages; lengths asked for below and above
  that; vaults of 1.1.3 and 1.2.0 and pairs of 1.0.4, 1.1.0 and 1.2.0 (of 1.0.4 only in
  `pool_migration`, where the shortest counterexample migrates the factory and then the pair).

Deadlock is not checked where time or the calls end (`MaxTime`, `MaxCalls`), because there the
model stops by its bound. The vault with its router, the pair, the collector and the factories
are checked for deadlock.

### Fairness

`WhaleLair!FairSpec` lets time pass (blocks come without anyone's help) and has every user
withdraw when that stays possible: Withdraw is a call the owner of a request makes, and the
property is about what the contract does once it is made. No fairness of Bond or Unbond is
assumed. `FeeDistributor!FairSpec` has time pass and somebody ask for a due epoch: NewEpoch is
open to anyone. Claims have no fairness. The other specifications have safety properties only:
all that happens there is the answer to a call, and nobody has to make one.

## What is proved

The theorems hold for every set of users and assets, every amount and rate, and without the
bounds of the runs. They rest on the assumptions the modules state (`LairAssumption`,
`DistributorAssumption`, `HubAssumption`, `VaultAssumption`, `RouterAssumption`,
`CollectorAssumption`, `PairAssumption`, `CurveAssumption`, `PageAssumption`,
`VaultFactoryAssumption`, `PoolFactoryAssumption`, and `RouterAssumption` also in `SwapRouter`:
finite sets, natural numbers, positive units, at most two bonding assets, payloads that are
sequences of trades and loans, operations that are sequences of two assets, fees of pairs below
the whole, names that are numbers below `Base`, factories that list every contract once, with
one asset for a vault and two for a pair) which TLC evaluates in every run of the module.

Sums are the place where induction would be needed. `Sums` avoids it: `Sum(f, S)` is
the cardinality of the set of single coins `{<<x, i>> : x \in S, i \in 1..f[x]}`, so that the
lemmas of `Arithmetic` (a sum is a natural number; it splits over disjoint sets, and over the parts
of a partition; it grows with its amounts and scales with them; how it
changes with one entry, one entry more or a set of entries less) follow from the library's
facts about finite sets.

* `WhaleLairProofs`: `TypeCorrect`, `GlobalIndexExact`, `LairSolvent`, `WeightNeedsBond`.
  The inductive invariant `LairInv` is the conjunction of the four. They need each
  other: an unbonding is deducted without borrowing only because the global amounts
  are the sums of the bonds, and a withdrawal keeps the bonds covered only because the
  balance covers the requests *as well*. That weight ends with the bond rests on
  `amount \div amount = 1` in a full unbond, and on no partial unbond reaching zero.
  `OnlyCollisions` (no call changes what an account has, but its second unbonding in one second)
  needs `RequestsOfCoins` beside the type invariant: a request for nothing could be replaced
  without a loss. Whether a step is a collision is read off the keys of `unbond`; a
  withdrawal is the case where whole sets of requests leave one sum and arrive in another.
  `WeightsStayInAgreement` has a hypothesis about the behaviour, that the growth rate
  is and stays none, or stays one. With a rate that changes, or between
  these values, where the code rounds, `WeightsAgree` is false of the code, see the hub's bounds
  and the observations. Under the hypothesis
  what a weight is at a time does not depend on when it was last brought up to date.
* `FeeDistributorProofs`: `TypeCorrect`, `FeesBacked`, `NothingStranded`, `ScheduleKept`,
  `ClaimsAreOnce`, for any shares and any sequence of grace periods. The inductive invariant
  `DistInv` is `TypeOK`, `Backed`, `NoStrandedFees` and `OnSchedule`. The type invariant holds
  the fact about lists that the rest leans on: an epoch has available either all assets of its
  total or none. `NothingStranded` rests on the grace period only growing: the epochs in it are
  a suffix that loses its oldest member exactly when that has handed over. `LeftoversHandedOver`
  (`FeesHandedOver`) follows from `TypeOK` and from where the code looks for the expiring epoch:
  at the last of the latest `grace_period` epochs, which the new one pushes out, unless there are
  fewer of them. `EmptiedLockOut` (`EmptiedEpochsLockOut`) needs `FirstEmptied`: with a second
  epoch stored, the first has nothing available. A claim then finds a fee in the epoch's total
  and none available, and fails.
* `LiquidityHubProofs` takes the theorems of the two contracts, by INSTANCE, to the hub.
  `DistributorAlone` is the refinement: the hub implements the distributor's specification, with
  the shares from zero to one. The step to show is a claim, whose share is the lair's: a share
  above one occurs (a growth rate that changes makes it), and then no claim goes through. For a
  share above one is a reward above what the epoch has in total, unless the epoch has nothing,
  and the distributor refuses to pay more than is available; hence `AvailableBounded` in the
  invariant, which no property states. With the refinement the hub inherits the lair's theorems
  and the distributor's (`LairSafeInHub`, `FeesSafeInHub`). `OnlyBondersArePaid` is about both
  contracts: a payment needs a share, a share a weight, and a weight a bond. `OneEpochForAll`
  says that the shares of all users add up to at most one in every state, under the hypothesis of `WeightsStayInAgreement`, of which it is the consequence: the
  weights agree, so that the sum of rounded quotients is at most the quotient of the sum
  (`AgreedShares`).
* `VaultProofs`, the vault: `TypeCorrect`, `CounterExact`, `FeesForwarded`. What makes them
  inductive is `BooksBefore`: for every loan in progress the saved state has the counter of that
  depth and balanced books, so that undoing a loan at any depth returns to a state that
  satisfies the invariant. The bounds `MaxDepth` and `MaxAllTime` are arbitrary constants there.
  That a withdrawal never takes more than the balance is `AssetShareBound`, a fact about two
  roundings. `SharesKeepValue` speaks of a whole transaction and not of a step, so that its
  invariant `SharesInv` is about all the loans in progress (`BooksSince`): since each of them
  began nobody has got shares, which a loan forbids, and the protocol has not taken more of the
  balance, unless another loan was paid back in it. With the balance the callback demands, the
  pool is no smaller when the loan ends.
* `VaultProofs`, with the router: `RouterTypeCorrect`, `RouterCounterExact`,
  `RouterFeesForwarded`, `RouterSharesKeepValue`, which are the theorems of the vault for the
  vault with its router, and `RouterHoldsNothing`: between its loans the router has no coins,
  whatever payloads did, loans inside loans and failures included. They hold for any payloads,
  of any length and depth. The inductive invariant `RouterInv` is the vault's, whose steps are
  reused lemma by lemma, with what ties the list of messages to the stack of loans:
  `CallbacksInOrder` (the vault's callbacks in the list are for the loans on the stack,
  innermost first), `CallbackOfEach` (each of the router's loans has one), `EndsWithCompletion`
  (before each of them stands the CompleteLoan that empties the router's wallet) and `OwnLoans`
  (the router borrowed with an empty wallet, so that undoing its call returns to one).
  `ProfitGoesToInitiator` and `RouterPays` need the costs of every loan on the stack:
  `LedgerInv` has `CompletedInTurn` (each loan is completed just before its callback, with the
  amount that was lent, and for the router itself unless it is the outermost), `PoolAccounted`
  (the pool is what it was, plus the fees paid and still due, less the paybacks owed for the
  loans not completed) and `WalletsAccounted` (the router holds what the trades made and what it
  owes). Paybacks and fees are sums over the loans of the call, of which each completion takes
  the innermost.
* `FeeCollectorProofs`: `TypeCorrect`, `CollectedAsForetold`, and the refinement
  `ForwardingKept` of `FeeForwarding`, for any vaults, pairs, routes, labels and page limits.
  The invariant has for each call in progress how far it is, compared with the state `b` it
  began from (`Phase(b)`): it has collected from some contracts and the rest is queued
  (`InCollection`), or all have paid and swaps are queued (`InSale`), or it is a forwarding at
  one of five points (`InForwarding`). In a sale, `Queue` says that the swaps still to come are
  of different assets and each of all the collector has of it, which is why the amounts read
  before the first swap are right at the last: that is `TypeOK`. It comes down to `AssetInfos`
  storing one asset for a label (`LastPlace`: of the places with an asset's label there is a
  last one, and it is the one read back). `CollectedAsForetold` has on the one side the sum over
  the contracts that have paid, on the other the one over the positions of a page, of which
  `QueryFees` leaves none out because no contract is listed twice (`QueryIsTotal`). For the
  refinement every step of a call maps to a stutter but the last, where `Collected`, `Sold` and
  `ToBeSold` are what `FeeForwarding` promises, and a failure, which maps to nothing at all.
* `TerraswapPairProofs`: `TypeCorrect`, `FeesAlwaysSetAside`, `FeesForwarded`,
  `PoolNeverEmptied`, `SharesKeepWorth`, `SwapsHaveASpread`. The inductive invariant is the
  conjunction of the first three with `LockedKept`: where there are shares, the pool holds some
  itself. That is why a withdrawal, at most the shares of a user, leaves a part of the pool, and
  nothing else is: were the minimum liquidity zero, the last withdrawal could empty it.
  `SharesKeepWorth` has one argument for deposits and withdrawals (each pool grows no less than
  the shares, `InProportion`: a minimum of two quotients, or a quotient of a quotient) and one
  for swaps (`Curve`: the product does not fall, whatever the fees). All roundings come down to
  `Quotient` in `Arithmetic`: a quotient times its divisor is at most what was divided.
  `SquareRoot` shows that the first deposit's root exists. `SwapsHaveASpread` sets two roundings
  against each other (`PriceAboveCurve`): the price loses less than one part in `Unit`, and the
  curve, which divides by the larger pool, always loses more than that, as long as the pool has
  no more coins than `Decimal` has units.
* `RoutingProofs`, the factories: `FactoriesTypeCorrect`, `VaultLookups`, `PairLookups`,
  `MigrationsReadable`, `ReadersFindAll`, for any assets, any number of contracts, pages of any
  length and any creations, removals and migrations between two pages. The inductive invariant
  `FactoriesInv` has a part for each factory and one for the reader. `WalkOK`: all that was
  listed since the reader began, up to the last key it read, has been seen, and nothing beyond
  that key has; so a page of what comes strictly after it repeats nothing and skips nothing,
  whatever was removed, the last key included. `PoolInv` has `EntryAgrees`: an entry is stored
  under the key of its own assets, and a key stands for one set of two assets (two names below
  `Base` are two digits of a number). `VaultInv` knows what version a factory is of. One
  theorem has an assumption that the code needs: `VaultLookups`, at most ten vaults (the
  migration takes ten entries and would leave the others without their asset).
  `MigrationsReadable` holds for contracts of every version; it names what is not readable,
  pairs migrated from 1.0.4, and says what they are left with (`LeftBehind`).
* `RoutingProofs`, the router: `RouterTypes`, `RouterLeavesNothing`, `RouterPaysMinimum`,
  `RouterKeepsQuotes`, for any pairs on either curve, any fees and any operations, however many.
  None of the three properties is inductive: each speaks of the last step of a call and says
  nothing of those before. The inductive invariant `RouterInv` (`RouterInvariant`) has for a call
  in progress how many of its operations are done (`Done`, read off the length of the list).
  `TasksLeft`: the messages left are those of the call from there on. `HoldsAfter`: if the
  operations follow each other, the router has the offer of the next one, nothing else of what
  was offered before, and the other assets as they were; whatever lay there of an offer goes with
  it, since all of it is offered. `QuoteAfter`: of a call whose simulation can be trusted, what
  the router holds is the simulation's amount after as many operations, and the pairs of the
  operations still to come have not changed, as no pair is used twice. At the last operation the
  three say what the properties say. What they need of the pairs is `SimulationPays`: a return
  and its fees are together at most what a pair has (`FeesTogether`: fees that are rounded one by
  one are no more than all of them rounded at once). That the amounts of a simulation follow one
  another, and that Newton's method ends in a value its last step was near to, are statements about
  recursive functions; `Recursion` shows such a function to exist for any length, with one
  set-theoretic argument on the least number it could fail at (`UpTo`), so that no induction rule
  with an operator for a parameter is used.
* `RoutingProofs`, the computations: `OneMoreSuffices` and `StableCurve`. `OneMoreSuffices` sets
  the inverse of the fees, rounded to atomics, against the fees it inverts (`InverseOfFees`): the
  two roundings cancel while the amount asked for is not above the atomics of the fees. Beyond,
  the inverse may lose more than the fees, and the statement without its condition is false of
  the code. `OneMoreBuys` is the same for the two quotients of the constant product.
  `StableCurve` takes `D` as the code has computed it and is about where the iteration of
  `calculate_stableswap_y` stops: its last step was
  by at most one (`StableRootStep`), hence the quadratic it solves has a root next to it
  (`QuadraticAround`), and the quadratic is the curve but for what three divisions left over
  (`CurveResidue`). Two below, the quadratic is negative enough for the first (`QuadraticBelow`).
  Two above, it is positive enough for the others: were it not, its slope there would be small
  against the sum of the pools, while the square of the slope is more than the discriminant
  (`SlopeLargePool`, `SlopeSmallPool`). The premise of the theorem, `IterationsEnd`, is that the
  iterations do end within their thirty-two steps.

Model-checked only: liveness (`RequestsArePaid`, `FeesMoveOn`), as ENABLED and fairness are
outside of what the prover can do, and the premise of `StableCurve`. That the iterations converge
is no fact about every pool: the code counts steps and gives up, and how fast they converge is
decided by the sizes of pools and amplification. `StableCurveKept` has it as its first conjunct,
so the run checks it for every state of its pairs. All other properties of the runs that
pass are theorems. `NoWeightWithoutBond` (theorem `WeightNeedsBond`), `OnSchedule`
(`ScheduleKept`) and `RouterKeepsNothing` (`RouterHoldsNothing`) are proved and therefore in no
run.

One caution on the prover: tlapm 1.4.5 reads `@` in the second part of `[f EXCEPT ![a] = x, ![b]
= @ + y]` as `f[b]` also where `a = b`, unlike TLC and the definition of EXCEPT. Where the keys
can be equal (`lp'` of a withdrawal in `TerraswapPair`, `wallet'` of a completion in
`VaultRouter`) the modules therefore nest two EXCEPTs, which means the same to both; elsewhere
the keys differ.

## What is not modelled

* Of `fee_collector`: the allowances it gives the router for cw20 tokens (given whether or not
  there is a route), changes of the addresses of router and factories, and its migrations, which
  rename and initialise fields. What the distributor sees of it (`FeeDistributor!CollectedFees`)
  is any amount, not linked to `FeeCollector`.
* Of `terraswap_pair`: deposits to a stableswap pool, assets with different decimals in deposits
  and withdrawals (swaps have a scale for each asset), transfers of the liquidity token (which
  are `cw20-base`'s), a change of the fee collector's address. Swaps and simulations on the
  stableswap curve are in `SwapRouter`.
* Of `vault`: the creation of its liquidity token, and a configuration that changes inside a
  loan (its owner is the factory, which no borrower can call as its owner).
* Of the vault router: payloads that call a stranger's contract which borrows, deposits or
  withdraws in its own name inside the router's loan (collections of fees are there).
* Of the routers: loans of several assets (refused by the code), and swap operations with a
  limit on the spread (the router passes none). AssertMinimumReceive called by strangers changes no
  state. In `SwapRouter` users do not provide liquidity meanwhile; that is `TerraswapPair`'s.
* Of the factories: code ids, names of assets of different lengths (the keys of pairs join them
  without a separator), and a creation a migration finds half finished, which transactions
  exclude.
* `terraswap_token` (a wrapper of `cw20-base`), schema generation, test support.
* Overflow of `Uint128`, gas, the wording of errors and attributes, the queries that only
  format what is stored.

## The plan

Done: `Sums`, `WhaleLair`, `FeeDistributor`, `LiquidityHub`, `Vault`, `VaultRouter`,
`FeeForwarding`, `FeeCollector`, `TerraswapPair`, `PoolCurves`, `SwapRouter`, `PageWalk`,
`VaultFactory`, `PoolFactory`, `Factories`, and the theorems above. The order followed the
money: bonds and fees first, then what produces the fees, then what routes and registers.

Left:

1. The collector in the hub: `FeeDistributor` with the amounts `FeeForwarding` hands over,
   so that one run follows a fee from a pool to a claim.
2. Deposits to a stableswap pool, with `StableD` as the worth of the pool.
3. Bounds on pools and amplification under which Newton's iterations end in time, with a proof
   that they fall from one step to the next.
