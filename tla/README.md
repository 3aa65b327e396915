# LumenLiquid: TLA+ models, checks and proofs

LumenLiquid is a leveraged-trading exchange for Stellar's Soroban platform.
Three contracts carry it - `vault`, `pair-registry`, `position-manager` - with
a shared math crate, a Reflector oracle adapter and an off-chain keeper bot.
This directory models the contracts in TLA+, checks small instances with TLC
and proves theorems about them with TLAPS.

A Soroban contract call, with every call it makes, is one atomic transaction:
an error or a trap anywhere undoes all of it. So one entry point is one action,
error conditions are its guards, and concurrency is the interleaving of the
transactions of traders, LPs, keepers and admins, with oracle price moves and
the closing of ledgers between them.

## Inventory

| part | state it keeps | operations | interacts with |
|---|---|---|---|
| Vault (`contracts/vault`) | total assets and shares, share balances, allowances, last-deposit ledgers, withdraw lock, pause flag, bad-debt pools, PositionManager address | SEP-41 share token; `deposit`, `mint`, `redeem`, `withdraw`; `take_collateral`, `return_collateral_with_pnl`, `record_bad_debt`; admin setters | pulls and pays USDC; called by the PositionManager |
| PairRegistry (`contracts/pair-registry`) | pairs, fee groups, rollover and funding accumulators, open interest, depth, limits | admin configuration; `commit_acc_rollover`, `commit_acc_funding`, `add_oi`, `sub_oi`; views | called by the PositionManager |
| PositionManager (`contracts/position-manager`) | trades and limit orders per (trader, pair, index), slot limit, oracle address; in USDC it holds collateral and fees | open, close, limit orders, liquidation, take-profit/stop-loss | calls all of the others |
| Math (`crates/math`) | none | fixed point, profit, liquidation price, settlement, fee accumulators; spread and price impact | used by the contracts, the last two by none yet |
| Reflector adapter (`crates/reflector-adapter`) | none | `read_price`: last price, rescaled | external oracle |
| USDC token | balances | transfer | external |
| Keeper bot (`keeper_bot.js`) | in memory: the list of trades it watches, written into its source | fetch the price, walk the list, simulate and send `liquidate_trade`, sleep | RPC server and network; through them the PositionManager |
| scripts, mock oracle, test doubles | - | deployment, tests | - |

What is hard here, and what makes each part correct:

* **Vault.** Money and its accounting move in different statements, and in
  settlements even in different contracts: `total_assets` must stay covered.
  Three roundings convert shares and assets: no LP may gain from the others.
  The supply must be what holders own over mint, burn, transfer and allowances.
* **PairRegistry.** Accumulators must bill each ledger once, whatever the order
  of commits and rate changes; funding must be a transfer between the sides;
  pairs must always find their group.
* **PositionManager.** All collateral shares one balance with the fees: each
  trader's must be there when it is due. Open interest is kept in another
  contract than the trades it sums up. Between placing and executing an order,
  or opening and closing a trade, fees, limits, prices, pool and configuration
  change. Close, trigger and liquidation race. Nothing that should end may get
  stuck.
* **Math.** Profit, settlement, insolvency and liquidation price are separate
  formulas with separate roundings about one position: they must agree to
  within those roundings, along every price.
* **Keeper bot.** It acts on a price and a copy of a trade that are old by the
  time its transaction arrives. Calls throw, answers and transactions get lost,
  the process restarts, and its list is changed while it is iterated: what it
  decides must be what the contracts would, what it watches must be served in the
  end, and what it has sent must not get in the way of the rest.

`PROJECT.json` lists each hazard at its source line with the properties aimed at it.

## Modules

| module | models |
|---|---|
| `FixedPoint`, `Scale` | `mul_div_floor`, Rust's truncating division, the scales |
| `TradeMath` | profit, liquidation price, settlement (`liq.rs`, `fees.rs`) |
| `FeeMath` | rollover and funding accumulators, and what they charge a trade (`fees.rs`) |
| `ExecutionMath` | price impact and spread (`fees.rs`) |
| `ReflectorAdapter` | `read_price`'s rescaling by the oracle's decimals |
| `KeeperMath` | the bot's own liquidation price and decision |
| `UsdcToken` | the external token: a ledger value and transfers on it |
| `LedgerSequence` | ledger sequence, possible managers, pair indices |
| `Totals` | the total of a function into Nat, as a cardinality |
| `Vault` | `contracts/vault`, every entry point |
| `ApprovalHistory` | the vault with what was last approved, and what was spent of it, recorded |
| `PairRegistry` | `contracts/pair-registry`, every mutator, the accumulator views and `get_trade_liquidation_price` |
| `PositionManager` | `contracts/position-manager` composed with the above |
| `KeeperBot` | `keeper_bot.js` and the network between it and the contracts |
| `SendingHistory` | the bot with whether its process was interrupted recorded |
| `PooledFund` | abstract: a fund of assets and shares whose entries and exits are fair |
| `TradeEscrow` | abstract: traders' money staked in orders and trades |
| `PriceWalk` | one position under a moving price, for the formulas |
| `Widths` | the checked i128 results of the formulas at that position and price |
| `OrderFlow` | orders executed one after another, for the formulas |
| `MCVault`, `MCAllowance`, `MCPairRegistry`, `MCPositionManager`, `MCKeeperBot`, `MCSending`, `MCFormulas` | instances for TLC |
| `MathProofs` | TLAPS lemmas on divisions, products and totals |
| `VaultProofs`, `AllowanceProofs`, `RegistryProofs`, `PositionProofs`, `EscrowProofs`, `KeeperProofs`, `FormulaProofs` | TLAPS proofs about the module of that name; `AllowanceProofs` about `ApprovalHistory`, `EscrowProofs` about `TradeEscrow`, `KeeperProofs` also about `SendingHistory`, `FormulaProofs` about the two walks |

Variables carry the names of the storage keys (`totalAssets` is
`DataKey::TotalAssets`, `trade[<<trader, pair, index>>]` is
`DataKey::Trade(..)`), and actions those of the entry points. A key that was
never written reads as the default the code gives it, or as `None`.

**Composition.** `PositionManager` EXTENDS `Vault` and `PairRegistry`. Its
`SettleTrade` conjoins the vault's `Settle` (token transfer, then
`return_collateral_with_pnl`), the removal of the trade and the registry's
`SubOi`; `RecordTrade` conjoins the write of the trade and `AddOi`. LPs, share
holders and admins of the other two contracts interleave through `PoolStep` and
`AdminStep`. `take_collateral`, `record_bad_debt` and the two commits are not
reached from any PositionManager entry point, so they are not steps of the
composition; the runs of `Vault` and `PairRegistry` alone exercise them with a
manager that calls them at will.

`KeeperBot` EXTENDS `PositionManager` and adds the process and the network. A
step of the bot ends where the JavaScript awaits an answer (price, simulation,
sending, sleep), so traders, other keepers and the oracle move in between.
`Sent` hands a transaction to the network, `Apply` executes it later as the
contracts then decide, and `Expire` drops it. Faults are the constant `Faults`:
`crash` stops the process, `throw` makes a call throw, `noreply` makes
`sendTransaction` throw after the transaction got through, `reject` makes the
network refuse it, `lose` lets it expire.

**Abstractions.** Addresses, assets and indices are model values. Of `PairInfo`
and `Group` the fields some contract reads are kept. `acc_rollover_open` and
`acc_funding_open` are always 0 in a stored trade, and 0 is passed for the
fees they would give, so they are dropped. `require_not_paused` of the
PositionManager is dropped: no entry point sets its flag. The oracle is a
variable giving each asset an answer or None, moved by `MovePrice` at any time, and
its decimals, changed by `SetReflectorContract`; `read_price` rescales the answer and
may give 0.
Authorisation is by construction: an account's call is that account's step.
In the contracts' modules i128 overflow is left out except where `checked_add`
bounds a counter (`MaxShares`, `MaxOi` stand for i128::MAX there); `Widths` shows
that what a close or a liquidation computes does not overflow. Events, `upgrade` and storage
lifetime are left out. `clamp_funding_fee` and the subscription client of the
adapter are called by nothing and left out.

Of the bot, `getAccount` and the simulation are one step, and an account has one
transaction under way at a time, as the network allows. In the bot's runs admins
and LPs do not act and the oracle stays the same; the runs of `PositionManager`
show what they do.

Some definitions carry the comment "Mutant". They are variants of the
definition after them with a bug put in, used to see that a property fails
when the code is wrong; no specification uses them.

## Runs

All bounds are in the `.cfg` files. `CHECK_DEADLOCK FALSE` throughout: the
contracts have no obligation to accept another call, and ledgers, shares and
money are bounded, so the bounded system may stop.

| run | what it asks | bounds, and why they suffice |
|---|---|---|
| `vault_accounting` | Is the pool always covered, does nobody dilute the others by depositing or leaving, and is every step one of the abstract fund? | two LPs with 2 USDC, a manager with 2 that settles by -2, -1, +1; amounts 1-3. Prices of 1/2, 1/3, 2/3, 3/2, 2 and pools with shares but no assets occur, so each rounding has both cases; allowances, which move no assets, are left to the next run |
| `vault_shares` | Is the supply what holders own under all calls, and does a spender keep to the last approval and its expiry? | two holders, self-transfers, one owner and spender, approvals of up to 2, two ledgers; the two history variables of `ApprovalHistory` record approvals and spending |
| `vault_mint` | (violation) Does every entry keep the share price? | only LPs entering and leaving in steps of 1 and settlements of a loss of 1 (`SettledSpec`), so that only a settlement moves the price off one: two shares for 3 USDC, at which `mint` rounds |
| `vault_lock` | (violation) Does money stay for the lock? | lock of 3, two ledgers |
| `registry` | Do pairs stay usable, is each ledger billed once, is funding zero-sum, do projections not depend on commits, and do the views move the right way? | two groups, one pair, three configurations of which one is invalid, rates negative, 0 and one that does not divide evenly; open interest 0-3 a side in steps of 1 and 2; three ledgers, so that an interval can be split |
| `market` | Do settlements conserve money, and do closes and liquidations that are due always go through? | two accounts both trading and LPing; prices 5, 8 and no answer at leverage 2: between them a partial loss, a gain below and one at the cap, a loss past the liquidation price; decimals 0 and 1, at which the prices become 0; two managers to rewire to |
| `orders` | Are custody, open interest and refunds exact, and is every step one of the abstract escrow? | two slots, slot limit 1 or 2, open and close fees of 20 and 50 percent: at leverage 2 the second takes all collateral, the boundary of `effective_collateral` |
| `triggers` | Can a winner lose his collateral? | tp/sl at 0 and 8, leverages 1 and 2, pair reconfigured between a cap of 100 and of 50 percent |
| `disabled` | (violation) Is a disabled pair closed to new positions? | as `orders` |
| `formulas` | Do the formulas about one position agree at every price, the bot's included, does none overflow, and do impact and spread leave no free gain? | every position of four opening prices, below, at and above `P_SCALE`, six collaterals (1 to 99, odd ones for the roundings), four leverages, three thresholds, four caps of which some lie below the threshold, two fees, both sides; every tick from 0 to 120; `I128_MAX` is 4,800,000, what the largest price, leverage and scale need and less than the settlement's product would be without the gain cap. Up to five orders of three sizes, two market prices, three depths, with and without spread, one of the spreads above a hundred percent. The two walks share nothing, and one rests while the other runs |
| `bot` | Is what the bot watches served, is what it decides on a fresh price due, do the contracts refuse only what went stale, and does what it has sent leave nothing on the list to be refused for ever? | all five faults, two entries, two slots that are reused; `interrupted` in `SendingHistory` records a crash or a lost answer, after which the last question is not asked; the oracle answers 65 or 100 with one decimal more than the contracts use, so that the bot and the adapter both rescale, 65 to 6, with a remainder; longs and shorts are due. A price not divided by the bot, or a threshold off by the part the margin keeps, is told apart |
| `bot_blocked` | (violation) Is a transaction sent for a due, watched trade? | two entries and no fault at all |

The scales are small numbers (`P_SCALE` is 10, 20 in `formulas`, and 1 in the
registry's run, where `USDC_SCALE` is 50): formulas are the code's, so small
scales make rounding coarser and more frequent, not absent. The theorems hold
for all of them. Symmetry is used between accounts where no
configuration value or property names one.

**Progress and fairness.** What must not get stuck in the contracts is stated as
ENABLED (`LiquidationNeverBlocked`, `CloseNeverBlocked`, `RefundNeverBlocked`):
that is what a contract can promise without someone calling it. It holds while
the contracts are wired to each other; a rewiring and its undoing lie before.
Liveness is about the bot. `Fairness` says that the process runs (weak fairness
of its steps: `while (true)`, with every exception caught), that the network
decides what it accepted (weak fairness of `Apply \/ Expire`: a transaction is
valid for 30 seconds), and that a call of the RPC server may throw any number of
times but not every time (strong fairness of the three steps that need an
answer). Traders, other keepers, the oracle, crashes and restarts have no
fairness. Under it `WatchedTradesAreServed` holds: no trade stays due for ever
while the bot runs and watches it, unless an entry ahead is refused again and again.
Without that exception it fails under the same fairness (`DueTradeIsSent`, the run
`bot_blocked`).

**Refinement.** `FundImplemented` maps the vault to `PooledFund`: whatever the
entry point, assets and shares enter together and leave together at no better
than the price, and only profit, loss and working capital move assets alone.
`mint` is the exception the abstract fund has to allow (a unit short), and the
run `vault_mint` is about. `EscrowImplemented` maps the composed contracts to
`TradeEscrow`: the USDC of the one shared balance as stakes of single traders,
each step moving one of them.

### Disagreements found

* `mint` rounds the payment down and lowers the share price (`vault_mint`);
  `withdraw` is commented to round for the vault.
* The withdraw lock does not follow transferred shares (`vault_lock`).
* A resting limit order opens a position on a disabled pair (`disabled`).
* In the bot, one exception ends the pass for all entries, and an entry whose
  trade somebody has ended throws in every pass while the price is past its
  liquidation price: nothing is sent for those behind it (`bot_blocked`). In the
  behaviour TLC prints, two trades are listed, the first one is ended and the price
  is one at which both entries are found liquidatable; from then on only `Fetched`,
  `NotPrepared` and `Wake` occur, with both entries on the list, the second's trade
  due and nothing under way. A transaction that is rejected while another one is
  under way does not violate `DueTradeIsSent`: its entry is removed.

Also seen, without a run:

* The bot removes an entry once `sendTransaction` has answered and looks neither at
  the status nor at the result: a transaction that is rejected, or expires, is not
  tried again (`keeper_bot.js:155`), and the trade stays due. `WatchedTradesAreServed`
  therefore ends with the watching.
* After a restart, or when `sendTransaction` threw although the network took the
  transaction, the bot has the entry of a trade that its own transaction ends, and
  holds itself up. `OwnLiquidationsHoldUpNothing` is stated of a process that neither
  happened to.
* `keeper_bot.js:48` calls its price exactly the one of the Rust code; it rounds
  once where that rounds twice. `BotNeverEarly` and `BotSoonAfter` bound the
  difference: never early, at most one unit of collateral late.
* `execute_limit_order` compares the limit with the rescaled price; the example of
  `LUMENLIQUID_MVP_GUIDE.md:192` gives one at the oracle's 14 decimals.
* `is_liquidatable_view` charges pending rollover and funding, `liquidate_trade`
  charges none, so with a rate set the two disagree about a stored trade.
* The default fee rate `8e7` is documented as 0.08 percent (`scale.rs:12`);
  `open_market_trade` makes 0.8 percent of it.
* `price_impact` divides by `usdc_scale * one_percent_depth`: with a depth at
  `USDC_SCALE`, as documented (`fees.rs:140`), one percent takes `USDC_SCALE` times it.
* `max_pos_usdc`, `max_oi_usdc`, `min_lev_pos_usdc` and `max_collateral_usdc` are
  stored and documented as caps and never read; the commits the registry's docs
  place in trade open and close are never called; an order executed at an open
  fee equal to its collateral becomes a trade of zero collateral that nothing
  can end.

## Proofs

### The vault

`VaultProofs` proves, for every value of the constants that satisfies their
assumptions:

* `BooksKept`: `VaultTypeOK`, `SharesAccountedFor` and `Solvent` are together
  inductive. Neither of the last two is inductive without types, and solvency
  under redeem and withdraw needs that a payment is covered. There is one lemma
  per group of actions, on top of lemmas about `Transfer` and about each way
  shares are created, destroyed and moved.
* `TypeInvariant`, `SharesTheorem`, `SolvencyTheorem`: its parts.
* `ExitTheorem`, `DepositTheorem`: the action properties on the share price,
  from type correctness and the defining inequalities of floor division
  (`DivBounds`): redeem pays at most, deposit mints at most and withdraw burns
  at least the fair amount.
* `FundTheorem`: the vault implements `PooledFund`. The stored supply is the
  fund's because shares are accounted for; deposit and mint are joins, by how far
  each rounds; redeem, withdraw and the burns are leaves; share transfers pass a
  stake on, or stutter when made to oneself; and what the PositionManager does to
  the pool is borne by all.

`AllowanceProofs` proves `BudgetTheorem` and `ExpiryTheorem` of `ApprovalHistory`.
That a spender has spent no more than was approved is not inductive: the vault
remembers only what is left. `WithinGrant` ties the two: what was spent and what the
stored allowance still holds are together at most what was approved, and writing
back what is left never moves the expiration past the approved one. Every other
step leaves the allowances alone.

`Total` is defined as the cardinality of a set of units because TLAPS cannot
prove facts of recursive definitions; `MathProofs` derives from the library's
theorems on finite sets what an update at one point does to a total. It also holds
the facts on floor and truncating division and on products that the other modules
share.

### The registry

`RegistryProofs` proves the registry alone, with a manager that commits at any
ledger and moves any open interest:

* `RegistryBooks` is inductive: `RegistryTypeOK`, the clock being at or after the
  first ledger, `PairsUsable`, and `Listed`. Types are needed because a stored
  pair must not be mistaken for `None`. `Listed` says a pair that was not added
  yet has accumulated nothing: `add_oi` does not ask whether the pair exists, so
  its open interest may already have moved, and adding it would otherwise
  change what its sides owe each other. `RegistryTypes` and
  `PairsUsableTheorem` are parts of it.
* `AccumulatorStep` reduces every step to what it does to the accumulators of one
  pair: nothing, an addition, or one application of the formula. On it rest
  `RolloverNeverRefundsTheorem`; `CommitKeepsProjectionTheorem`, from what floor
  division loses when its dividend is split (`DivSplit`); and
  `FundingBalancesTheorem`, from what it loses at each side's open interest.
* `NoLedgerBilledTwiceTheorem` needs in addition that the current rate is one the
  admin set (`Rated`). Its invariant says some set rate bounds the bill; a
  commit keeps it by going over to the higher of that rate and the current one
  (`BilledAtHigher`).
* `HeavierSideTheorem` follows the view through its four formulas: the projected
  rollover and the heavier side's funding do not fall with the ledger
  (`RolloverViewGrows`, `FundingViewGrows`), what they charge a trade follows
  (`ChargeMonotone`), and a higher charge moves the liquidation price towards the
  opening price (`FeesPress`). Signs matter at every stage, as funding and its
  floor may be negative.

### The composition

`PositionProofs` extends these and proves the composition, for any number of
traders, pairs and slots:

* `Ledger` is inductive: the vault's books, the registry's types, the clock, the
  types of trades and orders, and `OiMatchesTrades`. The last one is part of it
  because `sub_oi` floors at zero: only when the side holds at least the notional
  of the trade that leaves is the floor never reached. `CompositionTypes`,
  `SolventComposed` and `OiTheorem` are its parts. Solvency carries over from the
  vault's step lemmas: what the vault is told it received is what it received.
* `Kept` is what every step does: it keeps `Ledger`, lowers the fees collected in
  no case, and settles a trade that ends by the rules of `SettlementConserves`.
  There is one lemma per entry point. Opening, placing, executing, cancelling and
  editing go through `KeptWithoutEnd`, which compares what the balance and the
  records gain; closing and liquidating through `EndKeeps`, with the bounds on
  the payout (`PayoutCapped`). What a stored record does to a total is
  `StakeStored` and `NotionalStored`, both from `TotalUpdate`.
* `FeesTheorem` and `SettlementTheorem` follow. So does `CustodyTheorem`: the
  fees collected start at zero or above and never fall, hence the balance covers
  the collateral on record.
* `FundComposed`: the composition, too, implements `PooledFund`. No trade, order
  or liquidation touches a share balance, and the types keep the pool a natural
  number.
* `Configured` is inductive besides: every pair stays listed, with valid
  parameters and a group (`UsableComposed`). It is a second invariant because
  nothing in `Ledger` needs it; traders, keepers and LPs change no configuration.
* `WinnersTheorem`: a trade ends only by a close or a liquidation
  (`EndsBySettling`); above the opening price, for a long, the liquidation price
  cannot have been reached, and the profit, whatever the cap was changed to, is
  not negative, so the close pays the collateral less the fee (`WinnerPaid`).
  The liquidation price used is the one of the configuration at that moment.
* `RefundReady`, `LiquidationReady`, `CloseReady` and `RefundAccepted`,
  `LiquidationAccepted`, `CloseAccepted` are the substance of
  `RefundNeverBlocked`, `LiquidationNeverBlocked` and `CloseNeverBlocked`. ENABLED
  is out of the prover's reach, but it means that some next state makes the action
  a step, and that is proved with the next state named. The first three say that
  the conditions `Refundable` and `Settles`, which the transaction meets on its
  way through vault, token and registry, hold in every reachable state in which the
  property asks for them. What makes it so is custody (`EachCovered`): each trade
  and each order, not only their total, is covered by the shared balance. The
  other three say that in a state with that invariant (`Covered`, by `CoveredKept`
  every reachable one) and the hypotheses of the property, the whole entry point is
  the step to the state `Settled` describes: one next value for each variable, and
  no condition. So no `require`, transfer or check refuses it; the
  hypotheses (the contracts wired, a price, a fee within the collateral, a pool that
  can pay) are those of the property and nothing more.

`EscrowProofs` proves that the composition implements `TradeEscrow`
(`EscrowTheorem`). Every entry point is shown to be one escrow action: storing or
removing a record is a stake that appears or ends (`RecordStaked`,
`RecordEnded`), a transfer touches one wallet (`WalletMoved`), and what is
charged is the balance's gain over the records' (`FeesMoved`). That a fee is
never negative and how an ended trade is split come from `Kept`. Editing triggers,
the oracle, the admins and the share token are stutters.

### The bot

`KeeperProofs` proves that `BotSpec` implements `Spec` (`BotHarmless`): the bot
touches the contracts only when one of its transactions is applied, which then is
a keeper's `LiquidateTrade`. So every theorem of `PositionProofs` and
`EscrowProofs` holds with the bot, its faults and its restarts. `BotTypesTheorem`
is its own inductive invariant; that the loop never reads past the list it has just
spliced needs the library's theorems on sequences (`WithoutTypes`, `WalkTypes`).

`OwnLiquidationsTheorem` says that a bot does not hold itself up before its process is
interrupted, which `SendingHistory` records in `interrupted`. The property speaks of
the moment a trade ends; its inductive invariant, that `SentIsDropped` while not
`interrupted`, of the whole time before: what is under way is off the list and,
because the operator writes each trade down once and the list holds each entry once,
stays off. The work is in the splice: what `Without` leaves are other entries than the
one sent, each still once (`WithoutElements`, `SplicedOut`). That nothing was under
way when the list was deployed, and that there is no restart, are parts of the
invariant, which is why it cannot outlive a crash.

The bot's own decision is proved right in three steps:

* `BotAgrees`: what its formula, with one division, finds liquidatable the
  contracts find liquidatable, for any trade and price (`DistancesOrdered`).
* `Decided` is the invariant: while the bot prepares or sends, the entry it stands
  at is one its formula calls due at the price it last fetched. The walk of the
  list and the fetch establish it (`WalkDecides`, `FetchDecides`); every other step,
  the spliced list, crashes and restarts included, keeps or ends it (`BotInvKept`).
* So the contracts can disagree only if the trade, its pair or the price has changed
  since (`OnlyStaleTheorem`). At the fetch itself nothing can have, if the
  bot and the contracts read the same price: they do, to the last unit, when the
  oracle reports the decimals the bot was written for (`FreshDecisionsTheorem`).

The invariants exclude a trade opened at a price that was rescaled to zero, which the
contracts never liquidate and the bot, for a short, always would (`OnATrade`).
`DueReady` adds that every due trade meets what its settlement asks for, so with
`LiquidationAccepted` a decision nobody overtook goes through. What remains of
`WatchedTradesAreServed` is that the bot gets there, which is fairness.

### The formulas

`FormulaProofs` proves all properties of `PriceWalk`, `Widths` and `OrderFlow`, for
every position, market and scale. `PriceWalk` has no invariant beyond its types: the
properties hold at every price, and the work is in the arithmetic. Each theorem
comes from lemmas that bound what one floored or truncated quotient loses, and
from the order in which the code takes them. `PayoutFollowsPriceTheorem` shows the
profit, the settlement value and the payout monotone in turn.
`SplittingGainsNothingTheorem` needs an inductive invariant (`SplitInv`): what
was paid so far is, up to so much a unit for rounding, what filling it at once
would cost if nothing were rounded, which is quadratic in the open interest and
adds up over the parts (`LinesAdd`).

`lib.rs:6` says that all magnitudes the contracts meet fit in i128. `Widths` lists
every checked result of the profit, the liquidation price, the close fee and the
settlement, and `WidthAssumption` bounds five products of inputs.
`NothingOverflowsTheorem` follows each result through its divisions
(`DividedWithin`, `MultipliedWithin`); the settlement's product needs the cap
on the profit. `ContractWidths` puts in the contracts' numbers: at 1e10 for the scale
and 2^127 - 1 for the maximum, prices of ten billion, a collateral of a billion USDC,
a leverage of 150, any cap a u32 holds and any fee up to the notional satisfy the
assumption, none of them less than what the comment names.

Where a closer bound might be expected, it fails for some values, and the run
`formulas` has some that tell the difference:

* One unit of the profit rate is `openPrice / P_SCALE` ticks, more than one tick
  for an opening price above the scale. `NoInsolventEscape` allows for it
  (`RateInTicks`).
* `max_gain_p` caps losses too. A cap at the threshold, and not only one below it,
  can keep the value left above the cutoff, as the loss is truncated and the cutoff
  floored. `LiquidationTakesNothing` excludes the
  positions that can never become insolvent (`CapKeepsSolvent`) and no others.
* The roundings of the impact grow with the price, and the spread is taken on a
  rounded price: `SplittingGainsNothing` allows `PriceSlack` ticks a unit. A spread
  above a hundred percent, which the registry does not refuse, makes the factor of
  a short negative and, on a price the impact has made negative, its product
  positive; `NoFreeRoundTrip` excludes it.

### What the proofs assume, and what they leave

The assumptions on constants are sorts only: naturals or integers for amounts,
configurations that are records, `None` apart from what is stored
(`StoreAssumption`), powers of ten that are positive. Rates, fees, depths and
open-interest changes may be any integers, the entry points having to refuse the
negative ones. `TradeMetaAssumption` asks the positions the registry's view is
asked about for positive collateral and leverage, without which the view traps on
a division; `ApprovalsAssumption`, that owners and spenders are accounts. The
bot's assumptions keep `None` apart from prices. `WidthAssumption`, the one about
magnitudes, is used by `NothingOverflowsTheorem` alone.

Only model-checked:

* `WatchedTradesAreServed`, which is liveness under fairness;
* the ENABLED forms of `LiquidationNeverBlocked`, `CloseNeverBlocked` and
  `RefundNeverBlocked`, whose witnesses the `Accepted` theorems name;
* what the violation runs refute, which nobody can prove.

## Not modelled

* i128 overflow of the accumulators, of the impact and of the registry's views, and
  what happens after one: the contracts trap and the transaction is undone. For
  closes and liquidations `Widths` shows there is none.
* The age of an oracle price: the code ignores the observation's timestamp, and no
  rule in the repository says how old a price may be.
* `upgrade` replaces the code; storage lifetime has no handling in the code.
* The deployment scripts, the mock oracle and the test doubles hold no state of
  their own that matters; `MovePrice` is the mock's `set_price`.
* The frontend-facing list views and the registry's plain getters return stored
  values and change nothing.

## Plan

What a further proof can add: that the accumulators and the registry's views
stay within i128, for which a bound on the ledgers that pass has to be chosen; that the
escrow abstraction and the fund abstraction can be read as one ledger of the USDC of
both contracts. What cannot be added with these provers is the liveness of the bot.
