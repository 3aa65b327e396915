--------------------------- MODULE PositionManager ---------------------------
(***************************************************************************)
(* contracts/position-manager together with the contracts it calls: the    *)
(* Vault, the PairRegistry, the USDC token and the Reflector oracle.       *)
(*                                                                         *)
(* An entry point and every call it makes are one transaction, so one      *)
(* action: the handlers of Vault and PairRegistry are conjoined with the   *)
(* PositionManager's own reads and writes.  What interleaves is the        *)
(* transactions of traders, keepers, LPs and admins, and the moves of the  *)
(* oracle between them.                                                    *)
(*                                                                         *)
(* require_not_paused is left out: no entry point ever sets the flag.  The *)
(* fields acc_rollover_open and acc_funding_open are always 0 and are left *)
(* out, with the zero fees passed for them.                                *)
(***************************************************************************)
EXTENDS Vault, PairRegistry, TradeMath, ReflectorAdapter

CONSTANTS
    PmAddr,        \* the deployed PositionManager
    Slot,          \* trade and limit-order indices
    MaxTrades,     \* max_trades_per_pair values: the default and the admin's
    Price,         \* prices an oracle answers with, at its own decimals
    Collateral,    \* collateral amounts traders pass
    Leverage,      \* leverages traders pass
    LimitPrice,    \* limit prices traders pass
    TriggerPrice   \* take-profit and stop-loss prices traders pass; 0 is unset

ASSUME PositionAssumption ==
    /\ PmAddr \in Manager
    /\ Slot \subseteq Nat /\ IsFiniteSet(Slot) /\ IsFiniteSet(PairIndex)
    /\ MaxTrades \subseteq Nat
    /\ \A max \in MaxTrades : 0 .. max - 1 \subseteq Slot
    /\ Price \subseteq Nat /\ None \notin Price
    /\ Collateral \subseteq Int /\ Leverage \subseteq Nat
    /\ LimitPrice \subseteq Int /\ TriggerPrice \subseteq Int

VARIABLES
    trade,        \* DataKey::Trade(trader, pair, index)
    limitOrder,   \* DataKey::LimitOrder(trader, pair, index)
    maxTrades,    \* DataKey::MaxTradesPerPair
    price,        \* what the oracle's lastprice answers for an asset, or None
    decimals      \* what its decimals() answers

pmVars == <<trade, limitOrder, maxTrades>>
oracle == <<price, decimals>>
vars == <<usdc, sequence, vaultVars, registryVars, pmVars, oracle>>

Key == Holder \X PairIndex \X Slot

Trade == [isLong : BOOLEAN, leverage : Nat \ {0}, openPrice : Nat, collateral : Nat,
          tpPrice : Int, slPrice : Int]
LimitOrder == [isLong : BOOLEAN, leverage : Nat \ {0}, collateral : Nat, limitPrice : Nat,
               tpPrice : Int, slPrice : Int]

ASSUME StoreAssumption == None \notin Trade /\ None \notin LimitOrder

TypeOK ==
    /\ VaultTypeOK
    /\ RegistryTypeOK
    /\ trade \in [Key -> Trade \cup {None}]
    /\ limitOrder \in [Key -> LimitOrder \cup {None}]
    /\ maxTrades \in Nat
    /\ price \in [Asset -> Price \cup {None}]
    /\ decimals \in Decimals

(* The three contracts deployed and wired to each other, a group and a pair *)
(* added under every index at the first ledger, and nothing traded yet.    *)
Init ==
    /\ VaultInit /\ positionManager = PmAddr
    /\ pair \in [PairIndex -> {info \in PairConfig : ValidPairInfo(info) /\ ~info.disabled}]
    /\ group \in [GroupIndex -> {g \in GroupConfig : ValidGroup(g)}]
    /\ rollover = [i \in PairIndex |-> [acc |-> 0, rate |-> 0, last |-> FirstLedger]]
    /\ funding = [i \in PairIndex |-> [long |-> 0, short |-> 0, rate |-> 0,
                                       last |-> FirstLedger]]
    /\ openInterest = [i \in PairIndex |-> [long |-> 0, short |-> 0]]
    /\ depth = [i \in PairIndex |-> 0]
    /\ pairsCount = Cardinality(PairIndex)
    /\ maxPosUsdc \in {m \in MaxPos : m >= 0}
    /\ registryManager = PmAddr
    /\ trade = [k \in Key |-> None]
    /\ limitOrder = [k \in Key |-> None]
    /\ maxTrades \in MaxTrades
    /\ price \in [Asset -> Price \cup {None}]
    /\ decimals \in Decimals

-----------------------------------------------------------------------------
(* What the entry points read. *)

(* The oracle's answer for a pair; None makes the entry points fail.       *)
PriceOf(i) ==
    LET answer == price[pair[i].asset]
    IN IF answer = None THEN None ELSE RescaleToPriceScale(answer, decimals)

GroupOf(i) == group[pair[i].groupIndex]

(* get_pair and get_group answer, and so does the oracle.                  *)
Quoted(i) == HasPair(i) /\ PriceOf(i) # None
Charged(i) == HasPair(i) /\ HasGroup(pair[i].groupIndex)

LeverageAllowed(i, leverage) ==
    pair[i].minLeverage =< leverage /\ leverage =< pair[i].maxLeverage

(* The collateral left of an opening after the open fee.                   *)
EffectiveCollateral(i, collateral, leverage) ==
    collateral - FeeOn(collateral * leverage, GroupOf(i).openFeeP)

(* Mutant: the number of the trader's records is taken for a free index. *)
CountAsIndex(store, trader, i, n) ==
    /\ n < maxTrades
    /\ n = Cardinality({m \in Slot : store[<<trader, i, m>>] # None})

(* n is the first index below the maximum at which the trader has nothing. *)
FirstFree(store, trader, i, n) ==
    /\ n < maxTrades
    /\ store[<<trader, i, n>>] = None
    /\ \A m \in Slot : m < n => store[<<trader, i, m>>] # None

LimitReached(order, observed) ==
    IF order.isLong THEN observed =< order.limitPrice ELSE observed >= order.limitPrice

(* A take-profit or stop-loss price of zero, or below, is not set.         *)
TriggerReached(t, observed) ==
    \/ t.tpPrice > 0 /\ IF t.isLong THEN observed >= t.tpPrice ELSE observed =< t.tpPrice
    \/ t.slPrice > 0 /\ IF t.isLong THEN observed =< t.slPrice ELSE observed >= t.slPrice

(* What a close at the oracle's price pays the trader, and its fee.        *)
Settlement(t, i) ==
    LET profit == CurrentPercentProfit(t.openPrice, PriceOf(i), t.isLong, t.leverage,
                                       pair[i].maxGainP)
    IN SettlementPayout(t.collateral, profit, 0, 0,
                        FeeOn(t.collateral * t.leverage, GroupOf(i).closeFeeP),
                        pair[i].liqThresholdP)

(* Whether liquidate_trade accepts the trade at the oracle's price.        *)
Liquidatable(t, i) ==
    IsLiquidatable(PriceOf(i),
                   LiquidationPrice(t.openPrice, t.isLong, t.collateral, t.leverage, 0, 0,
                                    pair[i].liqThresholdP),
                   t.isLong)

-----------------------------------------------------------------------------
(* What several entry points do. *)

PullCollateral(trader, collateral) ==
    /\ CanTransfer(usdc, trader, collateral)
    /\ usdc' = Transfer(usdc, trader, PmAddr, collateral)

(* Store a trade at the oracle's price under the first free index, and add *)
(* its notional to the open interest.                                      *)
RecordTrade(trader, i, isLong, leverage, effective, tp, sl) ==
    /\ \E n \in Slot :
        /\ FirstFree(trade, trader, i, n)
        /\ trade' = [trade EXCEPT ![<<trader, i, n>>] =
                        [isLong |-> isLong, leverage |-> leverage, openPrice |-> PriceOf(i),
                         collateral |-> effective, tpPrice |-> tp, slPrice |-> sl]]
    /\ AddOi(PmAddr, i, isLong, effective * leverage)

(* Settle a trade through the vault, remove it, and take its notional off  *)
(* the open interest.                                                      *)
SettleTrade(trader, i, n, fromPm, net) ==
    LET t == trade[<<trader, i, n>>]
    IN /\ Settle(PmAddr, trader, fromPm, net)
       /\ trade' = [trade EXCEPT ![<<trader, i, n>>] = None]
       /\ SubOi(PmAddr, i, t.isLong, t.collateral * t.leverage)
       /\ UNCHANGED <<limitOrder, maxTrades, oracle>>

(* Mutant: a disabled pair cannot be closed. *)
CloseUnlessDisabled(trader, i, n) ==
    LET t == trade[<<trader, i, n>>]
        settled == Settlement(t, i)
        fromPm == t.collateral - settled.fee
    IN /\ Quoted(i) /\ Charged(i) /\ ~pair[i].disabled
       /\ t.openPrice > 0 /\ t.collateral > 0
       /\ SettleTrade(trader, i, n, fromPm, settled.payout - fromPm)

(* The close that close_market_trade and execute_tp_sl share: the           *)
(* PositionManager keeps the fee and sends the rest to the vault.          *)
CloseAtMarket(trader, i, n) ==
    LET t == trade[<<trader, i, n>>]
        settled == Settlement(t, i)
        fromPm == t.collateral - settled.fee
    IN /\ Quoted(i) /\ Charged(i)
       /\ t.openPrice > 0 /\ t.collateral > 0
       /\ SettleTrade(trader, i, n, fromPm, settled.payout - fromPm)

-----------------------------------------------------------------------------
(* The entry points. *)

OpenMarketTrade(trader, i, isLong, collateral, leverage, tp, sl) ==
    LET effective == EffectiveCollateral(i, collateral, leverage)
    IN /\ collateral > 0 /\ leverage # 0
       /\ HasPair(i) /\ ~pair[i].disabled /\ LeverageAllowed(i, leverage)
       /\ Quoted(i) /\ Charged(i)
       /\ effective > 0
       /\ PullCollateral(trader, collateral)
       /\ RecordTrade(trader, i, isLong, leverage, effective, tp, sl)
       /\ UNCHANGED <<sequence, vaultVars, limitOrder, maxTrades, oracle>>

CloseMarketTrade(trader, i, n) ==
    /\ trade[<<trader, i, n>>] # None
    /\ CloseAtMarket(trader, i, n)

PlaceLimitOrder(trader, i, isLong, collateral, leverage, limitPrice, tp, sl) ==
    /\ collateral > 0 /\ leverage # 0 /\ limitPrice > 0
    /\ HasPair(i) /\ ~pair[i].disabled /\ LeverageAllowed(i, leverage)
    /\ PullCollateral(trader, collateral)
    /\ \E n \in Slot :
        /\ FirstFree(limitOrder, trader, i, n)
        /\ limitOrder' = [limitOrder EXCEPT ![<<trader, i, n>>] =
                            [isLong |-> isLong, leverage |-> leverage,
                             collateral |-> collateral, limitPrice |-> limitPrice,
                             tpPrice |-> tp, slPrice |-> sl]]
    /\ UNCHANGED <<sequence, vaultVars, registryVars, trade, maxTrades, oracle>>

(* Mutant: the executed order is not removed. *)
ExecuteKeepsOrder(trader, i, n) ==
    LET order == limitOrder[<<trader, i, n>>]
    IN /\ order # None
       /\ Quoted(i) /\ Charged(i)
       /\ LimitReached(order, PriceOf(i))
       /\ RecordTrade(trader, i, order.isLong, order.leverage,
                      EffectiveCollateral(i, order.collateral, order.leverage),
                      order.tpPrice, order.slPrice)
       /\ UNCHANGED <<usdc, sequence, vaultVars, limitOrder, maxTrades, oracle>>

(* Anyone may call it.  Neither the pair's disabled flag, nor its leverage  *)
(* bounds, nor the sign of what the open fee leaves is looked at again.    *)
ExecuteLimitOrder(trader, i, n) ==
    LET order == limitOrder[<<trader, i, n>>]
    IN /\ order # None
       /\ Quoted(i) /\ Charged(i)
       /\ LimitReached(order, PriceOf(i))
       /\ RecordTrade(trader, i, order.isLong, order.leverage,
                      EffectiveCollateral(i, order.collateral, order.leverage),
                      order.tpPrice, order.slPrice)
       /\ limitOrder' = [limitOrder EXCEPT ![<<trader, i, n>>] = None]
       /\ UNCHANGED <<usdc, sequence, vaultVars, maxTrades, oracle>>

(* Mutant: the refunded order is not removed. *)
CancelKeepsOrder(trader, i, n) ==
    LET order == limitOrder[<<trader, i, n>>]
    IN /\ order # None
       /\ CanTransfer(usdc, PmAddr, order.collateral)
       /\ usdc' = Transfer(usdc, PmAddr, trader, order.collateral)
       /\ UNCHANGED <<sequence, vaultVars, registryVars, trade, limitOrder, maxTrades, oracle>>

(* Mutant: an order on a disabled pair cannot be cancelled. *)
CancelUnlessDisabled(trader, i, n) ==
    LET order == limitOrder[<<trader, i, n>>]
    IN /\ order # None /\ ~pair[i].disabled
       /\ CanTransfer(usdc, PmAddr, order.collateral)
       /\ usdc' = Transfer(usdc, PmAddr, trader, order.collateral)
       /\ limitOrder' = [limitOrder EXCEPT ![<<trader, i, n>>] = None]
       /\ UNCHANGED <<sequence, vaultVars, registryVars, trade, maxTrades, oracle>>

CancelLimitOrder(trader, i, n) ==
    LET order == limitOrder[<<trader, i, n>>]
    IN /\ order # None
       /\ CanTransfer(usdc, PmAddr, order.collateral)
       /\ usdc' = Transfer(usdc, PmAddr, trader, order.collateral)
       /\ limitOrder' = [limitOrder EXCEPT ![<<trader, i, n>>] = None]
       /\ UNCHANGED <<sequence, vaultVars, registryVars, trade, maxTrades, oracle>>

UpdateLimitOrder(trader, i, n, limitPrice, tp, sl) ==
    LET order == limitOrder[<<trader, i, n>>]
    IN /\ order # None
       /\ limitPrice > 0
       /\ limitOrder' = [limitOrder EXCEPT ![<<trader, i, n>>] =
                            [isLong |-> order.isLong, leverage |-> order.leverage,
                             collateral |-> order.collateral, limitPrice |-> limitPrice,
                             tpPrice |-> tp, slPrice |-> sl]]
       /\ UNCHANGED <<usdc, sequence, vaultVars, registryVars, trade, maxTrades, oracle>>

(* Anyone may call it; the vault keeps the whole collateral.               *)
LiquidateTrade(trader, i, n) ==
    LET t == trade[<<trader, i, n>>]
    IN /\ t # None
       /\ Quoted(i)
       /\ t.collateral # 0
       /\ Liquidatable(t, i)
       /\ SettleTrade(trader, i, n, t.collateral, -t.collateral)

UpdateTpSl(trader, i, n, tp, sl) ==
    LET t == trade[<<trader, i, n>>]
    IN /\ t # None
       /\ trade' = [trade EXCEPT ![<<trader, i, n>>] =
                        [isLong |-> t.isLong, leverage |-> t.leverage,
                         openPrice |-> t.openPrice, collateral |-> t.collateral,
                         tpPrice |-> tp, slPrice |-> sl]]
       /\ UNCHANGED <<usdc, sequence, vaultVars, registryVars, limitOrder, maxTrades, oracle>>

(* Anyone may call it, as the keeper.                                      *)
ExecuteTpSl(trader, i, n) ==
    LET t == trade[<<trader, i, n>>]
    IN /\ t # None
       /\ Quoted(i)
       /\ TriggerReached(t, PriceOf(i))
       /\ CloseAtMarket(trader, i, n)

SetMaxTradesPerPair(max) ==
    /\ maxTrades' = max
    /\ UNCHANGED <<usdc, sequence, vaultVars, registryVars, trade, limitOrder, oracle>>

-----------------------------------------------------------------------------
(* The oracle. *)

(* The feed answers otherwise than before, or stops answering.             *)
MovePrice(asset, answer) ==
    /\ price' = [price EXCEPT ![asset] = answer]
    /\ UNCHANGED decimals
    /\ UNCHANGED <<usdc, sequence, vaultVars, registryVars, pmVars>>

(* Another oracle, with answers and decimals of its own.                   *)
SetReflectorContract(answers, theirs) ==
    /\ price' = answers
    /\ decimals' = theirs
    /\ UNCHANGED <<usdc, sequence, vaultVars, registryVars, pmVars>>

-----------------------------------------------------------------------------
TraderStep ==
    \E trader \in Holder, i \in PairIndex :
        \/ \E isLong \in BOOLEAN, collateral \in Collateral, leverage \in Leverage,
              tp, sl \in TriggerPrice :
            \/ OpenMarketTrade(trader, i, isLong, collateral, leverage, tp, sl)
            \/ \E limitPrice \in LimitPrice :
                PlaceLimitOrder(trader, i, isLong, collateral, leverage, limitPrice, tp, sl)
        \/ \E n \in Slot :
            \/ CloseMarketTrade(trader, i, n)
            \/ CancelLimitOrder(trader, i, n)
            \/ \E tp, sl \in TriggerPrice :
                \/ UpdateTpSl(trader, i, n, tp, sl)
                \/ \E limitPrice \in LimitPrice :
                    UpdateLimitOrder(trader, i, n, limitPrice, tp, sl)

KeeperStep ==
    \E trader \in Holder, i \in PairIndex, n \in Slot :
        \/ ExecuteLimitOrder(trader, i, n)
        \/ LiquidateTrade(trader, i, n)
        \/ ExecuteTpSl(trader, i, n)

OracleStep ==
    \/ \E asset \in Asset, answer \in Price \cup {None} : MovePrice(asset, answer)
    \/ \E answers \in [Asset -> Price \cup {None}], theirs \in Decimals :
        SetReflectorContract(answers, theirs)

(* Steps of the other contracts on their own.  The vault's and registry's   *)
(* PositionManager entry points are taken only inside the steps above: no  *)
(* entry point of the PositionManager reaches take_collateral,             *)
(* record_bad_debt or the two commits.                                     *)
PoolStep ==
    /\ LpStep \/ ShareTokenStep \/ VaultAdminStep \/ CloseLedger
    /\ UNCHANGED <<registryVars, pmVars, oracle>>

AdminStep ==
    \/ \E max \in MaxTrades : SetMaxTradesPerPair(max)
    \/ RegistryAdminStep /\ UNCHANGED <<usdc, sequence, vaultVars, pmVars, oracle>>

Next == TraderStep \/ KeeperStep \/ OracleStep \/ PoolStep \/ AdminStep

Spec == Init /\ [][Next]_vars

-----------------------------------------------------------------------------
(* Properties. *)

(* USDC the PositionManager holds for somebody: the collateral of the open  *)
(* trades, after the open fee, and of the resting orders, before it.       *)
TradeCollateral == [k \in Key |-> IF trade[k] = None THEN 0 ELSE trade[k].collateral]
OrderCollateral == [k \in Key |-> IF limitOrder[k] = None THEN 0 ELSE limitOrder[k].collateral]
Custody == Total(TradeCollateral) + Total(OrderCollateral)

(* What is left of its balance: the open and close fees.                   *)
FeesKept == usdc[PmAddr] - Custody

(* CustodyBacked: the PositionManager can always hand back all collateral   *)
(* it took.  Fees, settlements, cancellations and executions move its      *)
(* balance and its records by different amounts, at fee rates that change  *)
(* in between; the balance may never fall short of the records.            *)
CustodyBacked == usdc[PmAddr] >= Custody

(* FeesNeverLeave: no step pays anybody out of the fees collected, that is  *)
(* no close, liquidation or refund takes more out of the PositionManager   *)
(* than that trade or order put in.                                        *)
FeesNeverLeave == [][FeesKept' >= FeesKept]_<<usdc[PmAddr], trade, limitOrder>>

(* OiMatchesTrades: the registry's open interest on either side of a pair   *)
(* is the notional of the trades the PositionManager holds there.  The two *)
(* are kept in different contracts, and sub_oi's floor at zero would hide  *)
(* any drift between them.                                                 *)
SideNotional(i, isLong) ==
    [k \in Key |-> IF k[2] = i /\ trade[k] # None /\ trade[k].isLong = isLong
                   THEN trade[k].collateral * trade[k].leverage ELSE 0]

OiMatchesTrades ==
    \A i \in PairIndex, isLong \in BOOLEAN :
        SideOf(openInterest[i], isLong) = Total(SideNotional(i, isLong))

(* SettlementConserves: when a trade ends, its collateral is split between  *)
(* trader, LPs and fees to the last unit, whatever rounding and clamping   *)
(* the price, the fee and the insolvency rule went through, and the LPs    *)
(* never pay more than the gain cap on that collateral.                    *)
SettlementConserves ==
    [][\A k \in Key : trade[k] # None /\ trade'[k] = None =>
        LET paid == usdc'[k[1]] - usdc[k[1]]
            earned == totalAssets' - totalAssets
            fee == FeesKept' - FeesKept
        IN /\ paid + earned + fee = trade[k].collateral
           /\ paid >= 0 /\ fee >= 0
           /\ -earned * 100 =< trade[k].collateral * pair[k[2]].maxGainP]_trade

(* WinnersKeepCollateral: however a trade ends - closed by its trader,      *)
(* triggered or liquidated by a keeper - while the price is on the winning *)
(* side of its opening price, the trader gets at least the collateral less *)
(* the close fee.  The liquidation price, the insolvency cutoff and the    *)
(* profit are three separately rounded formulas over parameters the admin  *)
(* may have changed since the trade was opened.                            *)
Winning(t, i) ==
    IF t.isLong THEN PriceOf(i) > t.openPrice ELSE PriceOf(i) < t.openPrice

WinnersKeepCollateral ==
    [][\A k \in Key : trade[k] # None /\ trade'[k] = None /\ Winning(trade[k], k[2]) =>
        usdc'[k[1]] - usdc[k[1]] >= trade[k].collateral - (FeesKept' - FeesKept)]_trade

(* The vault and the registry both take the PositionManager's calls.        *)
Wired == positionManager = PmAddr /\ registryManager = PmAddr

(* LiquidationNeverBlocked: a trade the keepers may liquidate can be        *)
(* liquidated in that very state, while the contracts are wired to each    *)
(* other.  A paused vault, a disabled pair, an empty pool, a changed fee,  *)
(* another oracle, or a rewiring made and undone since the trade was       *)
(* opened may not make the transaction fail.                               *)
LiquidationNeverBlocked ==
    \A trader \in Holder, i \in PairIndex, n \in Slot :
        LET t == trade[<<trader, i, n>>]
        IN Wired /\ t # None /\ t.collateral # 0 /\ Quoted(i) /\ Liquidatable(t, i)
               => ENABLED LiquidateTrade(trader, i, n)

(* CloseNeverBlocked: a trader with a live price can close, whatever pause, *)
(* disabling, configuration or change of oracle came in between, unless    *)
(* the close fee exceeds the collateral, the pool cannot pay the gain, or  *)
(* the trade was opened at an oracle price rescaled to zero.               *)
CloseNeverBlocked ==
    \A trader \in Holder, i \in PairIndex, n \in Slot :
        LET t == trade[<<trader, i, n>>]
        IN /\ Wired
           /\ t # None /\ t.collateral > 0 /\ Quoted(i) /\ t.openPrice > 0
           /\ Settlement(t, i).fee =< t.collateral
           /\ Settlement(t, i).payout - (t.collateral - Settlement(t, i).fee) =< totalAssets
           => ENABLED CloseMarketTrade(trader, i, n)

(* RefundNeverBlocked: a resting order can always be cancelled, so its      *)
(* collateral is never locked in.                                          *)
RefundNeverBlocked ==
    \A trader \in Holder, i \in PairIndex, n \in Slot :
        limitOrder[<<trader, i, n>>] # None => ENABLED CancelLimitOrder(trader, i, n)

(* NoOpenWhileDisabled: pair-registry/docs/README.md:131, "new positions    *)
(* cannot be opened while disabled".                                       *)
NoOpenWhileDisabled ==
    [][\A k \in Key :
        trade[k] = None /\ pair[k[2]].disabled => trade'[k] = None]_trade

(* EscrowImplemented: the composed contracts are an escrow.  Whatever       *)
(* sequence of orders, executions, triggers, liquidations and settlements  *)
(* a trader's money goes through, each step moves one trader's stake, and  *)
(* to the last unit, though the contracts keep it in one token balance,    *)
(* two maps and the vault's pool.                                          *)
Escrow ==
    INSTANCE TradeEscrow WITH
        Trader <- Holder, Pair <- PairIndex,
        wallet <- [h \in Holder |-> usdc[h]],
        order <- [k \in Key |-> IF limitOrder[k] = None THEN None
                                                       ELSE limitOrder[k].collateral],
        trade <- [k \in Key |-> IF trade[k] = None THEN None ELSE trade[k].collateral],
        pool <- totalAssets,
        fees <- FeesKept

EscrowImplemented == Escrow!Spec
=============================================================================
