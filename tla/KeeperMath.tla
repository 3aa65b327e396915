----------------------------- MODULE KeeperMath -----------------------------
(***************************************************************************)
(* keeper_bot.js: the bot's own liquidation price, in BigInt arithmetic    *)
(* that truncates, from the entry it has for a trade.                      *)
(***************************************************************************)
EXTENDS FixedPoint

(* Mutant: the whole collateral may be lost before the trade is due. *)
CalculateLiquidationPriceAtTotalLoss(entry) ==
    LET priceDelta == DivTrunc(entry.openPrice, entry.leverage)
    IN IF entry.isLong THEN entry.openPrice - priceDelta ELSE entry.openPrice + priceDelta

(* Mutant: the trade is due once the maintenance margin is lost. *)
CalculateLiquidationPriceAtMargin(entry) ==
    LET maintenanceMargin == DivTrunc(entry.collateral * (100 - entry.liqThresholdP), 100)
        priceDelta == DivTrunc(maintenanceMargin * entry.openPrice,
                               entry.collateral * entry.leverage)
    IN IF entry.isLong THEN entry.openPrice - priceDelta ELSE entry.openPrice + priceDelta

CalculateLiquidationPrice(entry) ==
    LET notional == entry.collateral * entry.leverage
        maintenanceMargin == DivTrunc(entry.collateral * (100 - entry.liqThresholdP), 100)
        pnlNeeded == entry.collateral - maintenanceMargin
        priceDelta == DivTrunc(pnlNeeded * entry.openPrice, notional)
    IN IF entry.isLong THEN entry.openPrice - priceDelta ELSE entry.openPrice + priceDelta

(* Whether the bot sends a transaction for the entry at a price it fetched. *)
FoundLiquidatable(entry, currentPrice) ==
    IF entry.isLong THEN currentPrice =< CalculateLiquidationPrice(entry)
                    ELSE currentPrice >= CalculateLiquidationPrice(entry)
=============================================================================
