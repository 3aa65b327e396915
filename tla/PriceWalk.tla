------------------------------ MODULE PriceWalk ------------------------------
(***************************************************************************)
(* One position, and a price that walks away from where it was opened, one *)
(* tick at a time.  The contracts and the bot put six formulas to the      *)
(* position, each with roundings of its own: its profit, its settlement,   *)
(* its insolvency, its liquidation price, the profit shown to the trader,  *)
(* and the bot's liquidation price.  The properties relate them.           *)
(***************************************************************************)
EXTENDS TradeMath, KeeperMath

CONSTANTS
    OpenPrice, Collateral, Leverage, LiqThresholdP, MaxGainP,
    CloseFee,    \* close fee rates
    MaxPrice     \* bound of the walk

ASSUME PriceWalkAssumption ==
    /\ OpenPrice \subseteq 1 .. MaxPrice /\ MaxPrice \in Nat
    /\ Collateral \subseteq Nat \ {0} /\ Leverage \subseteq Nat \ {0}
    /\ LiqThresholdP \subseteq 1 .. 100 /\ MaxGainP \subseteq Nat \ {0}
    /\ CloseFee \subseteq Nat

VARIABLES
    position,
    observed     \* the oracle's price, at PRICE_SCALE

walkVars == <<position, observed>>

Position == [isLong : BOOLEAN, openPrice : OpenPrice, collateral : Collateral,
             leverage : Leverage, liqThresholdP : LiqThresholdP, maxGainP : MaxGainP,
             closeFeeP : CloseFee]

WalkInit ==
    /\ position \in Position
    /\ observed = position.openPrice

Tick ==
    /\ observed' \in {observed - 1, observed + 1} \cap (0 .. MaxPrice)
    /\ UNCHANGED position

WalkSpec == WalkInit /\ [][Tick]_walkVars

-----------------------------------------------------------------------------
(* The formulas at a price. *)

ProfitAt(price) ==
    CurrentPercentProfit(position.openPrice, price, position.isLong, position.leverage,
                         position.maxGainP)

ValueAt(price) == SettlementValue(position.collateral, ProfitAt(price), 0, 0)

ClosedAt(price) ==
    SettlementPayout(position.collateral, ProfitAt(price), 0, 0,
                     FeeOn(position.collateral * position.leverage, position.closeFeeP),
                     position.liqThresholdP)

LiqPrice ==
    LiquidationPrice(position.openPrice, position.isLong, position.collateral,
                     position.leverage, 0, 0, position.liqThresholdP)

LiquidatableAt(price) == IsLiquidatable(price, LiqPrice, position.isLong)

InsolventAt(price) ==
    ValueAt(price) =< InsolvencyCutoff(position.collateral, position.liqThresholdP)

(* A price so many ticks worse for the position. *)
Worse(price, ticks) == IF position.isLong THEN price - ticks ELSE price + ticks

(* The ticks, or part of one, that one unit of collateral stands for, and   *)
(* those that one unit of the profit rate does.                            *)
UnitInTicks == 1 + position.openPrice \div (position.collateral * position.leverage)
RateInTicks == position.openPrice \div P_SCALE

(* The cap on gains caps losses too; one this low keeps the position from   *)
(* ever becoming insolvent.  The registry does not compare it with the     *)
(* liquidation threshold.                                                  *)
CapKeepsSolvent ==
    SettlementValue(position.collateral, -(position.maxGainP * P_SCALE), 0, 0)
        > InsolvencyCutoff(position.collateral, position.liqThresholdP)

-----------------------------------------------------------------------------
(* Properties. *)

(* PayoutFollowsPrice: a price better for the position never pays less when *)
(* it is closed, across the gain cap, the insolvency cutoff and the close  *)
(* fee that is waived beneath it.                                          *)
PayoutFollowsPrice ==
    [][Worse(observed, 1) = observed' =>
            ClosedAt(observed').payout =< ClosedAt(observed).payout]_walkVars

(* LiquidationTakesNothing: where a keeper may liquidate, the trader would  *)
(* not have got anything by closing either, a unit of collateral and a     *)
(* tick further on, for what the two formulas round.                       *)
LiquidationTakesNothing ==
    LiquidatableAt(observed) /\ ~CapKeepsSolvent =>
        ClosedAt(Worse(observed, UnitInTicks + 1)).payout = 0

(* NoInsolventEscape: an insolvent position can be liquidated, a unit of    *)
(* collateral and of the profit rate further on, unless its liquidation    *)
(* price is zero.                                                          *)
NoInsolventEscape ==
    InsolventAt(observed) /\ LiqPrice # 0 =>
        LiquidatableAt(Worse(observed, UnitInTicks + RateInTicks))

(* ShownPnlIsPaid: what get_trade_pnl shows is what a close then pays above *)
(* the collateral, but for the close fee and at most one unit of rounding. *)
ShownPnlIsPaid ==
    LET closed == ClosedAt(observed)
        shown == ShownPnl(position.collateral, ProfitAt(observed))
        paid == closed.payout + closed.fee - position.collateral
    IN closed.payout > 0 => paid =< shown /\ shown =< paid + 1

Watching ==
    [isLong |-> position.isLong, openPrice |-> position.openPrice,
     collateral |-> position.collateral, leverage |-> position.leverage,
     liqThresholdP |-> position.liqThresholdP]

(* BotNeverEarly: the contracts accept what the bot finds liquidatable, at  *)
(* that price, though it divides once where they divide twice.             *)
BotNeverEarly ==
    observed > 0 /\ FoundLiquidatable(Watching, observed) => LiquidatableAt(observed)

(* BotSoonAfter: the bot finds liquidatable what the contracts would        *)
(* accept, at the latest one unit of collateral further on.                *)
BotSoonAfter ==
    LiquidatableAt(observed) => FoundLiquidatable(Watching, Worse(observed, UnitInTicks))
=============================================================================
