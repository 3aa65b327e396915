-------------------------------- MODULE Widths --------------------------------
(***************************************************************************)
(* The contracts compute on i128 and check each multiplication, addition   *)
(* and subtraction: one whose result does not fit fails the transaction,   *)
(* and a position whose close always fails is stuck.  Here are all those   *)
(* results, for the position and the price of PriceWalk.                   *)
(***************************************************************************)
EXTENDS PriceWalk

CONSTANT I128_MAX

(* The magnitudes the inputs may have. *)
MagnitudesFit ==
    \A c \in Collateral, l \in Leverage :
        /\ MaxPrice * P_SCALE * (l * 100) =< I128_MAX
        /\ MaxPrice * c =< I128_MAX /\ c * 100 =< I128_MAX
        /\ \A g \in MaxGainP : c * (g * P_SCALE + 1) =< I128_MAX
        /\ \A f \in CloseFee : c * l * (f + 1) =< I128_MAX

ASSUME WidthAssumption == I128_MAX \in Nat /\ MagnitudesFit

Fits(x) == -I128_MAX - 1 =< x /\ x =< I128_MAX

ProfitResults(price) ==
    LET diff == IF position.isLong THEN price - position.openPrice
                                   ELSE position.openPrice - price
        step == MulDivFloor(diff, P_SCALE, position.openPrice)
    IN {diff, diff * P_SCALE, step * position.leverage, step * position.leverage * 100,
        position.maxGainP * P_SCALE}

LiquidationPriceResults ==
    LET bearable == DivTrunc(position.collateral * position.liqThresholdP, 100)
        distance == DivTrunc(MulDivFloor(position.openPrice, bearable, position.collateral),
                             position.leverage)
    IN {position.collateral * position.liqThresholdP, position.openPrice * bearable,
        IF position.isLong THEN position.openPrice - distance
                           ELSE position.openPrice + distance}

CloseFeeResults ==
    LET notional == position.collateral * position.leverage
    IN {notional, notional * position.closeFeeP}

(* The close fee is taken from a solvent position only.                    *)
SettlementResults(price) ==
    LET fee == FeeOn(position.collateral * position.leverage, position.closeFeeP)
    IN {position.collateral * ProfitAt(price), ValueAt(price),
        position.collateral * FloorAtZero(100 - position.liqThresholdP)}
       \cup IF InsolventAt(price) THEN {} ELSE {ValueAt(price) - fee}

(* NothingOverflows: whatever the price does, none of the results of the   *)
(* profit, the liquidation price, the close fee and the settlement of a    *)
(* position overflows, so neither its close nor its liquidation can fail   *)
(* for that: it is the cap on the profit that keeps the settlement's       *)
(* product small.                                                          *)
NothingOverflows ==
    \A x \in ProfitResults(observed) \cup LiquidationPriceResults \cup CloseFeeResults
                \cup SettlementResults(observed) : Fits(x)
=============================================================================
