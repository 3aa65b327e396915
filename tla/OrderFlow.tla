------------------------------ MODULE OrderFlow ------------------------------
(***************************************************************************)
(* Orders on one side of a pair, each executed at the price ExecutionMath  *)
(* gives it after those before it, while the oracle's price stays.         *)
(***************************************************************************)
EXTENDS ExecutionMath

CONSTANTS
    MarketPrice, SpreadP, Depth,
    StartOi,     \* open interest there is before the first order
    Size,        \* sizes of orders
    MaxOrders    \* bound: orders filled

ASSUME OrderFlowAssumption ==
    /\ MarketPrice \subseteq Nat \ {0} /\ SpreadP \subseteq Nat /\ Depth \subseteq Nat
    /\ StartOi \subseteq Nat /\ Size \subseteq Nat \ {0} /\ MaxOrders \in Nat

VARIABLES
    market,    \* side, oracle price, spread, depth and the first open interest
    oi,        \* open interest after the orders filled
    paid,      \* sum of size times execution price
    orders     \* orders filled

flowVars == <<market, oi, paid, orders>>

Market == [isLong : BOOLEAN, price : MarketPrice, spreadP : SpreadP, depth : Depth,
           startOi : StartOi]

FlowInit ==
    /\ market \in Market
    /\ oi = market.startOi
    /\ paid = 0 /\ orders = 0

ExecutesAt(isLong, startOi, size) ==
    ExecutionPrice(market.price, market.spreadP, isLong, startOi, size, market.depth)

Fill(size) ==
    /\ orders < MaxOrders
    /\ orders' = orders + 1
    /\ oi' = oi + size
    /\ paid' = paid + size * ExecutesAt(market.isLong, oi, size)
    /\ UNCHANGED market

FlowStep == \E size \in Size : Fill(size)

FlowSpec == FlowInit /\ [][FlowStep]_flowVars

-----------------------------------------------------------------------------
(* Properties. *)

(* The ticks the impact on an order is off by: half a unit of open interest *)
(* in its middle, a unit of the impact's rate, and what the last division  *)
(* rounds, each to the next tick.                                          *)
ImpactSlack ==
    IF market.depth = 0 THEN 0
    ELSE 3 + market.price \div (200 * USDC_SCALE * market.depth)
           + market.price \div (100 * P_SCALE)

(* The ticks its price is off by, for the spread on those and on itself.    *)
PriceSlack == ImpactSlack + 2 + (ImpactSlack * market.spreadP) \div (100 * P_SCALE)

(* SplittingGainsNothing: filling an amount in parts costs what filling it  *)
(* at once does, but for the ticks that halving and four divisions round.  *)
(* The price depends on the middle of each order, and the middles of the   *)
(* parts must average to the middle of the whole.                          *)
SplittingGainsNothing ==
    LET filled == oi - market.startOi
        atOnce == filled * ExecutesAt(market.isLong, market.startOi, filled)
    IN filled > 0 => /\ paid =< atOnce + PriceSlack * filled
                     /\ atOnce =< paid + PriceSlack * filled

(* NoFreeRoundTrip: at one price of the oracle nobody can buy below and     *)
(* sell above: whatever was filled before, a long is executed at no less   *)
(* than a short, however far the impact moves the two.  A spread above a   *)
(* hundred percent, which the registry would store, turns a price the      *)
(* impact has made negative back into a positive one.                      *)
NoFreeRoundTrip ==
    market.spreadP =< 100 * P_SCALE =>
        \A size, other \in Size :
            ExecutesAt(TRUE, oi, size) >= ExecutesAt(FALSE, oi, other)
=============================================================================
