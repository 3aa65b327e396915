---------------------------- MODULE FormulaProofs ----------------------------
(***************************************************************************)
(* The formulas of the contracts and of the bot agree, within the rounding *)
(* the properties of PriceWalk and OrderFlow name, and none overflows: for  *)
(* every position, price, market and order.  The type invariant is all the *)
(* induction there is; the rest is arithmetic, in lemmas about plain       *)
(* integers whose products are named and opaque.                           *)
(***************************************************************************)
EXTENDS Widths, OrderFlow, MathProofs

-----------------------------------------------------------------------------
(* The walk. *)

WalkTypeOK == position \in Position /\ observed \in Nat

(* The position and the price are of their types. *)
LEMMA WalkTyped == WalkSpec => []WalkTypeOK
<1>1. WalkInit => WalkTypeOK
  BY PriceWalkAssumption DEF WalkInit, WalkTypeOK, Position
<1>2. WalkTypeOK /\ [Tick]_walkVars => WalkTypeOK'
  BY PriceWalkAssumption DEF WalkTypeOK, Tick, walkVars
<1> QED
  BY <1>1, <1>2, PTL DEF WalkSpec

(* The numbers a position is made of. *)
LEMMA PositionTypes ==
    ASSUME WalkTypeOK
    PROVE  /\ position.isLong \in BOOLEAN
           /\ position.openPrice \in Nat /\ position.openPrice > 0
           /\ position.collateral \in Nat /\ position.collateral > 0
           /\ position.leverage \in Nat /\ position.leverage > 0
           /\ position.liqThresholdP \in Nat /\ position.liqThresholdP > 0
           /\ position.liqThresholdP <= 100
           /\ position.maxGainP \in Nat /\ position.closeFeeP \in Nat
           /\ observed \in Nat /\ P_SCALE \in Nat /\ P_SCALE > 0
<1>1. /\ position.isLong \in BOOLEAN /\ position.openPrice \in OpenPrice
      /\ position.collateral \in Collateral /\ position.leverage \in Leverage
      /\ position.liqThresholdP \in LiqThresholdP /\ position.maxGainP \in MaxGainP
      /\ position.closeFeeP \in CloseFee
  BY DEF WalkTypeOK, Position
<1>2. /\ position.openPrice \in 1 .. MaxPrice /\ position.liqThresholdP \in 1 .. 100
      /\ position.collateral \in Nat \ {0} /\ position.leverage \in Nat \ {0}
      /\ position.maxGainP \in Nat \ {0} /\ position.closeFeeP \in Nat
      /\ MaxPrice \in Nat
  BY <1>1, PriceWalkAssumption
<1> QED
  BY <1>1, <1>2, ScaleAssumption DEF WalkTypeOK

Notional == position.collateral * position.leverage
Cutoff == InsolvencyCutoff(position.collateral, position.liqThresholdP)

(* What the position may lose before it may be liquidated, and how far the  *)
(* price goes for that.                                                    *)
Bearable == (position.collateral * position.liqThresholdP) \div 100
Distance == (position.openPrice * Bearable) \div Notional

(* What may be lost is what the cutoff leaves, or less by the two roundings. *)
LEMMA Bearables ==
    ASSUME WalkTypeOK
    PROVE  /\ Notional \in Nat /\ Notional > 0
           /\ Bearable \in Nat /\ Cutoff \in Nat /\ Distance \in Nat
           /\ position.collateral - Cutoff > 0
           /\ Bearable <= position.collateral - Cutoff
           /\ position.collateral - Cutoff <= Bearable + 1
           /\ Cutoff = (position.collateral * (100 - position.liqThresholdP)) \div 100
<1> DEFINE c == position.collateral
           t == position.liqThresholdP
           lost == c * t
           left == c * (100 - t)
<1>1. /\ c \in Nat /\ c > 0 /\ t \in Nat /\ t > 0 /\ t <= 100 /\ position.leverage \in Nat
      /\ position.leverage > 0 /\ position.openPrice \in Nat
  BY PositionTypes
<1>2. lost \in Nat /\ left \in Nat /\ lost > 0 /\ lost + left = 100 * c
  <2>1. 100 - t \in Nat
    BY <1>1
  <2>2. lost > 0 /\ lost + left = 100 * c
    BY <1>1
  <2> QED
    BY <1>1, <2>1, <2>2, TimesNat
<1>3. Notional \in Nat /\ Notional > 0
  BY <1>1, TimesNat DEF Notional
<1>4. Cutoff = left \div 100
  BY <1>1, <1>2 DEF Cutoff, InsolvencyCutoff, FloorAtZero, DivTrunc
<1>5. Bearable = lost \div 100
  BY DEF Bearable
<1>6. c \in Nat /\ left = (c * (100 - t))
  BY <1>1
<1> HIDE DEF lost, left, c
<1>7. /\ lost \div 100 \in Nat /\ left \div 100 \in Nat /\ c - (left \div 100) > 0
      /\ lost \div 100 <= c - (left \div 100) /\ c - (left \div 100) <= (lost \div 100) + 1
  BY <1>2, <1>6
<1>8. Distance \in Nat
  BY <1>1, <1>3, <1>5, <1>7, TimesNat, DivNat DEF Distance
<1> QED
  BY <1>3, <1>4, <1>5, <1>6, <1>7, <1>8 DEF c

(* The contracts' liquidation price lies that distance from the opening.    *)
LEMMA LiqPriceIs ==
    ASSUME WalkTypeOK
    PROVE  LiqPrice = FloorAtZero(IF position.isLong THEN position.openPrice - Distance
                                                     ELSE position.openPrice + Distance)
<1>1. /\ position.openPrice \in Nat /\ position.collateral \in Nat /\ position.collateral > 0
      /\ position.leverage \in Nat /\ position.leverage > 0
      /\ position.liqThresholdP \in Nat
  BY PositionTypes
<1>2. position.collateral * position.liqThresholdP \in Nat /\ Bearable \in Nat
  BY <1>1, TimesNat, Bearables
<1>3. DivTrunc(position.collateral * position.liqThresholdP, 100) - 0 - 0 = Bearable
  BY <1>2 DEF DivTrunc, Bearable
<1> DEFINE product == position.openPrice * Bearable
<1>4. product \in Nat
  BY <1>1, <1>2, TimesNat
<1>5. MulDivFloor(position.openPrice, Bearable, position.collateral)
        = product \div position.collateral
  BY DEF MulDivFloor
<1>6. Distance = product \div (position.collateral * position.leverage)
  BY DEF Distance, Notional
<1> HIDE DEF product
<1>7. product \div position.collateral \in Nat
  BY <1>1, <1>4, DivNat
<1>8. DivTrunc(product \div position.collateral, position.leverage) = Distance
  BY <1>1, <1>4, <1>6, <1>7, DivTwice DEF DivTrunc
<1> QED
  BY <1>3, <1>5, <1>8 DEF LiqPrice, LiquidationPrice

(* How far a price has moved against the position. *)
Adverse(price) == IF position.isLong THEN position.openPrice - price
                                     ELSE price - position.openPrice

Cap == position.maxGainP * P_SCALE

(* The profit at a price, with the rate it is lost at rounded up to s.      *)
LEMMA ProfitIs ==
    ASSUME WalkTypeOK, NEW now \in Int
    PROVE  /\ Cap \in Nat
           /\ \E s \in Int :
                /\ position.openPrice * s >= Adverse(now) * P_SCALE
                /\ position.openPrice * s < Adverse(now) * P_SCALE + position.openPrice
                /\ 100 * (position.leverage * s) \in Int
                /\ ProfitAt(now) = Clamp(-(100 * (position.leverage * s)), -Cap, Cap)
<1> DEFINE o == position.openPrice
           diff == IF position.isLong THEN now - o ELSE o - now
           product == diff * P_SCALE
           step == product \div o
           s == -step
<1>1. /\ o \in Nat /\ o > 0 /\ position.leverage \in Nat /\ position.maxGainP \in Nat
      /\ P_SCALE \in Nat /\ position.isLong \in BOOLEAN
  BY PositionTypes
<1>2. Cap \in Nat
  BY <1>1, TimesNat DEF Cap
<1>3. diff \in Int /\ Adverse(now) = -diff
  BY <1>1 DEF Adverse
<1> HIDE DEF diff
<1>4. product \in Int /\ Adverse(now) * P_SCALE = -product
  BY <1>1, <1>3
<1>5. ProfitAt(now) = Clamp(step * position.leverage * 100, -Cap, Cap)
  BY DEF ProfitAt, CurrentPercentProfit, MulDivFloor, Cap, diff
<1> HIDE DEF product
<1>6. step \in Int /\ o * step <= product /\ product < o * step + o
  BY <1>1, <1>4, FloorDivision
<1> HIDE DEF step
<1>7. /\ s \in Int /\ o * s = -(o * step)
      /\ step * position.leverage * 100 = -(100 * (position.leverage * s))
      /\ 100 * (position.leverage * s) \in Int
  BY <1>1, <1>6
<1>8. o * step \in Int
  BY <1>1, <1>6
<1> HIDE DEF s
<1> QED
  BY <1>1, <1>2, <1>4, <1>5, <1>6, <1>7, <1>8

(* How much profit rate it takes to lose an amount of collateral, with the  *)
(* settlement's two roundings.                                             *)
LEMMA LossReached ==
    ASSUME NEW collateral \in Nat, NEW profit \in Int, NEW amount \in Nat, amount > 0
    PROVE  LET left == SettlementValue(collateral, profit, 0, 0)
           IN /\ left \in Int
              /\ collateral * profit <= -(P_SCALE * (100 * amount))
                    => left <= collateral - amount
              /\ left <= collateral - amount
                    => collateral * profit < P_SCALE - P_SCALE * (100 * amount)
<1> DEFINE g == collateral * profit
           f == g \div P_SCALE
           bound == 100 * amount
<1>1. P_SCALE \in Nat /\ P_SCALE > 0 /\ g \in Int
  BY ScaleAssumption
<1>2. SettlementValue(collateral, profit, 0, 0) = collateral + DivTrunc(f, 100) - 0 - 0
  BY DEF SettlementValue, MulDivFloor
<1> HIDE DEF g
<1>3. f \in Int /\ P_SCALE * f <= g /\ g < P_SCALE * f + P_SCALE
  BY <1>1, FloorDivision
<1> HIDE DEF f
<1>4. DivTrunc(f, 100) \in Int /\ (DivTrunc(f, 100) <= -amount <=> f <= -bound)
  BY <1>3 DEF DivTrunc
<1>5. bound \in Nat /\ P_SCALE * bound \in Nat /\ P_SCALE * f \in Int
      /\ P_SCALE * (-bound) = -(P_SCALE * bound)
  BY <1>1, <1>3, TimesNat
<1> HIDE DEF bound
<1>6. f <= -bound => P_SCALE * f <= -(P_SCALE * bound)
  <2> SUFFICES ASSUME f <= -bound PROVE P_SCALE * f <= -(P_SCALE * bound)
    OBVIOUS
  <2>1. -f \in Nat /\ bound \in Nat /\ bound <= -f
    BY <1>3, <1>5
  <2>2. P_SCALE * (-f) >= P_SCALE * bound
    BY <1>1, <2>1, TimesMonotone
  <2>3. P_SCALE * (-f) = -(P_SCALE * f)
    BY <1>1, <1>3
  <2> QED
    BY <1>5, <2>2, <2>3
<1>7. g <= -(P_SCALE * bound) => f <= -bound
  <2> SUFFICES ASSUME f > -bound PROVE g > -(P_SCALE * bound)
    BY <1>1, <1>3, <1>5
  <2>1. PICK gap \in Nat : f = 1 - bound + gap
    <3>1. f - 1 + bound \in Nat /\ f = 1 - bound + (f - 1 + bound)
      BY <1>3, <1>5
    <3> QED
      BY <3>1
  <2>2. P_SCALE * gap \in Nat /\ P_SCALE * f = P_SCALE - P_SCALE * bound + P_SCALE * gap
    BY <1>1, <1>5, <2>1, TimesNat
  <2> QED
    BY <1>1, <1>3, <1>5, <2>2
<1> QED
  BY <1>1, <1>2, <1>3, <1>4, <1>5, <1>6, <1>7 DEF g, bound

(* A loss of amount, at a price d against the position, is further from the *)
(* opening than where b of it is lost, but for a unit of collateral and of *)
(* the rate.                                                               *)
LEMMA InsolventIsFar ==
    ASSUME NEW o \in Nat, o > 0, NEW n \in Nat, n > 0, NEW P \in Nat, P > 0,
           NEW b \in Nat, NEW amount \in Nat, b <= amount, NEW d \in Int, NEW s \in Int,
           o * s < d * P + o,
           100 * (n * s) > P * (100 * amount) - P
    PROVE  (o * b) \div n <= d + 1 + o \div n + o \div P
<1> DEFINE whole == o * b
           dist == whole \div n
           u == o \div n
           r == o \div P
<1>1. whole \in Nat
  BY TimesNat
<1>2. /\ u \in Nat /\ o < n * u + n
      /\ r \in Nat /\ o < P * r + P
  BY FloorDivision, DivNat
<1>3. dist \in Nat /\ n * dist <= whole
  <2> HIDE DEF whole
  <2> QED
    BY <1>1, FloorDivision, DivNat
<1> HIDE DEF dist, u, r, whole
<1> SUFFICES ASSUME dist >= d + 2 + u + r PROVE FALSE
  BY <1>2, <1>3 DEF dist, u, r, whole
<1>4. 100 * (n * (P * d)) + 100 * (n * o) >= 100 * (P * (o * amount)) - o * P
  <2>1. n * (o * s) <= n * (d * P + o)
    <3>1. o * s \in Int /\ d * P + o \in Int /\ o * s <= d * P + o
      OBVIOUS
    <3> QED
      BY <3>1, TimesBoth
  <2>2. o * (P * (100 * amount) - P) <= o * (100 * (n * s))
    <3>1. /\ 100 * (n * s) \in Int /\ P * (100 * amount) - P \in Int
          /\ P * (100 * amount) - P <= 100 * (n * s)
      OBVIOUS
    <3> QED
      BY <3>1, TimesBoth
  <2>3. /\ n * (d * P + o) = n * (P * d) + n * o
        /\ o * (100 * (n * s)) = 100 * (n * (o * s))
        /\ o * (P * (100 * amount) - P) = 100 * (P * (o * amount)) - o * P
    OBVIOUS
  <2>4. /\ n * (P * d) \in Int /\ n * o \in Int /\ n * (o * s) \in Int
        /\ P * (o * amount) \in Int /\ o * P \in Int
    OBVIOUS
  <2> QED
    BY <2>1, <2>2, <2>3, <2>4
<1>5. n * (P * dist) <= P * (o * amount)
  <2>1. o * b <= o * amount
    BY TimesBoth
  <2>2. n * dist <= o * amount /\ n * dist \in Int /\ o * amount \in Int
    BY <1>1, <1>3, <2>1 DEF whole
  <2>3. P * (n * dist) <= P * (o * amount)
    BY <2>2, TimesBoth
  <2>4. P * (n * dist) = n * (P * dist)
    BY <1>3
  <2> QED
    BY <2>3, <2>4
<1>6. n * (P * dist) >= n * (P * d) + 2 * (n * P) + n * (P * u) + n * (P * r)
  <2>1. P * (d + 2 + u + r) <= P * dist /\ P * (d + 2 + u + r) \in Int /\ P * dist \in Int
    BY <1>2, <1>3, TimesBoth
  <2>2. n * (P * (d + 2 + u + r)) <= n * (P * dist)
    BY <2>1, TimesBoth
  <2>3. n * (P * (d + 2 + u + r)) = n * (P * d) + 2 * (n * P) + n * (P * u) + n * (P * r)
    BY <1>2
  <2> QED
    BY <2>2, <2>3
<1>7. n * o <= n * (P * r) + n * P
  <2>1. P * r + P \in Int /\ o <= P * r + P
    BY <1>2
  <2>2. n * o <= n * (P * r + P)
    BY <2>1, TimesBoth
  <2>3. n * (P * r + P) = n * (P * r) + n * P
    BY <1>2
  <2> QED
    BY <2>2, <2>3
<1>8. o * P <= n * (P * u) + n * P
  <2>1. n * u + n \in Int /\ o <= n * u + n
    BY <1>2
  <2>2. P * o <= P * (n * u + n)
    BY <2>1, TimesBoth
  <2>3. P * (n * u + n) = n * (P * u) + n * P /\ P * o = o * P
    BY <1>2
  <2> QED
    BY <2>2, <2>3
<1>9. /\ n * (P * d) \in Int /\ n * P \in Nat /\ n * P > 0 /\ n * (P * u) \in Nat
      /\ n * (P * r) \in Nat /\ n * o \in Nat /\ o * P \in Nat /\ P * (o * amount) \in Nat
      /\ n * (P * dist) \in Nat
  <2>1. /\ P * u \in Nat /\ P * r \in Nat /\ o * amount \in Nat /\ P * dist \in Nat
    BY <1>2, <1>3, TimesNat
  <2>2. n * P > 0
    OBVIOUS
  <2> QED
    BY <1>2, <2>1, <2>2, TimesNat
<1> DEFINE nPd == n * (P * d)
           nP == n * P
           nPu == n * (P * u)
           nPr == n * (P * r)
           nPdist == n * (P * dist)
           no == n * o
           oP == o * P
           PoK == P * (o * amount)
<1>10. /\ 100 * nPd + 100 * no >= 100 * PoK - oP /\ nPdist <= PoK
       /\ nPdist >= nPd + 2 * nP + nPu + nPr
       /\ no <= nPr + nP /\ oP <= nPu + nP
       /\ nPd \in Int /\ nP \in Nat /\ nP > 0 /\ nPu \in Nat /\ nPr \in Nat /\ no \in Nat
       /\ oP \in Nat /\ PoK \in Nat /\ nPdist \in Nat
  BY <1>4, <1>5, <1>6, <1>7, <1>8, <1>9
<1> HIDE DEF nPd, nP, nPu, nPr, nPdist, no, oP, PoK
<1> QED
  BY ONLY <1>10

(* At a price that far and a unit of collateral and a tick further, the     *)
(* amount is lost.                                                         *)
LEMMA FarIsInsolvent ==
    ASSUME NEW o \in Nat, o > 0, NEW n \in Nat, n > 0, NEW P \in Nat, P > 0,
           NEW b \in Nat, NEW amount \in Nat, amount <= b + 1, NEW d \in Int, NEW s \in Int,
           o * s >= d * P,
           d >= (o * b) \div n + 2 + o \div n
    PROVE  n * s >= P * amount
<1> DEFINE whole == o * b
           dist == whole \div n
           u == o \div n
<1>1. whole \in Nat
  BY TimesNat
<1>2. u \in Nat /\ o < n * u + n
  BY FloorDivision, DivNat
<1>3. dist \in Nat /\ whole < n * dist + n
  <2> HIDE DEF whole
  <2> QED
    BY <1>1, FloorDivision, DivNat
<1>4. d >= dist + 2 + u
  OBVIOUS
<1> HIDE DEF dist, u
<1>5. n * d >= o * amount
  <2>1. n * (dist + 2 + u) <= n * d
    BY <1>2, <1>3, <1>4, TimesBoth
  <2>2. n * (dist + 2 + u) = n * dist + n + n * u + n
    BY <1>2, <1>3
  <2>3. o * amount <= o * (b + 1)
    BY TimesBoth
  <2>4. o * (b + 1) = whole + o
    OBVIOUS
  <2>5. n * dist \in Int /\ n * u \in Int /\ n * d \in Int /\ o * amount \in Int
    BY <1>2, <1>3
  <2> HIDE DEF whole
  <2> QED
    BY <1>1, <1>2, <1>3, <2>1, <2>2, <2>3, <2>4, <2>5
<1>6. o * (P * amount) <= o * (n * s)
  <2>1. P * (o * amount) <= P * (n * d)
    BY <1>5, TimesBoth
  <2>2. n * (d * P) <= n * (o * s)
    BY TimesBoth
  <2>3. /\ P * (o * amount) = o * (P * amount) /\ P * (n * d) = n * (d * P)
        /\ n * (o * s) = o * (n * s)
    OBVIOUS
  <2>4. o * (P * amount) \in Int /\ n * (d * P) \in Int /\ o * (n * s) \in Int
    OBVIOUS
  <2> QED
    BY <2>1, <2>2, <2>3, <2>4
<1> QED
  BY <1>6, TimesBoth

(* Liquidatable, in ticks against the position; a liquidation price of zero *)
(* is none.                                                                *)
LEMMA LiquidatableIs ==
    ASSUME WalkTypeOK, NEW now \in Int
    PROVE  /\ LiquidatableAt(now) => Distance <= Adverse(now)
           /\ LiqPrice # 0 /\ Distance <= Adverse(now) => LiquidatableAt(now)
<1>1. /\ position.openPrice \in Nat /\ position.isLong \in BOOLEAN /\ Distance \in Nat
      /\ position.openPrice > 0
  BY PositionTypes, Bearables
<1>2. CASE position.isLong
  <2>1. LiqPrice = FloorAtZero(position.openPrice - Distance)
    BY <1>2, LiqPriceIs
  <2> QED
    BY <1>1, <1>2, <2>1 DEF LiquidatableAt, IsLiquidatable, Adverse, FloorAtZero
<1>3. CASE ~position.isLong
  <2>1. LiqPrice = FloorAtZero(position.openPrice + Distance)
    BY <1>3, LiqPriceIs
  <2> QED
    BY <1>1, <1>3, <2>1 DEF LiquidatableAt, IsLiquidatable, Adverse, FloorAtZero
<1> QED
  BY <1>1, <1>2, <1>3

(* A worse price is as many ticks further against the position. *)
LEMMA WorseIsFurther ==
    ASSUME WalkTypeOK, NEW now \in Int, NEW ticks \in Int
    PROVE  /\ Worse(now, ticks) \in Int /\ Adverse(now) \in Int
           /\ Adverse(Worse(now, ticks)) = Adverse(now) + ticks
<1>1. position.openPrice \in Nat /\ position.isLong \in BOOLEAN
  BY PositionTypes
<1> QED
  BY <1>1 DEF Worse, Adverse

(* The two roundings the properties allow for, in ticks. *)
LEMMA TicksAre ==
    ASSUME WalkTypeOK
    PROVE  /\ UnitInTicks = 1 + position.openPrice \div Notional /\ UnitInTicks \in Nat
           /\ RateInTicks = position.openPrice \div P_SCALE /\ RateInTicks \in Nat
<1>1. /\ position.openPrice \in Nat /\ P_SCALE \in Nat /\ P_SCALE > 0
      /\ Notional \in Nat /\ Notional > 0
  BY PositionTypes, Bearables
<1>2. position.openPrice \div Notional \in Nat /\ position.openPrice \div P_SCALE \in Nat
  BY <1>1, DivNat
<1> QED
  BY <1>2 DEF UnitInTicks, RateInTicks, Notional

(* An insolvent position has lost what the cutoff leaves, but for less than *)
(* a unit of the rate: gains are capped and so are losses, which can only  *)
(* hide a loss.                                                            *)
LEMMA InsolventHasLost ==
    ASSUME WalkTypeOK, NEW now \in Int, InsolventAt(now), NEW s \in Int,
           100 * (position.leverage * s) \in Int, Cap \in Nat,
           ProfitAt(now) = Clamp(-(100 * (position.leverage * s)), -Cap, Cap)
    PROVE  100 * (Notional * s)
             > P_SCALE * (100 * (position.collateral - Cutoff)) - P_SCALE
<1> DEFINE c == position.collateral
           lost == c - Cutoff
           rate == 100 * (position.leverage * s)
           p == ProfitAt(now)
           enough == P_SCALE * (100 * lost)
<1>1. /\ c \in Nat /\ c > 0 /\ position.leverage \in Nat /\ P_SCALE \in Nat /\ P_SCALE > 0
      /\ Cutoff \in Nat /\ lost \in Nat /\ lost > 0
  BY PositionTypes, Bearables
<1>2. rate \in Int /\ p = Clamp(-rate, -Cap, Cap)
  OBVIOUS
<1>3. c * rate = 100 * (Notional * s) /\ c * rate \in Int
  BY <1>1 DEF Notional
<1> HIDE DEF rate
<1>4. p \in Int /\ (p < 0 => -p <= rate)
  BY <1>2 DEF Clamp
<1>5. SettlementValue(c, p, 0, 0) <= c - lost
  BY <1>1 DEF InsolventAt, ValueAt, Cutoff
<1>6. c * p < P_SCALE - enough
  BY <1>1, <1>4, <1>5, LossReached
<1>7. enough \in Nat /\ P_SCALE <= enough
  <2>1. 100 * lost \in Nat /\ 1 <= 100 * lost
    BY <1>1
  <2>2. P_SCALE * 1 <= P_SCALE * (100 * lost) /\ P_SCALE * (100 * lost) \in Nat
    BY <1>1, <2>1, TimesBoth, TimesNat
  <2> QED
    BY <1>1, <2>2
<1> HIDE DEF p, lost, enough
<1>8. p < 0
  <2> SUFFICES ASSUME p >= 0 PROVE FALSE
    BY <1>4
  <2>1. c * p \in Nat
    BY <1>1, <1>4, TimesNat
  <2> QED
    BY <1>1, <1>6, <1>7, <2>1
<1>9. c * (-p) <= c * rate
  BY <1>1, <1>2, <1>4, <1>8, TimesBoth
<1>10. c * (-p) = -(c * p) /\ c * p \in Int
  BY <1>1, <1>4
<1> QED
  BY <1>1, <1>3, <1>6, <1>7, <1>9, <1>10 DEF enough, lost

(* NoInsolventEscapeTheorem: at every price, for every position and every   *)
(* scale, an insolvent position is out of the keepers' reach for no more   *)
(* ticks than a unit of collateral and one of the profit rate stand for.   *)
THEOREM NoInsolventEscapeTheorem == WalkSpec => []NoInsolventEscape
<1>1. ASSUME WalkTypeOK, InsolventAt(observed), LiqPrice # 0
      PROVE  LiquidatableAt(Worse(observed, UnitInTicks + RateInTicks))
  <2> DEFINE o == position.openPrice
             d == Adverse(observed)
             amount == position.collateral - Cutoff
             ticks == UnitInTicks + RateInTicks
  <2>1. /\ o \in Nat /\ o > 0 /\ observed \in Int /\ P_SCALE \in Nat /\ P_SCALE > 0
        /\ Notional \in Nat /\ Notional > 0 /\ Bearable \in Nat /\ amount \in Nat
        /\ Bearable <= amount /\ d \in Int /\ Cutoff \in Nat /\ Distance \in Nat
    <3>1. /\ o \in Nat /\ o > 0 /\ observed \in Int /\ P_SCALE \in Nat /\ P_SCALE > 0
          /\ position.isLong \in BOOLEAN /\ position.collateral \in Nat
      BY <1>1, PositionTypes
    <3>2. /\ Notional \in Nat /\ Notional > 0 /\ Bearable \in Nat /\ amount > 0
          /\ Bearable <= amount /\ Cutoff \in Nat /\ Distance \in Nat
      BY <1>1, Bearables
    <3>3. d \in Int
      BY <3>1 DEF Adverse
    <3> QED
      BY <3>1, <3>2, <3>3
  <2>2. PICK s \in Int :
              /\ o * s < d * P_SCALE + o
              /\ 100 * (position.leverage * s) \in Int
              /\ ProfitAt(observed) = Clamp(-(100 * (position.leverage * s)), -Cap, Cap)
    BY <1>1, <2>1, ProfitIs
  <2>3. Cap \in Nat
    BY <1>1, <2>1, ProfitIs
  <2>4. 100 * (Notional * s) > P_SCALE * (100 * amount) - P_SCALE
    BY <1>1, <2>1, <2>2, <2>3, InsolventHasLost
  <2> HIDE DEF o, d, amount
  <2>5. (o * Bearable) \div Notional <= d + 1 + o \div Notional + o \div P_SCALE
    BY <2>1, <2>2, <2>4, InsolventIsFar
  <2>6. Distance = (o * Bearable) \div Notional
    BY DEF Distance, o
  <2>7. /\ ticks = 1 + o \div Notional + o \div P_SCALE /\ ticks \in Nat
        /\ o \div Notional \in Nat /\ o \div P_SCALE \in Nat
    BY <1>1, <2>1, TicksAre, DivNat DEF o
  <2> HIDE DEF ticks
  <2>8. Distance <= d + ticks
    BY <2>1, <2>5, <2>6, <2>7
  <2>9. Worse(observed, ticks) \in Int /\ Adverse(Worse(observed, ticks)) = d + ticks
    <3>1. ticks \in Int /\ observed \in Int
      BY <2>1, <2>7
    <3> QED
      BY <1>1, <3>1, WorseIsFurther DEF d
  <2>10. LiquidatableAt(Worse(observed, ticks))
    BY <1>1, <2>8, <2>9, LiquidatableIs
  <2> QED
    BY <2>10 DEF ticks
<1>2. WalkTypeOK => NoInsolventEscape
  BY <1>1 DEF NoInsolventEscape
<1> QED
  BY <1>2, WalkTyped, PTL

(* The value of a position is a number. *)
LEMMA ValueInt ==
    ASSUME NEW collateral \in Nat, NEW profit \in Int
    PROVE  SettlementValue(collateral, profit, 0, 0) \in Int
BY 1 \in Nat, 1 > 0, LossReached

(* At or beneath the cutoff the trader is paid nothing. *)
LEMMA InsolventPaysNothing ==
    ASSUME NEW now, InsolventAt(now)
    PROVE  ClosedAt(now).payout = 0
BY DEF InsolventAt, ValueAt, ClosedAt, SettlementPayout

(* LiquidationTakesNothingTheorem: where a keeper may liquidate, a close a  *)
(* unit of collateral and a tick further on pays nothing, for every        *)
(* position whose losses are not capped above the cutoff.                  *)
THEOREM LiquidationTakesNothingTheorem == WalkSpec => []LiquidationTakesNothing
<1>1. ASSUME WalkTypeOK, LiquidatableAt(observed), ~CapKeepsSolvent
      PROVE  InsolventAt(Worse(observed, UnitInTicks + 1))
  <2> DEFINE o == position.openPrice
             c == position.collateral
             amount == c - Cutoff
             now == Worse(observed, UnitInTicks + 1)
             d == Adverse(now)
             p == ProfitAt(now)
  <2>1. /\ o \in Nat /\ o > 0 /\ observed \in Int /\ P_SCALE \in Nat /\ P_SCALE > 0
        /\ c \in Nat /\ position.leverage \in Nat
    BY <1>1, PositionTypes
  <2>2. /\ Notional \in Nat /\ Notional > 0 /\ Bearable \in Nat /\ amount > 0
        /\ amount <= Bearable + 1 /\ Cutoff \in Nat /\ Distance \in Nat
    BY <1>1, Bearables
  <2>3. now \in Int /\ d \in Int /\ d >= Distance + 2 + o \div Notional
    <3>1. /\ UnitInTicks + 1 = 2 + o \div Notional /\ UnitInTicks + 1 \in Int
          /\ o \div Notional \in Nat
      BY <1>1, <2>1, <2>2, TicksAre, DivNat
    <3>2. /\ Adverse(observed) \in Int /\ now \in Int
          /\ d = Adverse(observed) + (UnitInTicks + 1)
      BY <1>1, <2>1, <3>1, WorseIsFurther
    <3>3. Distance <= Adverse(observed)
      BY <1>1, <2>1, LiquidatableIs
    <3> QED
      BY <2>2, <3>1, <3>2, <3>3
  <2> HIDE DEF now
  <2>4. PICK s \in Int :
              /\ o * s >= d * P_SCALE
              /\ 100 * (position.leverage * s) \in Int
              /\ p = Clamp(-(100 * (position.leverage * s)), -Cap, Cap)
    BY <1>1, <2>3, ProfitIs
  <2>5. Cap \in Nat
    BY <1>1, <2>3, ProfitIs
  <2>6. Notional * s >= P_SCALE * amount
    <3>1. d >= (o * Bearable) \div Notional + 2 + o \div Notional
      BY <2>3 DEF Distance
    <3>2. amount \in Nat
      BY <2>1, <2>2
    <3> HIDE DEF o, d, amount
    <3> QED
      BY <2>1, <2>2, <2>3, <2>4, <3>1, <3>2, FarIsInsolvent
  <2> DEFINE rate == 100 * (position.leverage * s)
  <2>7. c * rate = 100 * (Notional * s) /\ c * rate \in Int /\ rate \in Int
    BY <2>1 DEF Notional
  <2> HIDE DEF d, rate
  <2>8. CASE p = -Cap
    <3>1. SettlementValue(c, -Cap, 0, 0) \in Int /\ Cutoff \in Int
      BY <2>1, <2>2, <2>5, ValueInt
    <3>2. SettlementValue(c, -Cap, 0, 0) <= Cutoff
      BY <1>1, <3>1 DEF CapKeepsSolvent, Cap, Cutoff
    <3> QED
      BY <2>8, <3>2 DEF InsolventAt, ValueAt, Cutoff, now
  <2>9. CASE p # -Cap
    <3>1. p \in Int /\ p <= -rate
      BY <2>4, <2>5, <2>7, <2>9 DEF Clamp, rate
    <3> HIDE DEF p
    <3>2. c * p <= -(P_SCALE * (100 * amount))
      <4>1. c * p <= c * (-rate) /\ c * (-rate) = -(c * rate) /\ c * p \in Int
        <5> HIDE DEF c
        <5> QED
          BY <2>1, <2>7, <3>1, TimesBoth
      <4>2. P_SCALE * (100 * amount) = 100 * (P_SCALE * amount) /\ P_SCALE * amount \in Int
        BY <2>1, <2>2
      <4>3. Notional * s \in Int
        BY <2>2
      <4> HIDE DEF c, amount
      <4> QED
        BY <2>6, <2>7, <4>1, <4>2, <4>3
    <3>3. SettlementValue(c, p, 0, 0) <= c - amount
      <4>1. amount \in Nat
        BY <2>1, <2>2
      <4> HIDE DEF c, amount
      <4> QED
        BY <2>1, <2>2, <3>1, <3>2, <4>1, LossReached
    <3>4. c - amount = Cutoff
      BY <2>1, <2>2
    <3> QED
      BY <3>3, <3>4 DEF InsolventAt, ValueAt, Cutoff, now, p
  <2> QED
    BY <2>8, <2>9 DEF now
<1>2. WalkTypeOK => LiquidationTakesNothing
  BY <1>1, InsolventPaysNothing DEF LiquidationTakesNothing
<1> QED
  BY <1>2, WalkTyped, PTL

-----------------------------------------------------------------------------
(* The bot's liquidation price. *)

(* How far the bot lets the price go: one division where the contracts have *)
(* two, from what the cutoff leaves.                                       *)
BotDistance == ((position.collateral - Cutoff) * position.openPrice) \div Notional

(* The bot's distance is the contracts' or longer, by a unit of collateral  *)
(* at most.                                                                *)
LEMMA BotDistanceIs ==
    ASSUME WalkTypeOK
    PROVE  /\ BotDistance \in Nat /\ Distance <= BotDistance
           /\ BotDistance <= Distance + UnitInTicks
           /\ CalculateLiquidationPrice(Watching)
                = IF position.isLong THEN position.openPrice - BotDistance
                                     ELSE position.openPrice + BotDistance
<1> DEFINE o == position.openPrice
           c == position.collateral
           amount == c - Cutoff
           whole == o * Bearable
           more == amount * o
<1>1. /\ o \in Nat /\ c \in Nat /\ position.liqThresholdP \in Nat
      /\ position.liqThresholdP <= 100
  BY PositionTypes
<1>2. /\ Notional \in Nat /\ Notional > 0 /\ Bearable \in Nat /\ amount > 0
      /\ Bearable <= amount /\ amount <= Bearable + 1 /\ Cutoff \in Nat
      /\ Cutoff = (c * (100 - position.liqThresholdP)) \div 100
  BY Bearables
<1>3. more \in Nat /\ whole \in Nat /\ whole <= more /\ more <= whole + o
  <2>1. amount \in Nat
    BY <1>1, <1>2
  <2>2. o * Bearable <= o * amount /\ o * amount <= o * (Bearable + 1)
    <3> HIDE DEF amount, o
    <3> QED
      BY <1>1, <1>2, <2>1, TimesBoth
  <2>3. o * (Bearable + 1) = whole + o /\ o * amount = more
    <3> HIDE DEF amount, o
    <3> QED
      BY <1>1, <1>2, <2>1
  <2>4. o * amount \in Nat /\ whole \in Nat
    BY <1>1, <1>2, <2>1, TimesNat
  <2> QED
    BY <2>2, <2>3, <2>4
<1>4. BotDistance = more \div Notional /\ Distance = whole \div Notional
  BY DEF BotDistance, Distance
<1>5. CalculateLiquidationPrice(Watching)
        = IF position.isLong THEN o - BotDistance ELSE o + BotDistance
  <2>1. 100 - position.liqThresholdP \in Nat /\ c * (100 - position.liqThresholdP) \in Nat
    BY <1>1, TimesNat
  <2>2. DivTrunc(c * (100 - position.liqThresholdP), 100) = Cutoff
    BY <1>2, <2>1 DEF DivTrunc
  <2>3. DivTrunc(more, Notional) = BotDistance
    BY <1>3, <1>4 DEF DivTrunc
  <2> QED
    BY <2>2, <2>3 DEF CalculateLiquidationPrice, Watching, Notional
<1> HIDE DEF more, whole
<1>6. Distance <= BotDistance /\ BotDistance \in Nat /\ Distance \in Nat
  BY <1>2, <1>3, <1>4, DivMonotone, DivNat
<1>7. BotDistance <= Distance + UnitInTicks
  <2>1. more \div Notional <= (whole + o) \div Notional
    BY <1>1, <1>2, <1>3, DivMonotone
  <2>2. (whole + o) \div Notional <= (whole \div Notional) + (o \div Notional) + 1
    <3>1. whole \in Int /\ o \in Int /\ Notional \in Int
      BY <1>1, <1>2, <1>3
    <3> HIDE DEF o
    <3> QED
      BY <1>2, <3>1, DivSplit
  <2>3. UnitInTicks = 1 + o \div Notional /\ o \div Notional \in Nat
    BY <1>1, <1>2, TicksAre, DivNat
  <2>4. (whole + o) \div Notional \in Int
    BY <1>1, <1>2, <1>3
  <2> QED
    BY <1>4, <1>6, <2>1, <2>2, <2>3, <2>4
<1> QED
  BY <1>5, <1>6, <1>7

(* FoundLiquidatable, in ticks against the position. *)
LEMMA FoundIs ==
    ASSUME WalkTypeOK, NEW now \in Int
    PROVE  FoundLiquidatable(Watching, now) <=> BotDistance <= Adverse(now)
<1>1. position.openPrice \in Nat /\ position.isLong \in BOOLEAN /\ BotDistance \in Nat
  BY PositionTypes, BotDistanceIs
<1>2. Watching.isLong = position.isLong
  BY DEF Watching
<1> QED
  BY <1>1, <1>2, BotDistanceIs DEF FoundLiquidatable, Adverse

(* BotNeverEarlyTheorem: the contracts never refuse, for its price, a       *)
(* liquidation that the bot's own formula calls for at that price.         *)
THEOREM BotNeverEarlyTheorem == WalkSpec => []BotNeverEarly
<1>1. ASSUME WalkTypeOK, observed > 0, FoundLiquidatable(Watching, observed)
      PROVE  LiquidatableAt(observed)
  <2>1. /\ position.openPrice \in Nat /\ position.openPrice > 0 /\ observed \in Nat
        /\ position.isLong \in BOOLEAN /\ Distance \in Nat
    BY <1>1, PositionTypes, Bearables
  <2>2. Distance <= Adverse(observed)
    <3>1. BotDistance <= Adverse(observed) /\ BotDistance \in Nat /\ Distance <= BotDistance
      BY <1>1, <2>1, FoundIs, BotDistanceIs
    <3>2. Adverse(observed) \in Int
      BY <2>1 DEF Adverse
    <3> QED
      BY <2>1, <3>1, <3>2
  <2>3. LiqPrice # 0
    <3>1. CASE position.isLong
      <4>1. LiqPrice = FloorAtZero(position.openPrice - Distance)
        BY <1>1, <3>1, LiqPriceIs
      <4> QED
        BY <1>1, <2>1, <2>2, <3>1, <4>1 DEF Adverse, FloorAtZero
    <3>2. CASE ~position.isLong
      <4>1. LiqPrice = FloorAtZero(position.openPrice + Distance)
        BY <1>1, <3>2, LiqPriceIs
      <4> QED
        BY <2>1, <4>1 DEF FloorAtZero
    <3> QED
      BY <2>1, <3>1, <3>2
  <2> QED
    BY <1>1, <2>1, <2>2, <2>3, LiquidatableIs
<1>2. WalkTypeOK => BotNeverEarly
  BY <1>1 DEF BotNeverEarly
<1> QED
  BY <1>2, WalkTyped, PTL

(* BotSoonAfterTheorem: the bot is never further behind the contracts than  *)
(* what a unit of collateral stands for.                                   *)
THEOREM BotSoonAfterTheorem == WalkSpec => []BotSoonAfter
<1>1. ASSUME WalkTypeOK, LiquidatableAt(observed)
      PROVE  FoundLiquidatable(Watching, Worse(observed, UnitInTicks))
  <2>1. observed \in Int /\ UnitInTicks \in Int
    BY <1>1, PositionTypes, TicksAre
  <2>2. /\ Worse(observed, UnitInTicks) \in Int /\ Adverse(observed) \in Int
        /\ Adverse(Worse(observed, UnitInTicks)) = Adverse(observed) + UnitInTicks
    BY <1>1, <2>1, WorseIsFurther
  <2>3. /\ Distance <= Adverse(observed) /\ Distance \in Nat /\ BotDistance \in Nat
        /\ BotDistance <= Distance + UnitInTicks
    BY <1>1, <2>1, LiquidatableIs, Bearables, BotDistanceIs
  <2>4. BotDistance <= Adverse(Worse(observed, UnitInTicks))
    BY <2>1, <2>2, <2>3
  <2> QED
    BY <1>1, <2>2, <2>4, FoundIs
<1>2. WalkTypeOK => BotSoonAfter
  BY <1>1 DEF BotSoonAfter
<1> QED
  BY <1>2, WalkTyped, PTL

-----------------------------------------------------------------------------
(* What is shown, and what is paid. *)

(* Truncating where the other rounds down first is at most one unit above.  *)
LEMMA TruncatedAboveFloored ==
    ASSUME NEW g \in Int, NEW d \in Nat, d > 0
    PROVE  /\ DivTrunc(g \div d, 100) \in Int /\ DivTrunc(DivTrunc(g, d), 100) \in Int
           /\ DivTrunc(g \div d, 100) <= DivTrunc(DivTrunc(g, d), 100)
           /\ DivTrunc(DivTrunc(g, d), 100) <= DivTrunc(g \div d, 100) + 1
<1> DEFINE f == g \div d
           t == DivTrunc(g, d)
<1>1. f \in Int /\ d * f <= g /\ g < d * f + d
  BY FloorDivision
<1>2. t \in Int /\ f <= t /\ t <= f + 1
  <2>1. CASE g >= 0
    BY <1>1, <2>1 DEF DivTrunc
  <2>2. CASE g < 0
    <3> DEFINE up == (-g) \div d
    <3>1. up \in Int /\ d * up <= -g /\ -g < d * up + d
      BY FloorDivision
    <3>2. t = -up
      BY <2>2 DEF DivTrunc
    <3> HIDE DEF f, t, up
    <3>3. d * f <= d * (-up) /\ d * (-up) <= d * (f + 1)
      <4>1. d * (-up) = -(d * up) /\ d * (f + 1) = d * f + d /\ d * up \in Int /\ d * f \in Int
        BY <1>1, <3>1
      <4>2. d * f <= -(d * up)
        BY <1>1, <3>1, <4>1
      <4>3. -(d * up) < d * f + d + d
        BY <1>1, <3>1, <4>1
      <4>4. d * (-up) < d * (f + 2)
        BY <1>1, <4>1, <4>3
      <4>5. -up <= f + 1
        <5> SUFFICES ASSUME f + 2 <= -up PROVE FALSE
          BY <1>1, <3>1
        <5>1. d * (f + 2) <= d * (-up) /\ d * (f + 2) \in Int /\ d * (-up) \in Int
          BY <1>1, <3>1, TimesBoth
        <5> QED
          BY <4>4, <5>1
      <4>6. d * (-up) <= d * (f + 1)
        BY <1>1, <3>1, <4>5, TimesBoth
      <4> QED
        BY <4>1, <4>2, <4>6
    <3>4. f <= -up /\ -up <= f + 1
      BY <1>1, <3>1, <3>3, TimesBoth
    <3> QED
      BY <3>1, <3>2, <3>4
  <2> QED
    BY <2>1, <2>2
<1> HIDE DEF f, t
<1>3. /\ DivTrunc(f, 100) \in Int /\ DivTrunc(t, 100) \in Int
      /\ DivTrunc(f, 100) <= DivTrunc(t, 100) /\ DivTrunc(t, 100) <= DivTrunc(f, 100) + 1
  BY <1>1, <1>2 DEF DivTrunc
<1> QED
  BY <1>3 DEF f, t

(* The close fee is a natural number. *)
LEMMA CloseFeeNat ==
    ASSUME WalkTypeOK
    PROVE  FeeOn(position.collateral * position.leverage, position.closeFeeP) \in Nat
<1>1. /\ position.collateral \in Nat /\ position.leverage \in Nat
      /\ position.closeFeeP \in Nat /\ P_SCALE \in Nat /\ P_SCALE > 0
  BY PositionTypes
<1>2. (position.collateral * position.leverage) * position.closeFeeP \in Nat
  BY <1>1, TimesNat
<1> QED
  BY <1>1, <1>2, DivNat DEF FeeOn, MulDivFloor

(* The profit is a number. *)
LEMMA ProfitInt ==
    ASSUME WalkTypeOK, NEW now \in Int
    PROVE  ProfitAt(now) \in Int
<1>1. PICK s \in Int : /\ 100 * (position.leverage * s) \in Int
                       /\ ProfitAt(now) = Clamp(-(100 * (position.leverage * s)), -Cap, Cap)
  BY ProfitIs
<1>2. Cap \in Nat
  BY ProfitIs
<1> QED
  BY <1>1, <1>2 DEF Clamp

(* ShownPnlIsPaidTheorem: the profit the trader is shown is the one that is *)
(* paid, or a unit more, whatever the position and the price.              *)
THEOREM ShownPnlIsPaidTheorem == WalkSpec => []ShownPnlIsPaid
<1>1. ASSUME WalkTypeOK, ClosedAt(observed).payout > 0
      PROVE  LET closed == ClosedAt(observed)
                 shown == ShownPnl(position.collateral, ProfitAt(observed))
                 above == closed.payout + closed.fee - position.collateral
             IN above <= shown /\ shown <= above + 1
  <2> DEFINE c == position.collateral
             p == ProfitAt(observed)
             g == c * p
             fee == FeeOn(c * position.leverage, position.closeFeeP)
             value == SettlementValue(c, p, 0, 0)
             closed == ClosedAt(observed)
  <2>1. /\ c \in Nat /\ p \in Int /\ fee \in Nat /\ g \in Int /\ P_SCALE \in Nat
        /\ P_SCALE > 0
    <3>1. c \in Nat /\ observed \in Int /\ P_SCALE \in Nat /\ P_SCALE > 0
      BY <1>1, PositionTypes
    <3>2. p \in Int /\ fee \in Nat
      BY <1>1, <3>1, ProfitInt, CloseFeeNat
    <3> QED
      BY <3>1, <3>2
  <2>2. value = c + DivTrunc(g \div P_SCALE, 100) - 0 - 0
    BY DEF SettlementValue, MulDivFloor
  <2>3. ShownPnl(c, p) = DivTrunc(DivTrunc(g, P_SCALE), 100)
    BY DEF ShownPnl
  <2>4. closed = [payout |-> FloorAtZero(value - fee), fee |-> fee]
    <3>1. \/ closed = [payout |-> FloorAtZero(value - fee), fee |-> fee]
          \/ closed = [payout |-> 0, fee |-> 0]
      BY DEF ClosedAt, SettlementPayout
    <3> QED
      BY <1>1, <3>1
  <2>5. /\ DivTrunc(g \div P_SCALE, 100) \in Int /\ DivTrunc(DivTrunc(g, P_SCALE), 100) \in Int
        /\ DivTrunc(g \div P_SCALE, 100) <= DivTrunc(DivTrunc(g, P_SCALE), 100)
        /\ DivTrunc(DivTrunc(g, P_SCALE), 100) <= DivTrunc(g \div P_SCALE, 100) + 1
    <3> HIDE DEF g
    <3> QED
      BY <2>1, TruncatedAboveFloored
  <2>6. closed.payout = FloorAtZero(value - fee) /\ closed.fee = fee
    BY <2>4
  <2> HIDE DEF closed, value, fee, g, c, p
  <2>7. closed.payout > 0
    BY <1>1 DEF closed
  <2>8. closed.payout + closed.fee - c = DivTrunc(g \div P_SCALE, 100)
    BY <2>1, <2>2, <2>5, <2>6, <2>7 DEF FloorAtZero
  <2> QED
    BY <2>3, <2>5, <2>8 DEF closed, c, p
<1>2. WalkTypeOK => ShownPnlIsPaid
  BY <1>1 DEF ShownPnlIsPaid
<1> QED
  BY <1>2, WalkTyped, PTL

-----------------------------------------------------------------------------
(* The payout and the price. *)

(* The profit does not rise where the price is worse. *)
LEMMA ProfitFalls ==
    ASSUME WalkTypeOK, NEW now \in Int, NEW later \in Int, Adverse(now) <= Adverse(later)
    PROVE  ProfitAt(later) <= ProfitAt(now)
<1> DEFINE o == position.openPrice
           Diff(price) == IF position.isLong THEN price - o ELSE o - price
           Step(price) == (Diff(price) * P_SCALE) \div o
           Rate(price) == Step(price) * position.leverage * 100
<1>1. /\ o \in Nat /\ o > 0 /\ position.leverage \in Nat /\ P_SCALE \in Nat
      /\ position.isLong \in BOOLEAN
  BY PositionTypes
<1>2. Cap \in Nat
  BY ProfitIs
<1>3. Diff(now) \in Int /\ Diff(later) \in Int /\ Diff(later) <= Diff(now)
  BY <1>1 DEF Adverse
<1>4. /\ ProfitAt(now) = Clamp(Rate(now), -Cap, Cap)
      /\ ProfitAt(later) = Clamp(Rate(later), -Cap, Cap)
  BY DEF ProfitAt, CurrentPercentProfit, MulDivFloor, Cap
<1> HIDE DEF Diff
<1>5. /\ Diff(now) * P_SCALE \in Int /\ Diff(later) * P_SCALE \in Int
      /\ Diff(later) * P_SCALE <= Diff(now) * P_SCALE
  <2>1. P_SCALE * Diff(later) <= P_SCALE * Diff(now)
    BY <1>1, <1>3, TimesBoth
  <2>2. /\ P_SCALE * Diff(later) = Diff(later) * P_SCALE
        /\ P_SCALE * Diff(now) = Diff(now) * P_SCALE
    BY <1>1, <1>3
  <2>3. Diff(now) * P_SCALE \in Int /\ Diff(later) * P_SCALE \in Int
    BY <1>1, <1>3
  <2> QED
    BY <2>1, <2>2, <2>3
<1>6. Step(now) \in Int /\ Step(later) \in Int /\ Step(later) <= Step(now)
  BY <1>1, <1>5, DivMonotone, FloorDivision
<1> HIDE DEF Step
<1>7. Rate(now) \in Int /\ Rate(later) \in Int /\ Rate(later) <= Rate(now)
  <2>1. position.leverage * Step(later) <= position.leverage * Step(now)
    BY <1>1, <1>6, TimesBoth
  <2>2. /\ position.leverage * Step(later) = Step(later) * position.leverage
        /\ position.leverage * Step(now) = Step(now) * position.leverage
        /\ position.leverage * Step(later) \in Int /\ position.leverage * Step(now) \in Int
    BY <1>1, <1>6
  <2> QED
    BY <2>1, <2>2
<1> HIDE DEF Rate
<1> QED
  BY <1>2, <1>4, <1>7 DEF Clamp

(* Nor does the value where the profit does not. *)
LEMMA ValueFalls ==
    ASSUME NEW collateral \in Nat, NEW less \in Int, NEW more \in Int, less <= more
    PROVE  SettlementValue(collateral, less, 0, 0) <= SettlementValue(collateral, more, 0, 0)
<1> DEFINE f == (collateral * less) \div P_SCALE
           g == (collateral * more) \div P_SCALE
<1>1. /\ collateral * less \in Int /\ collateral * more \in Int
      /\ collateral * less <= collateral * more /\ P_SCALE \in Int /\ P_SCALE > 0
  BY TimesBoth, ScaleAssumption
<1>2. f \in Int /\ g \in Int /\ f <= g
  BY <1>1, DivMonotone, FloorDivision
<1>3. /\ SettlementValue(collateral, less, 0, 0) = collateral + DivTrunc(f, 100) - 0 - 0
      /\ SettlementValue(collateral, more, 0, 0) = collateral + DivTrunc(g, 100) - 0 - 0
  BY DEF SettlementValue, MulDivFloor
<1> HIDE DEF f, g
<1>4. DivTrunc(f, 100) <= DivTrunc(g, 100) /\ DivTrunc(f, 100) \in Int /\ DivTrunc(g, 100) \in Int
  BY <1>2 DEF DivTrunc
<1> QED
  BY <1>3, <1>4

(* PayoutFollowsPriceTheorem: no step of the price against the position     *)
(* makes it pay more, across the cap, the cutoff and the waived fee.       *)
THEOREM PayoutFollowsPriceTheorem == WalkSpec => PayoutFollowsPrice
<1>1. ASSUME WalkTypeOK
      PROVE  ClosedAt(Worse(observed, 1)).payout <= ClosedAt(observed).payout
  <2> DEFINE c == position.collateral
             fee == FeeOn(c * position.leverage, position.closeFeeP)
             cut == InsolvencyCutoff(c, position.liqThresholdP)
             worse == Worse(observed, 1)
             Value(price) == SettlementValue(c, ProfitAt(price), 0, 0)
  <2>1. c \in Nat /\ observed \in Int /\ worse \in Int /\ fee \in Nat /\ cut \in Int
    <3>1. c \in Nat /\ observed \in Int
      BY <1>1, PositionTypes
    <3>2. worse \in Int /\ fee \in Nat /\ cut \in Int
      BY <1>1, <3>1, WorseIsFurther, CloseFeeNat, Bearables, 1 \in Int DEF Cutoff
    <3> QED
      BY <3>1, <3>2
  <2>2. Adverse(observed) <= Adverse(worse)
    <3>1. Adverse(observed) \in Int /\ Adverse(worse) = Adverse(observed) + 1
      BY <1>1, <2>1, WorseIsFurther, 1 \in Int
    <3> QED
      BY <3>1
  <2>3. /\ ClosedAt(worse).payout = IF Value(worse) <= cut THEN 0
                                                        ELSE FloorAtZero(Value(worse) - fee)
        /\ ClosedAt(observed).payout = IF Value(observed) <= cut THEN 0
                                                        ELSE FloorAtZero(Value(observed) - fee)
    BY DEF ClosedAt, SettlementPayout
  <2> HIDE DEF c, fee, cut, worse
  <2>4. ProfitAt(worse) \in Int /\ ProfitAt(observed) \in Int
        /\ ProfitAt(worse) <= ProfitAt(observed)
    BY <1>1, <2>1, <2>2, ProfitInt, ProfitFalls
  <2>5. Value(worse) \in Int /\ Value(observed) \in Int /\ Value(worse) <= Value(observed)
    BY <2>1, <2>4, ValueInt, ValueFalls
  <2> HIDE DEF Value
  <2> QED
    BY <2>1, <2>3, <2>5 DEF FloorAtZero, worse
<1>2. WalkTypeOK /\ [Tick]_walkVars =>
        [Worse(observed, 1) = observed' =>
            ClosedAt(observed').payout <= ClosedAt(observed).payout]_walkVars
  BY <1>1
<1> QED
  BY <1>2, WalkTyped, PTL DEF WalkSpec, PayoutFollowsPrice

-----------------------------------------------------------------------------
(* The widths. *)

(* The walk stays within its bound. *)
LEMMA WalkBounded == WalkSpec => [](WalkTypeOK /\ observed <= MaxPrice)
<1>1. WalkInit => WalkTypeOK /\ observed <= MaxPrice
  BY PriceWalkAssumption DEF WalkInit, WalkTypeOK, Position
<1>2. WalkTypeOK /\ observed <= MaxPrice /\ [Tick]_walkVars
        => (WalkTypeOK /\ observed <= MaxPrice)'
  BY PriceWalkAssumption DEF WalkTypeOK, Tick, walkVars
<1> QED
  BY <1>1, <1>2, PTL DEF WalkSpec

(* What the magnitudes of the inputs say of one position. *)
LEMMA PositionMagnitudes ==
    ASSUME WalkTypeOK
    PROVE  /\ MaxPrice \in Nat /\ position.openPrice <= MaxPrice /\ I128_MAX \in Nat
           /\ MaxPrice * P_SCALE * (position.leverage * 100) <= I128_MAX
           /\ MaxPrice * position.collateral <= I128_MAX
           /\ position.collateral * 100 <= I128_MAX
           /\ position.collateral * (position.maxGainP * P_SCALE + 1) <= I128_MAX
           /\ position.collateral * position.leverage * (position.closeFeeP + 1) <= I128_MAX
<1>1. /\ position.openPrice \in OpenPrice
      /\ position.collateral \in Collateral /\ position.leverage \in Leverage
      /\ position.maxGainP \in MaxGainP /\ position.closeFeeP \in CloseFee
  BY DEF WalkTypeOK, Position
<1>2. position.openPrice \in 1 .. MaxPrice /\ MaxPrice \in Nat
  BY <1>1, PriceWalkAssumption
<1> QED
  BY <1>1, <1>2, WidthAssumption DEF MagnitudesFit

(* A number within a natural one that fits, fits. *)
LEMMA WithinFits ==
    ASSUME NEW x \in Int, NEW bound \in Int, bound <= I128_MAX, I128_MAX \in Nat,
           -bound <= x, x <= bound
    PROVE  Fits(x)
BY DEF Fits

(* The price distance, its rate, the levered rate and the cap on it fit.    *)
LEMMA ProfitFits ==
    ASSUME WalkTypeOK, observed <= MaxPrice
    PROVE  \A x \in ProfitResults(observed) : Fits(x)
<1> DEFINE o == position.openPrice
           diff == IF position.isLong THEN observed - o ELSE o - observed
           product == diff * P_SCALE
           step == product \div o
           reach == MaxPrice * P_SCALE
           levered == position.leverage * 100
           cap == position.maxGainP * P_SCALE
<1>1. /\ o \in Nat /\ o > 0 /\ position.leverage \in Nat /\ position.leverage > 0
      /\ P_SCALE \in Nat /\ P_SCALE > 0 /\ observed \in Nat /\ position.isLong \in BOOLEAN
      /\ position.maxGainP \in Nat /\ position.collateral \in Nat /\ position.collateral > 0
  BY PositionTypes
<1>2. /\ MaxPrice \in Nat /\ o <= MaxPrice /\ I128_MAX \in Nat
  BY PositionMagnitudes
<1>3. diff \in Int /\ -MaxPrice <= diff /\ diff <= MaxPrice
  BY <1>1, <1>2
<1> HIDE DEF diff
<1>4. product \in Int /\ reach \in Nat /\ -reach <= product /\ product <= reach
  BY <1>1, <1>2, <1>3, MultipliedWithin
<1>5. MaxPrice <= reach
  <2>1. MaxPrice * P_SCALE >= MaxPrice * 1
    BY <1>1, <1>2, TimesMonotone, 1 \in Nat, 1 <= P_SCALE
  <2> QED
    BY <1>2, <2>1
<1>6. step \in Int /\ -reach <= step /\ step <= reach
  <2> HIDE DEF product, reach
  <2> QED
    BY <1>1, <1>4, DividedWithin
<1>7. levered \in Nat /\ position.leverage <= levered /\ 1 <= levered
  BY <1>1
<1>8. cap \in Nat /\ cap <= I128_MAX
  <2>1. cap \in Nat /\ position.collateral * (cap + 1) <= I128_MAX
    BY <1>1, TimesNat, PositionMagnitudes
  <2> HIDE DEF cap
  <2>2. (cap + 1) * position.collateral >= (cap + 1) * 1
    BY <1>1, <2>1, TimesMonotone, cap + 1 \in Nat, 1 \in Nat, 1 <= position.collateral
  <2>3. /\ (cap + 1) * position.collateral = position.collateral * (cap + 1)
        /\ position.collateral * (cap + 1) \in Int
    BY <1>1, <2>1
  <2> QED
    BY <1>2, <2>1, <2>2, <2>3
<1>9. reach * levered <= I128_MAX
  BY PositionMagnitudes
<1>10. ProfitResults(observed)
        = {diff, product, step * position.leverage, step * position.leverage * 100, cap}
  BY DEF ProfitResults, MulDivFloor, diff
<1> HIDE DEF product, step, reach, levered, cap
<1>11. /\ step * levered \in Int /\ reach * levered \in Nat
       /\ -(reach * levered) <= step * levered /\ step * levered <= reach * levered
  BY <1>4, <1>6, <1>7, MultipliedWithin
<1>12. /\ step * position.leverage \in Int
       /\ -(reach * levered) <= step * position.leverage
       /\ step * position.leverage <= reach * levered
  BY <1>1, <1>4, <1>6, <1>7, MultipliedWithin
<1>13. step * position.leverage * 100 = step * levered
  BY <1>1, <1>6 DEF levered
<1>14. reach <= reach * levered
  <2>1. reach * levered >= reach * 1
    BY <1>4, <1>7, TimesMonotone, 1 \in Nat
  <2> QED
    BY <1>4, <2>1
<1> DEFINE span == reach * levered
           rate == step * position.leverage
           raw == step * levered
<1>15. /\ span \in Int /\ span <= I128_MAX /\ I128_MAX \in Nat
       /\ rate \in Int /\ -span <= rate /\ rate <= span
       /\ raw \in Int /\ -span <= raw /\ raw <= span
       /\ reach <= span
  BY <1>2, <1>11, <1>12, <1>14, <1>9
<1>16. step * position.leverage * 100 = raw
  BY <1>13
<1> HIDE DEF span, rate, raw
<1>17. Fits(rate) /\ Fits(raw)
  BY <1>15, WithinFits
<1>18. -span <= diff /\ diff <= span /\ -span <= product /\ product <= span
  BY <1>2, <1>3, <1>4, <1>5, <1>15
<1>19. Fits(diff) /\ Fits(product)
  BY <1>3, <1>4, <1>15, <1>18, WithinFits
<1>20. Fits(cap)
  <2>1. -I128_MAX <= cap
    BY <1>2, <1>8
  <2> QED
    BY <1>2, <1>8, <2>1, WithinFits, I128_MAX \in Int, I128_MAX <= I128_MAX
<1>21. ProfitResults(observed) = {diff, product, rate, raw, cap}
  BY <1>10, <1>16 DEF rate
<1> QED
  BY <1>17, <1>19, <1>20, <1>21

(* Twice the greatest price fits: so does a price and a distance from it.   *)
LEMMA PricesFit ==
    ASSUME WalkTypeOK
    PROVE  2 * MaxPrice <= I128_MAX
<1> DEFINE reach == MaxPrice * P_SCALE
           levered == position.leverage * 100
<1>1. /\ position.leverage \in Nat /\ position.leverage > 0
      /\ P_SCALE \in Nat /\ P_SCALE > 0 /\ MaxPrice \in Nat /\ I128_MAX \in Nat
  BY PositionTypes, PositionMagnitudes
<1>2. reach \in Nat /\ reach >= MaxPrice * 1
  BY <1>1, TimesNat, TimesMonotone, 1 \in Nat, 1 <= P_SCALE
<1>3. levered \in Nat /\ 2 <= levered
  BY <1>1
<1>4. reach * levered <= I128_MAX
  BY PositionMagnitudes
<1> HIDE DEF reach, levered
<1>5. reach * levered >= reach * 2 /\ reach * levered \in Nat
  BY <1>2, <1>3, TimesNat, TimesMonotone, 2 \in Nat
<1> QED
  BY <1>1, <1>2, <1>4, <1>5

(* The collateral that may be lost, the price times it and the price less   *)
(* or plus the distance fit.                                               *)
LEMMA LiquidationPriceFits ==
    ASSUME WalkTypeOK
    PROVE  \A x \in LiquidationPriceResults : Fits(x)
<1> DEFINE c == position.collateral
           o == position.openPrice
           t == position.liqThresholdP
           l == position.leverage
           lost == c * t
           bearable == DivTrunc(lost, 100)
           moved == o * bearable
           stage == moved \div c
           distance == DivTrunc(stage, l)
           price == IF position.isLong THEN o - distance ELSE o + distance
           most == c * 100
           highest == MaxPrice * c
<1>1. /\ o \in Nat /\ o > 0 /\ l \in Nat /\ l > 0 /\ t \in Nat /\ t <= 100
      /\ c \in Nat /\ c > 0 /\ position.isLong \in BOOLEAN
  BY PositionTypes
<1>2. MaxPrice \in Nat /\ o <= MaxPrice /\ I128_MAX \in Nat
  BY PositionMagnitudes
<1>3. most <= I128_MAX /\ highest <= I128_MAX
  BY PositionMagnitudes
<1>4. lost \in Nat /\ most \in Nat /\ lost <= most
  BY <1>1, TimesNat, TimesMonotone, 100 \in Nat
<1>5. bearable \in Nat /\ bearable <= c
  <2>1. most = 100 * c
    BY <1>1
  <2> HIDE DEF lost, most, c
  <2> QED
    BY <1>1, <1>4, <2>1 DEF DivTrunc
<1>6. LiquidationPriceResults = {lost, moved, price}
  BY DEF LiquidationPriceResults, MulDivFloor
<1> HIDE DEF lost, bearable, most
<1>7. moved \in Nat /\ moved <= o * c /\ o * c \in Nat
  BY <1>1, <1>5, TimesNat, TimesMonotone
<1>8. o * c <= highest /\ highest \in Nat
  <2>1. c * MaxPrice >= c * o
    BY <1>1, <1>2, TimesMonotone
  <2>2. c * MaxPrice = highest /\ c * o = o * c
    BY <1>1, <1>2
  <2>3. highest \in Nat
    BY <1>1, <1>2, TimesNat
  <2> QED
    BY <2>1, <2>2, <2>3
<1>9. stage \in Nat /\ stage <= o
  <2>1. c * o = o * c /\ c * o + c > o * c /\ c * o + c \in Int
    BY <1>1, <1>7
  <2> HIDE DEF moved
  <2>2. moved < c * o + c
    BY <1>7, <2>1
  <2> QED
    BY <1>1, <1>7, <2>2, DivAtLeast, DivNat
<1> HIDE DEF moved, stage, highest
<1>10. distance \in Int /\ -o <= distance /\ distance <= o
  <2>1. stage \in Int /\ -o <= stage
    BY <1>1, <1>9
  <2> QED
    BY <1>1, <1>9, <2>1, DividedWithin
<1> HIDE DEF distance
<1>11. price \in Int /\ -(2 * MaxPrice) <= price /\ price <= 2 * MaxPrice
  BY <1>1, <1>2, <1>10
<1> HIDE DEF price
<1>12. Fits(lost) /\ Fits(moved)
  <2>1. /\ lost <= I128_MAX /\ -I128_MAX <= lost
        /\ moved <= I128_MAX /\ -I128_MAX <= moved
        /\ lost \in Int /\ moved \in Int
    BY <1>2, <1>3, <1>4, <1>7, <1>8
  <2> QED
    BY <1>2, <2>1 DEF Fits
<1>13. Fits(price)
  BY <1>2, <1>11, PricesFit, WithinFits, 2 * MaxPrice \in Int
<1> QED
  BY <1>6, <1>12, <1>13

(* The notional and the fee's product fit, and the fee is a number that is  *)
(* not greater than they may be.                                           *)
LEMMA CloseFeeFits ==
    ASSUME WalkTypeOK
    PROVE  /\ \A x \in CloseFeeResults : Fits(x)
           /\ FeeOn(position.collateral * position.leverage, position.closeFeeP) <= I128_MAX
<1> DEFINE notional == position.collateral * position.leverage
           product == notional * position.closeFeeP
           most == notional * (position.closeFeeP + 1)
<1>1. /\ position.collateral \in Nat /\ position.leverage \in Nat
      /\ position.closeFeeP \in Nat /\ P_SCALE \in Nat /\ P_SCALE > 0
  BY PositionTypes
<1>2. most <= I128_MAX /\ I128_MAX \in Nat
  BY PositionMagnitudes
<1>3. notional \in Nat
  BY <1>1, TimesNat
<1>4. CloseFeeResults = {notional, product}
  BY DEF CloseFeeResults
<1>5. FeeOn(notional, position.closeFeeP) = product \div P_SCALE
  BY DEF FeeOn, MulDivFloor
<1> HIDE DEF notional
<1>6. product \in Nat /\ most = product + notional
  BY <1>1, <1>3, TimesNat
<1> HIDE DEF product, most
<1>7. product <= I128_MAX /\ notional <= I128_MAX
  BY <1>2, <1>3, <1>6
<1>8. Fits(notional) /\ Fits(product)
  BY <1>2, <1>3, <1>6, <1>7 DEF Fits
<1>9. product \div P_SCALE <= product
  <2>1. product \in Int /\ -product <= product /\ product <= product /\ P_SCALE \in Nat
    BY <1>1, <1>6
  <2> QED
    BY <1>1, <1>6, <2>1, DividedWithin
<1>10. product \div P_SCALE <= I128_MAX
  BY <1>1, <1>2, <1>6, <1>7, <1>9, DivNat
<1> QED
  BY <1>4, <1>5, <1>8, <1>10 DEF notional

(* The profit is within the cap, so the settlement's product is within the  *)
(* collateral times it, and the value within that and the collateral.      *)
LEMMA SettlementFits ==
    ASSUME WalkTypeOK
    PROVE  \A x \in SettlementResults(observed) : Fits(x)
<1> DEFINE c == position.collateral
           profit == ProfitAt(observed)
           product == c * profit
           gain == product \div P_SCALE
           value == ValueAt(observed)
           left == c * FloorAtZero(100 - position.liqThresholdP)
           fee == FeeOn(c * position.leverage, position.closeFeeP)
           most == c * (Cap + 1)
           net == value - fee
<1>1. /\ c \in Nat /\ c > 0 /\ position.maxGainP \in Nat /\ P_SCALE \in Nat /\ P_SCALE > 0
      /\ position.liqThresholdP \in Nat /\ position.liqThresholdP <= 100 /\ observed \in Int
  BY PositionTypes
<1>2. Cap \in Nat /\ profit \in Int
  BY <1>1, ProfitIs, ProfitInt
<1>3. -Cap <= profit /\ profit <= Cap
  <2>1. PICK s \in Int : /\ 100 * (position.leverage * s) \in Int
                         /\ profit = Clamp(-(100 * (position.leverage * s)), -Cap, Cap)
    BY <1>1, ProfitIs
  <2> QED
    BY <1>2, <2>1 DEF Clamp
<1>4. most <= I128_MAX /\ I128_MAX \in Nat
  BY PositionMagnitudes DEF Cap
<1>5. c * 100 <= I128_MAX
  BY PositionMagnitudes
<1>6. fee \in Nat /\ fee <= I128_MAX
  BY CloseFeeNat, CloseFeeFits
<1>7. value = c + DivTrunc(gain, 100) - 0 - 0
  BY DEF ValueAt, SettlementValue, MulDivFloor
<1>8. Fits(left) /\ left \in Nat
  <2>1. FloorAtZero(100 - position.liqThresholdP) \in Nat
        /\ FloorAtZero(100 - position.liqThresholdP) <= 100
    BY <1>1 DEF FloorAtZero
  <2>2. left \in Nat /\ c * 100 >= left /\ c * 100 \in Nat
    BY <1>1, <2>1, TimesNat, TimesMonotone, 100 \in Nat
  <2> HIDE DEF left
  <2> QED
    BY <1>4, <1>5, <2>2 DEF Fits
<1>9. ~InsolventAt(observed) => value >= 0
  <2>1. InsolvencyCutoff(c, position.liqThresholdP) \in Nat
    BY Bearables DEF Cutoff
  <2> HIDE DEF value
  <2>2. value \in Int
    BY <1>1, <1>2, ValueInt DEF value, ValueAt
  <2>3. InsolventAt(observed) <=> value <= InsolvencyCutoff(c, position.liqThresholdP)
    BY DEF InsolventAt, value
  <2> QED
    BY <2>1, <2>2, <2>3
<1>10. \A x \in SettlementResults(observed) :
            \/ x = product \/ x = value \/ x = left
            \/ ~InsolventAt(observed) /\ x = net
  BY DEF SettlementResults
<1> HIDE DEF profit, value, fee, left
<1>11. /\ product \in Int /\ Cap * c \in Nat
       /\ -(Cap * c) <= product /\ product <= Cap * c
  <2>1. /\ profit * c \in Int /\ Cap * c \in Nat
        /\ -(Cap * c) <= profit * c /\ profit * c <= Cap * c
    BY <1>1, <1>2, <1>3, MultipliedWithin, c <= c
  <2>2. profit * c = product
    BY <1>1, <1>2
  <2> QED
    BY <2>1, <2>2
<1>12. most = Cap * c + c
  <2> HIDE DEF c, product, left, gain
  <2> QED
    BY <1>1, <1>2
<1> DEFINE bound == Cap * c
<1>13. /\ product \in Int /\ bound \in Nat /\ -bound <= product /\ product <= bound
       /\ most = bound + c
  BY <1>11, <1>12
<1> HIDE DEF product, bound, most
<1>14. gain \in Int /\ -bound <= gain /\ gain <= bound
  BY <1>1, <1>13, DividedWithin
<1> HIDE DEF gain
<1>15. DivTrunc(gain, 100) \in Int /\ -bound <= DivTrunc(gain, 100)
       /\ DivTrunc(gain, 100) <= bound
  BY <1>13, <1>14, DividedWithin, 100 \in Nat, 100 > 0
<1>16. value \in Int /\ -I128_MAX <= value /\ value <= I128_MAX
  BY <1>1, <1>4, <1>7, <1>13, <1>15
<1>17. Fits(product) /\ Fits(value)
  BY <1>1, <1>4, <1>13, <1>16 DEF Fits
<1>18. ~InsolventAt(observed) => Fits(net)
  BY <1>4, <1>6, <1>9, <1>16 DEF Fits
<1> HIDE DEF net
<1> QED
  BY <1>8, <1>10, <1>17, <1>18

(* NothingOverflowsTheorem: for inputs of the magnitudes assumed, nothing   *)
(* that a close or a liquidation computes overflows, at any price.         *)
THEOREM NothingOverflowsTheorem == WalkSpec => []NothingOverflows
<1>1. WalkTypeOK /\ observed <= MaxPrice => NothingOverflows
  BY ProfitFits, LiquidationPriceFits, CloseFeeFits, SettlementFits DEF NothingOverflows
<1> QED
  BY <1>1, WalkBounded, PTL

(* ContractWidths: at the contracts' own scale, prices up to ten billion,   *)
(* collateral up to a billion USDC, a leverage up to 150, any cap that a    *)
(* u32 holds and any fee up to the whole notional are such magnitudes.     *)
THEOREM ContractWidths ==
    ASSUME P_SCALE = 10000000000,
           I128_MAX = 170141183460469231731687303715884105727,
           MaxPrice \in Nat, MaxPrice <= 100000000000000000000,
           \A c \in Collateral : c <= 10000000000000000,
           \A l \in Leverage : l <= 150,
           \A g \in MaxGainP : g <= 4294967295,
           \A f \in CloseFee : f <= P_SCALE
    PROVE  I128_MAX \in Nat /\ MagnitudesFit
<1> SUFFICES ASSUME NEW c \in Collateral, NEW l \in Leverage
             PROVE  /\ MaxPrice * P_SCALE * (l * 100) <= I128_MAX
                    /\ MaxPrice * c <= I128_MAX /\ c * 100 <= I128_MAX
                    /\ \A g \in MaxGainP : c * (g * P_SCALE + 1) <= I128_MAX
                    /\ \A f \in CloseFee : c * l * (f + 1) <= I128_MAX
  BY SMT DEF MagnitudesFit
<1>1. /\ c \in Nat /\ c <= 10000000000000000 /\ l \in Nat /\ l <= 150
      /\ MaxPrice \in Nat /\ MaxPrice <= 100000000000000000000
  BY SMT, PriceWalkAssumption
<1>2. MaxGainP \subseteq Nat /\ CloseFee \subseteq Nat
  BY SMT, PriceWalkAssumption
<1>3. ASSUME NEW a \in Nat, NEW high \in Nat, a <= high,
             NEW b \in Nat, NEW wide \in Nat, b <= wide
      PROVE  a * b <= high * wide /\ a * b \in Nat
  BY SMT, <1>3, MultipliedWithin, TimesNat
<1>4. MaxPrice * c <= I128_MAX
  <2>1. MaxPrice * c <= 100000000000000000000 * 10000000000000000
    BY SMT, <1>1, <1>3
  <2> QED
    BY SMT, <1>1, <1>3, <2>1
<1>5. MaxPrice * P_SCALE * (l * 100) <= I128_MAX
  <2>1. MaxPrice * P_SCALE \in Nat /\ MaxPrice * P_SCALE <= 1000000000000000000000000000000
    BY SMT, <1>1
  <2>2. l * 100 \in Nat /\ l * 100 <= 15000
    BY SMT, <1>1
  <2> DEFINE reach == MaxPrice * P_SCALE
             levered == l * 100
  <2> HIDE DEF reach, levered
  <2>3. /\ reach * levered <= 1000000000000000000000000000000 * 15000
        /\ reach * levered \in Nat
    BY SMT, <1>3, <2>1, <2>2 DEF reach, levered
  <2> QED
    BY SMT, <2>3 DEF reach, levered
<1>6. c * 100 <= I128_MAX
  BY SMT, <1>1
<1>7. ASSUME NEW g \in MaxGainP
      PROVE  c * (g * P_SCALE + 1) <= I128_MAX
  <2>1. g * P_SCALE + 1 \in Nat /\ g * P_SCALE + 1 <= 42949672950000000001
    BY SMT, <1>2
  <2> DEFINE wide == g * P_SCALE + 1
  <2> HIDE DEF wide
  <2>2. c * wide <= 10000000000000000 * 42949672950000000001 /\ c * wide \in Nat
    BY SMT, <1>1, <1>3, <2>1 DEF wide
  <2> QED
    BY SMT, <2>2 DEF wide
<1>8. ASSUME NEW f \in CloseFee
      PROVE  c * l * (f + 1) <= I128_MAX
  <2>1. f + 1 \in Nat /\ f + 1 <= 10000000001
    BY SMT, <1>2
  <2>2. c * l <= 10000000000000000 * 150 /\ c * l \in Nat
    BY SMT, <1>1, <1>3
  <2> DEFINE notional == c * l
             rate == f + 1
             high == 1500000000000000000
             wide == 10000000001
  <2>3. /\ notional \in Nat /\ high \in Nat /\ notional <= high
        /\ rate \in Nat /\ wide \in Nat /\ rate <= wide
    BY SMT, <2>1, <2>2
  <2> HIDE DEF notional, rate, high, wide
  <2>4. notional * rate <= high * wide /\ notional * rate \in Nat
    BY SMT, <1>3, <2>3
  <2> QED
    BY SMT, <2>4 DEF notional, rate, high, wide
<1> QED
  BY SMT, <1>4, <1>5, <1>6, <1>7, <1>8

-----------------------------------------------------------------------------
(* The order flow. *)

FlowTypeOK == market \in Market /\ oi \in Nat /\ oi >= market.startOi

(* The open interest only grows from where it started. *)
LEMMA FlowTypeStep == FlowTypeOK /\ [FlowStep]_flowVars => FlowTypeOK'
<1> SUFFICES ASSUME FlowTypeOK, [FlowStep]_flowVars PROVE FlowTypeOK'
  OBVIOUS
<1>1. market.startOi \in Nat
  BY OrderFlowAssumption DEF FlowTypeOK, Market
<1>2. CASE FlowStep
  <2>1. PICK size \in Size : Fill(size)
    BY <1>2 DEF FlowStep
  <2>2. size \in Nat
    BY OrderFlowAssumption
  <2> QED
    BY <1>1, <2>1, <2>2 DEF FlowTypeOK, Fill
<1>3. CASE UNCHANGED flowVars
  BY <1>3 DEF FlowTypeOK, flowVars
<1> QED
  BY <1>2, <1>3

(* The market and its open interest are of their types. *)
LEMMA FlowTyped == FlowSpec => []FlowTypeOK
<1>1. FlowInit => FlowTypeOK
  BY OrderFlowAssumption DEF FlowInit, FlowTypeOK, Market
<1> QED
  BY <1>1, FlowTypeStep, PTL DEF FlowSpec

(* The numbers a market is made of. *)
LEMMA MarketTypes ==
    ASSUME FlowTypeOK
    PROVE  /\ market.isLong \in BOOLEAN /\ market.price \in Nat /\ market.price > 0
           /\ market.spreadP \in Nat /\ market.depth \in Nat /\ market.startOi \in Nat
           /\ oi \in Nat /\ oi >= market.startOi
           /\ P_SCALE \in Nat /\ P_SCALE > 0 /\ USDC_SCALE \in Nat /\ USDC_SCALE > 0
<1>1. /\ market.isLong \in BOOLEAN /\ market.price \in MarketPrice
      /\ market.spreadP \in SpreadP /\ market.depth \in Depth /\ market.startOi \in StartOi
  BY DEF FlowTypeOK, Market
<1>2. /\ market.price \in Nat \ {0} /\ market.spreadP \in Nat /\ market.depth \in Nat
      /\ market.startOi \in Nat
  BY <1>1, OrderFlowAssumption
<1> QED
  BY <1>1, <1>2, ScaleAssumption DEF FlowTypeOK

(* How far the impact moves a price: not towards the trader, and by what    *)
(* the middle of the order, times two, says: but for half a unit in it, a  *)
(* unit of the rate, and three roundings to a tick.                        *)
LEMMA ImpactBounds ==
    ASSUME NEW q \in Nat, NEW P \in Nat, P > 0, NEW D \in Nat, D > 0, NEW m \in Nat,
           NEW twice \in Nat, 2 * m <= twice, twice <= 2 * m + 1,
           NEW imp \in Nat, imp = (m * P) \div D,
           NEW J \in Nat, J = (imp * q) \div P,
           NEW k \in Nat, k = J \div 100,
           NEW W \in Nat, W = 200 * D
    PROVE  /\ W * k <= twice * q
           /\ twice * q <= W * k + W * (3 + q \div W + q \div (100 * P))
<1> DEFINE mP == m * P
           impq == imp * q
           u == q \div W
           v == q \div (100 * P)
<1>1. mP \in Nat
  BY TimesNat
<1>2. D * imp <= mP /\ mP < D * imp + D
  <2>1. imp = mP \div D
    OBVIOUS
  <2> HIDE DEF mP
  <2> QED
    BY <1>1, <2>1, FloorDivision
<1>3. impq \in Nat
  BY TimesNat
<1>4. P * J <= impq /\ impq < P * J + P
  <2>1. J = impq \div P
    OBVIOUS
  <2> HIDE DEF impq
  <2> QED
    BY <1>3, <2>1, FloorDivision
<1>5. 100 * k <= J /\ J <= 100 * k + 99
  OBVIOUS
<1>7. W \in Nat /\ W > 0 /\ 100 * P \in Nat /\ 100 * P > 0
  OBVIOUS
<1>8. u \in Nat /\ q < W * u + W
  BY <1>7, FloorDivision, DivNat
<1>9. v \in Nat /\ q < (100 * P) * v + 100 * P
  BY <1>7, FloorDivision, DivNat
<1> HIDE DEF u, v
<1>10. W * k <= twice * q
  <2>1. P * (D * J) <= P * (m * q)
    <3>1. D * (P * J) <= D * impq
      BY <1>3, <1>4, TimesBoth
    <3>2. q * (D * imp) <= q * mP
      BY <1>1, <1>2, TimesBoth
    <3>3. /\ D * (P * J) = P * (D * J) /\ D * impq = q * (D * imp) /\ q * mP = P * (m * q)
      BY <1>2, <1>4
    <3>4. /\ P * (D * J) \in Int /\ q * (D * imp) \in Int /\ P * (m * q) \in Int
      BY <1>2, <1>4
    <3> QED
      BY <3>1, <3>2, <3>3, <3>4
  <2>2. D * J <= m * q /\ D * J \in Int /\ m * q \in Int
    BY <1>4, <2>1, TimesBoth
  <2>3. D * (100 * k) <= D * J /\ D * (100 * k) \in Int
    BY <1>4, <1>5, TimesBoth
  <2>4. q * (2 * m) <= q * twice
    BY TimesBoth
  <2>5. W * k = 2 * (D * (100 * k)) /\ q * (2 * m) = 2 * (m * q) /\ q * twice = twice * q
    BY <1>5
  <2>6. W * k \in Int /\ q * twice \in Int
    BY <1>5, <1>7
  <2> QED
    BY <2>2, <2>3, <2>4, <2>5, <2>6
<1>11. twice * q <= W * k + W * (3 + u + v)
  <2>1. P * (2 * (m * q)) <= P * (W * k + W + W * (v + 1))
    <3>1. q * mP <= q * (D * imp + D)
      BY <1>1, <1>2, TimesBoth
    <3>2. D * impq <= D * (P * J + P)
      BY <1>3, <1>4, TimesBoth
    <3>3. (P * D) * J <= (P * D) * (100 * k + 99)
      BY <1>4, <1>5, TimesBoth, TimesNat
    <3>4. (2 * D) * q <= (2 * D) * ((100 * P) * v + 100 * P)
      BY <1>9, TimesBoth
    <3>5. /\ q * mP = P * (m * q)
          /\ q * (D * imp + D) = D * impq + D * q
          /\ D * (P * J + P) = (P * D) * J + P * D
          /\ (P * D) * (100 * k + 99) = 100 * ((P * D) * k) + 99 * (P * D)
          /\ (2 * D) * q = 2 * (D * q)
          /\ (2 * D) * ((100 * P) * v + 100 * P) = 200 * ((P * D) * v) + 200 * (P * D)
      BY <1>2, <1>4, <1>5, <1>9
    <3>6. /\ P * (2 * (m * q)) = 2 * (P * (m * q))
          /\ P * (W * k + W + W * (v + 1))
               = 200 * ((P * D) * k) + 400 * (P * D) + 200 * ((P * D) * v)
      BY <1>5, <1>9
    <3>7. /\ P * (m * q) \in Int /\ D * impq \in Int /\ D * q \in Int /\ P * D \in Int
          /\ (P * D) * J \in Int /\ (P * D) * k \in Int /\ (P * D) * v \in Int
      BY <1>3, <1>4, <1>5, <1>9
    <3> DEFINE Pmq == P * (m * q)
               Dimpq == D * impq
               Dq == D * q
               PD == P * D
               PDJ == (P * D) * J
               PDk == (P * D) * k
               PDv == (P * D) * v
    <3>8. /\ Pmq <= Dimpq + Dq /\ Dimpq <= PDJ + PD /\ PDJ <= 100 * PDk + 99 * PD
          /\ 2 * Dq <= 200 * PDv + 200 * PD
          /\ Pmq \in Int /\ Dimpq \in Int /\ Dq \in Int /\ PD \in Int /\ PDJ \in Int
          /\ PDk \in Int /\ PDv \in Int
      BY <3>1, <3>2, <3>3, <3>4, <3>5, <3>7
    <3>9. /\ P * (2 * (m * q)) = 2 * Pmq
          /\ P * (W * k + W + W * (v + 1)) = 200 * PDk + 400 * PD + 200 * PDv
      BY <3>6
    <3> HIDE DEF Pmq, Dimpq, Dq, PD, PDJ, PDk, PDv
    <3>10. 2 * Pmq <= 200 * PDk + 400 * PD + 200 * PDv
      BY ONLY <3>8
    <3> QED
      BY <3>9, <3>10
  <2>2. 2 * (m * q) <= W * k + W + W * (v + 1)
    <3>1. 2 * (m * q) \in Int /\ W * k + W + W * (v + 1) \in Int
      BY <1>5, <1>7, <1>9
    <3> QED
      BY <2>1, <3>1, TimesBoth
  <2>3. twice * q <= 2 * (m * q) + q
    <3>1. q * twice <= q * (2 * m + 1)
      BY TimesBoth
    <3>2. q * twice = twice * q /\ q * (2 * m + 1) = 2 * (m * q) + q
      OBVIOUS
    <3> QED
      BY <3>1, <3>2
  <2>4. W * (3 + u + v) = W * u + W * v + 3 * W /\ W * (v + 1) = W * v + W
    BY <1>7, <1>8, <1>9
  <2>5. /\ twice * q \in Int /\ m * q \in Int /\ W * k \in Int /\ W * u \in Int
        /\ W * v \in Int
    BY <1>5, <1>7, <1>8, <1>9
  <2> QED
    BY <1>7, <1>8, <2>2, <2>3, <2>4, <2>5
<1>12. twice * q <= W * k + W * (3 + q \div W + q \div (100 * P))
  BY <1>11 DEF u, v
<1> QED
  BY <1>10, <1>12

(* The spread on a price is its share of it, to the next tick either way,   *)
(* and never too much on a price that is not negative.                     *)
SpreadOn(a, s, P) == DivTrunc((a * s) \div P, 100)

LEMMA SpreadBounds ==
    ASSUME NEW a \in Int, NEW s \in Nat, NEW P \in Nat, P > 0
    PROVE  LET r == SpreadOn(a, s, P)
           IN /\ r \in Int
              /\ a * s < 100 * (P * r) + 100 * P
              /\ 100 * (P * r) < a * s + 100 * P
              /\ a >= 0 => r >= 0 /\ 100 * (P * r) <= a * s
<1> DEFINE share == a * s
           f == share \div P
           r == DivTrunc(f, 100)
<1>1. share \in Int
  OBVIOUS
<1>2. ASSUME a >= 0 PROVE share \in Nat
  BY <1>2, TimesNat
<1>3. f \in Int /\ P * f <= share /\ share < P * f + P
  <2> HIDE DEF share
  <2> QED
    BY <1>1, FloorDivision
<1>4. ASSUME a >= 0 PROVE f \in Nat
  <2> HIDE DEF share
  <2> QED
    BY <1>2, <1>4, DivNat
<1> HIDE DEF share, f
<1>5. /\ r \in Int /\ f - 99 <= 100 * r /\ 100 * r <= f + 99
      /\ f >= 0 => r >= 0 /\ 100 * r <= f
  BY <1>3 DEF DivTrunc
<1> HIDE DEF r
<1>6. /\ P * (f - 99) <= P * (100 * r) /\ P * (100 * r) <= P * (f + 99)
      /\ f >= 0 => P * (100 * r) <= P * f
  BY <1>3, <1>5, TimesBoth
<1>7. /\ P * (f - 99) = P * f - 99 * P /\ P * (f + 99) = P * f + 99 * P
      /\ P * (100 * r) = 100 * (P * r) /\ P * f \in Int /\ P * r \in Int
  BY <1>3, <1>5
<1> DEFINE Pf == P * f
           Pr == P * r
<1>8. /\ Pf - 99 * P <= 100 * Pr /\ 100 * Pr <= Pf + 99 * P
      /\ f >= 0 => 100 * Pr <= Pf
      /\ Pf <= share /\ share < Pf + P /\ Pf \in Int /\ Pr \in Int
  BY <1>3, <1>6, <1>7
<1> HIDE DEF Pf, Pr
<1>9. share < 100 * Pr + 100 * P /\ 100 * Pr < share + 100 * P
  BY <1>1, <1>8
<1>10. ASSUME a >= 0 PROVE r >= 0 /\ 100 * Pr <= share
  BY <1>1, <1>4, <1>5, <1>8, <1>10
<1> QED
  BY <1>5, <1>9, <1>10 DEF share, f, r, Pr, SpreadOn

(* The impact and the slope of it, for a market that may have no depth set. *)
ImpactScale == IF market.depth = 0 THEN 1 ELSE 200 * (USDC_SCALE * market.depth)
ImpactSlope == IF market.depth = 0 THEN 0 ELSE 1

(* They are numbers. *)
LEMMA ImpactTypes ==
    ASSUME FlowTypeOK
    PROVE  /\ ImpactScale \in Nat /\ ImpactScale > 0 /\ ImpactSlope \in {0, 1}
           /\ ImpactSlack \in Nat /\ (ImpactSlack > 0 => ImpactSlack >= 1)
<1> DEFINE W == 200 * (USDC_SCALE * market.depth)
<1>1. /\ market.price \in Nat /\ market.depth \in Nat /\ P_SCALE \in Nat /\ P_SCALE > 0
      /\ USDC_SCALE \in Nat /\ USDC_SCALE > 0
  BY MarketTypes
<1>2. CASE market.depth = 0
  BY <1>2 DEF ImpactScale, ImpactSlope, ImpactSlack
<1>3. CASE market.depth # 0
  <2>1. USDC_SCALE * market.depth \in Nat /\ USDC_SCALE * market.depth > 0
    BY <1>1, <1>3, TimesNat
  <2>2. W \in Nat /\ W > 0 /\ 100 * P_SCALE \in Nat /\ 100 * P_SCALE > 0
    BY <1>1, <2>1
  <2>3. 200 * USDC_SCALE * market.depth = W
    BY <1>1
  <2> HIDE DEF W
  <2>4. market.price \div W \in Nat /\ market.price \div (100 * P_SCALE) \in Nat
    BY <1>1, <2>2, DivNat
  <2>5. ImpactSlack \in Nat
    BY <1>3, <2>3, <2>4 DEF ImpactSlack
  <2> QED
    BY <1>3, <2>2, <2>5 DEF ImpactScale, ImpactSlope, W
<1> QED
  BY <1>2, <1>3

(* What an order does to the oracle's price before the spread. *)
LEMMA ImpactedIs ==
    ASSUME FlowTypeOK, NEW isLong \in BOOLEAN, NEW startOi \in Nat, NEW size \in Nat
    PROVE  \E k \in Nat :
             /\ PriceAfterImpact(market.price, isLong, startOi, size, market.depth)
                  = Against(market.price, k, isLong)
             /\ ImpactScale * k <= ImpactSlope * ((2 * startOi + size) * market.price)
             /\ ImpactSlope * ((2 * startOi + size) * market.price)
                  <= ImpactScale * k + ImpactScale * ImpactSlack
<1> DEFINE q == market.price
           twice == 2 * startOi + size
           D == USDC_SCALE * market.depth
           W == 200 * D
<1>1. /\ q \in Nat /\ market.depth \in Nat /\ P_SCALE \in Nat /\ P_SCALE > 0
      /\ USDC_SCALE \in Nat /\ USDC_SCALE > 0
  BY MarketTypes
<1>2. twice \in Nat /\ twice * q \in Nat
  BY <1>1, TimesNat
<1>3. CASE market.depth = 0
  <2>1. PriceAfterImpact(q, isLong, startOi, size, market.depth) = Against(q, 0, isLong)
    BY <1>1, <1>3 DEF PriceAfterImpact, Against
  <2>2. ImpactScale = 1 /\ ImpactSlope = 0 /\ ImpactSlack = 0
    BY <1>3 DEF ImpactScale, ImpactSlope, ImpactSlack
  <2> QED
    BY <1>2, <2>1, <2>2
<1>4. CASE market.depth # 0
  <2> DEFINE m == startOi + DivTrunc(size, 2)
             k == DivTrunc((((m * P_SCALE) \div D) * q) \div P_SCALE, 100)
  <2>1. D \in Nat /\ D > 0
    BY <1>1, <1>4, TimesNat
  <2>2. m \in Nat /\ 2 * m <= twice /\ twice <= 2 * m + 1
    BY DEF DivTrunc
  <2>3. PriceAfterImpact(q, isLong, startOi, size, market.depth) = Against(q, k, isLong)
    BY <1>4 DEF PriceAfterImpact, ImpactP, MulDivFloor
  <2>4. /\ ImpactScale = W /\ ImpactSlope = 1
        /\ ImpactSlack = 3 + q \div W + q \div (100 * P_SCALE)
    <3>1. 200 * USDC_SCALE * market.depth = W
      BY <1>1
    <3> QED
      BY <1>4, <3>1 DEF ImpactScale, ImpactSlope, ImpactSlack
  <2> HIDE DEF m, twice, D, q
  <2>5. /\ k \in Nat /\ W * k <= twice * q
        /\ twice * q <= W * k + W * (3 + q \div W + q \div (100 * P_SCALE))
    <3>1. m * P_SCALE \in Nat
      BY <1>1, <2>2, TimesNat
    <3> DEFINE imp == (m * P_SCALE) \div D
               J == (imp * q) \div P_SCALE
    <3>2. imp \in Nat /\ q \in Nat /\ twice \in Nat /\ W \in Nat /\ W = 200 * D
      BY <1>1, <1>2, <2>1, <3>1, DivNat DEF q, twice
    <3>3. imp = (m * P_SCALE) \div D
      OBVIOUS
    <3> HIDE DEF imp
    <3>4. imp * q \in Nat
      BY <3>2, TimesNat
    <3>5. J \in Nat /\ J = (imp * q) \div P_SCALE
      BY <1>1, <3>4, DivNat
    <3> HIDE DEF J
    <3>6. k = J \div 100 /\ k \in Nat
      BY <3>5 DEF DivTrunc, J, imp
    <3> HIDE DEF k, W
    <3> QED
      BY <1>1, <2>1, <2>2, <3>2, <3>3, <3>5, <3>6, ImpactBounds
  <2> HIDE DEF k
  <2>6. ImpactSlope * (twice * q) = twice * q
    BY <1>2, <2>4
  <2> QED
    BY <2>3, <2>4, <2>5, <2>6 DEF twice, q
<1> QED
  BY <1>3, <1>4

(* NoFreeRoundTripTheorem: whatever the market, the open interest and the   *)
(* two orders, a long is executed at no less than the oracle's price and a *)
(* short at no more, while the spread is a hundred percent at most.        *)
THEOREM NoFreeRoundTripTheorem == FlowSpec => []NoFreeRoundTrip
<1>1. ASSUME FlowTypeOK, market.spreadP <= 100 * P_SCALE, NEW size \in Nat
      PROVE  /\ ExecutesAt(TRUE, oi, size) \in Int /\ market.price <= ExecutesAt(TRUE, oi, size)
             /\ ExecutesAt(FALSE, oi, size) \in Int
             /\ ExecutesAt(FALSE, oi, size) <= market.price
  <2> DEFINE q == market.price
             s == market.spreadP
             Spread(a) == SpreadOn(a, s, P_SCALE)
  <2>1. q \in Nat /\ s \in Nat /\ P_SCALE \in Nat /\ P_SCALE > 0 /\ oi \in Nat
    BY <1>1, MarketTypes
  <2>2. ExecutesAt(TRUE, oi, size) \in Int /\ q <= ExecutesAt(TRUE, oi, size)
    <3>1. PICK k \in Nat : PriceAfterImpact(q, TRUE, oi, size, market.depth) = Against(q, k, TRUE)
      BY <1>1, <2>1, ImpactedIs, TRUE \in BOOLEAN
    <3> DEFINE a == q + k
    <3>2. PriceAfterImpact(q, TRUE, oi, size, market.depth) = a
      BY <3>1 DEF Against
    <3>3. a \in Int /\ a >= 0 /\ q <= a
      BY <2>1
    <3> HIDE DEF a
    <3>4. ExecutesAt(TRUE, oi, size) = a + Spread(a)
      BY <3>2 DEF ExecutesAt, ExecutionPrice, ApplySpread, Against, MulDivFloor,
       SpreadOn
    <3>5. Spread(a) \in Int /\ Spread(a) >= 0
      <4> HIDE DEF s
      <4> QED
        BY <2>1, <3>3, SpreadBounds
    <3> DEFINE r == Spread(a)
               price == ExecutesAt(TRUE, oi, size)
    <3>6. price = a + r /\ r \in Int /\ r >= 0
      BY <3>4, <3>5
    <3> HIDE DEF r, q, price
    <3>7. price \in Int /\ q <= price
      BY <2>1, <3>3, <3>6
    <3> QED
      BY <3>7 DEF price
  <2>3. ExecutesAt(FALSE, oi, size) \in Int /\ ExecutesAt(FALSE, oi, size) <= q
    <3>1. PICK k \in Nat : PriceAfterImpact(q, FALSE, oi, size, market.depth) = Against(q, k, FALSE)
      BY <1>1, <2>1, ImpactedIs, FALSE \in BOOLEAN
    <3> DEFINE a == q - k
    <3>2. PriceAfterImpact(q, FALSE, oi, size, market.depth) = a
      BY <3>1 DEF Against
    <3>3. a \in Int /\ a <= q
      BY <2>1
    <3> HIDE DEF a
    <3>4. ExecutesAt(FALSE, oi, size) = a - Spread(a)
      BY <3>2 DEF ExecutesAt, ExecutionPrice, ApplySpread, Against, MulDivFloor,
       SpreadOn
    <3> DEFINE r == Spread(a)
    <3>5. /\ r \in Int /\ a * s < 100 * (P_SCALE * r) + 100 * P_SCALE
          /\ (a >= 0 => r >= 0)
      <4> HIDE DEF s
      <4> QED
        BY <2>1, <3>3, SpreadBounds
    <3> HIDE DEF r
    <3>6. a < 0 => a <= r
      <4> SUFFICES ASSUME a < 0, r < a PROVE FALSE
        BY <3>3, <3>5
      <4>1. (-a) * s <= (-a) * (100 * P_SCALE) /\ (-a) * s = -(a * s)
        <5> HIDE DEF s
        <5>1. -a \in Nat /\ 100 * P_SCALE \in Nat
          BY <2>1, <3>3
        <5>2. s <= 100 * P_SCALE
          BY <1>1 DEF s
        <5> QED
          BY <2>1, <3>3, <5>1, <5>2, TimesBoth
      <4>2. P_SCALE * (r + 1) <= P_SCALE * a
        BY <2>1, <3>3, <3>5, TimesBoth
      <4>3. /\ (-a) * (100 * P_SCALE) = -(100 * (P_SCALE * a))
            /\ P_SCALE * (r + 1) = P_SCALE * r + P_SCALE
            /\ P_SCALE * r \in Int /\ P_SCALE * a \in Int /\ a * s \in Int
        BY <2>1, <3>3, <3>5
      <4> QED
        BY <2>1, <3>5, <4>1, <4>2, <4>3
    <3> DEFINE price == ExecutesAt(FALSE, oi, size)
    <3>7. price = a - r
      BY <3>4 DEF r
    <3> HIDE DEF q, price
    <3>8. price \in Int /\ price <= q
      BY <2>1, <3>3, <3>5, <3>6, <3>7
    <3> QED
      BY <3>8 DEF price
  <2> QED
    BY <2>2, <2>3
<1>2. ASSUME FlowTypeOK, market.spreadP <= 100 * P_SCALE, NEW size \in Size, NEW other \in Size
      PROVE  ExecutesAt(TRUE, oi, size) >= ExecutesAt(FALSE, oi, other)
  <2>1. size \in Nat /\ other \in Nat /\ market.price \in Nat
    BY <1>2, OrderFlowAssumption, MarketTypes
  <2>2. ExecutesAt(TRUE, oi, size) \in Int /\ market.price <= ExecutesAt(TRUE, oi, size)
    BY <1>1, <1>2, <2>1
  <2>3. ExecutesAt(FALSE, oi, other) \in Int /\ ExecutesAt(FALSE, oi, other) <= market.price
    BY <1>1, <1>2, <2>1
  <2> DEFINE bought == ExecutesAt(TRUE, oi, size)
             sold == ExecutesAt(FALSE, oi, other)
  <2>4. bought \in Int /\ sold \in Int /\ sold <= market.price /\ market.price <= bought
    BY <2>2, <2>3
  <2> HIDE DEF bought, sold
  <2>5. bought >= sold
    BY <2>1, <2>4
  <2> QED
    BY <2>5 DEF bought, sold
<1>3. FlowTypeOK => NoFreeRoundTrip
  BY <1>2 DEF NoFreeRoundTrip
<1> QED
  BY <1>3, FlowTyped, PTL

-----------------------------------------------------------------------------
(* Splitting an order.  Were nothing rounded, an order's price would be     *)
(* linear in the middle of it, and the parts of an order would cost what   *)
(* the order does: size * (2 * oi + size) telescopes, being the difference *)
(* of two squares.  What is rounded is bounded order by order, on a scale  *)
(* on which all of it is whole.                                            *)

(* A long's price, on the scale W * H, where the impact is k of t * q / W   *)
(* and the spread r of a * s / H.                                          *)
LEMMA LongBounds ==
    ASSUME NEW W \in Nat, NEW H \in Nat, NEW q \in Nat, NEW k \in Nat, NEW s \in Nat,
           NEW E \in Nat, NEW t \in Nat, NEW r \in Int,
           W * k <= t * q, t * q <= W * k + W * E,
           (q + k) * s <= H * r + H, H * r <= (q + k) * s
    PROVE  /\ (q * (H + s)) * (W + t) - W * ((H + s) * E) - W * H <= (W * H) * (q + k + r)
           /\ (W * H) * (q + k + r) <= (q * (H + s)) * (W + t)
<1> DEFINE U == H + s
           Wa == H * (W * (q + k))
           Was == W * ((q + k) * s)
           Whr == W * (H * r)
           WH == W * H
           Uqw == U * (q * W)
           Uwk == U * (W * k)
           Utq == U * (t * q)
           Uwe == U * (W * E)
<1>1. /\ (q + k) * s \in Int /\ H * r \in Int /\ H * r + H \in Int
      /\ W * k \in Int /\ t * q \in Int /\ W * k + W * E \in Int /\ U \in Nat
  OBVIOUS
<1>2. Whr <= Was /\ Was <= Whr + WH
  <2>1. W * (H * r + H) = Whr + WH
    OBVIOUS
  <2> QED
    BY <1>1, <2>1, TimesBoth
<1>3. Uwk <= Utq /\ Utq <= Uwk + Uwe
  <2>1. U * (W * k + W * E) = Uwk + Uwe
    OBVIOUS
  <2> HIDE DEF U
  <2> QED
    BY <1>1, <2>1, TimesBoth
<1>4. /\ Wa + Was = Uqw + Uwk
      /\ WH * (q + k + r) = Wa + Whr
      /\ (q * U) * (W + t) = Uqw + Utq
      /\ W * (U * E) = Uwe
  OBVIOUS
<1>5. /\ Wa \in Int /\ Was \in Int /\ Whr \in Int /\ WH \in Int /\ Uqw \in Int
      /\ Uwk \in Int /\ Utq \in Int /\ Uwe \in Int
  OBVIOUS
<1> HIDE DEF Wa, Was, Whr, Uqw, Uwk, Utq, Uwe
<1>6. Uqw + Utq - Uwe - WH <= Wa + Whr /\ Wa + Whr <= Uqw + Utq
  <2> HIDE DEF WH, U
  <2> QED
    BY ONLY <1>2, <1>3, <1>4, <1>5
<1> QED
  BY <1>4, <1>6

(* A short's, whose spread can exceed a hundred percent: then the impact    *)
(* moves the price the other way.                                          *)
LEMMA ShortBounds ==
    ASSUME NEW W \in Nat, NEW H \in Nat, NEW q \in Nat, NEW k \in Nat, NEW s \in Nat,
           NEW E \in Nat, NEW t \in Nat, NEW r \in Int,
           W * k <= t * q, t * q <= W * k + W * E,
           (q - k) * s <= H * r + H, H * r <= (q - k) * s + H,
           NEW U \in Int, U = H - s,
           NEW less \in Int, less = IF U < 0 THEN W * (U * E) ELSE 0,
           NEW more \in Int, more = IF U < 0 THEN 0 ELSE W * (U * E)
    PROVE  /\ (q * U) * (W - t) + less - W * H <= (W * H) * (q - k - r)
           /\ (W * H) * (q - k - r) <= (q * U) * (W - t) + more + W * H
<1> DEFINE Wa == H * (W * (q - k))
           Was == W * ((q - k) * s)
           Whr == W * (H * r)
           WH == W * H
           Uqw == U * (q * W)
           Uwk == U * (W * k)
           Utq == U * (t * q)
           Uwe == U * (W * E)
<1>1. /\ (q - k) * s \in Int /\ (q - k) * s + H \in Int /\ H * r \in Int /\ H * r + H \in Int
      /\ W * k \in Int /\ t * q \in Int /\ W * k + W * E \in Int
  OBVIOUS
<1>2. Whr <= Was + WH /\ Was <= Whr + WH
  <2>1. W * (H * r + H) = Whr + WH /\ W * ((q - k) * s + H) = Was + WH
    OBVIOUS
  <2> QED
    BY <1>1, <2>1, TimesBoth
<1>3. /\ U < 0 => Uwk + Uwe <= Utq /\ Utq <= Uwk
      /\ U >= 0 => Uwk <= Utq /\ Utq <= Uwk + Uwe
  <2>1. U * (W * k + W * E) = Uwk + Uwe
    OBVIOUS
  <2>2. ASSUME U >= 0
        PROVE  Uwk <= Utq /\ Utq <= Uwk + Uwe
    <3>1. U \in Nat
      BY <2>2
    <3> QED
      BY <1>1, <2>1, <3>1, TimesBoth
  <2>3. ASSUME U < 0
        PROVE  Uwk + Uwe <= Utq /\ Utq <= Uwk
    <3>1. -U \in Nat
      BY <2>3
    <3>2. /\ (-U) * (W * k) <= (-U) * (t * q)
          /\ (-U) * (t * q) <= (-U) * (W * k + W * E)
      BY <1>1, <3>1, TimesBoth
    <3>3. /\ (-U) * (W * k) = -Uwk /\ (-U) * (t * q) = -Utq
          /\ (-U) * (W * k + W * E) = -(Uwk + Uwe)
      BY <2>1
    <3>4. Uwk \in Int /\ Utq \in Int /\ Uwe \in Int
      OBVIOUS
    <3> QED
      BY <3>2, <3>3, <3>4
  <2> QED
    BY <2>2, <2>3
<1>4. /\ Wa - Was = Uqw - Uwk
      /\ WH * (q - k - r) = Wa - Whr
      /\ (q * U) * (W - t) = Uqw - Utq
      /\ W * (U * E) = Uwe
  OBVIOUS
<1>5. /\ Wa \in Int /\ Was \in Int /\ Whr \in Int /\ WH \in Int /\ Uqw \in Int
      /\ Uwk \in Int /\ Utq \in Int /\ Uwe \in Int
  OBVIOUS
<1> HIDE DEF Wa, Was, Whr, Uqw, Uwk, Utq, Uwe
<1>6. less = (IF U < 0 THEN Uwe ELSE 0) /\ more = (IF U < 0 THEN 0 ELSE Uwe)
  BY <1>4
<1>7. Uqw - Utq + less - WH <= Wa - Whr /\ Wa - Whr <= Uqw - Utq + more + WH
  <2>1. U \in Int
    OBVIOUS
  <2> HIDE DEF WH
  <2> QED
    BY ONLY <1>2, <1>3, <1>4, <1>5, <1>6, <2>1
<1> QED
  BY <1>4, <1>7

(* The width of those bounds, in ticks, for the long and for the short. *)
LEMMA WidthBound ==
    ASSUME NEW W \in Nat, NEW H \in Nat, H > 0, NEW s \in Nat, NEW E \in Nat
    PROVE  LET slack == E + 2 + (E * s) \div H
           IN /\ slack \in Nat
              /\ W * ((H + s) * E) + W * H <= (W * H) * slack
              /\ W * ((H - s) * E) + 2 * (W * H) <= (W * H) * slack
              /\ -(W * ((H - s) * E)) + 2 * (W * H) <= (W * H) * slack
<1> DEFINE Es == E * s
           f == Es \div H
           slack == E + 2 + f
           WH == W * H
           Whe == W * (H * E)
           Wes == W * Es
           Whf == W * (H * f)
<1>1. Es \in Nat
  BY TimesNat
<1>2. f \in Nat /\ Es <= H * f + H
  <2> HIDE DEF Es
  <2> QED
    BY <1>1, FloorDivision, DivNat
<1> HIDE DEF f
<1>3. /\ W * ((H + s) * E) = Whe + Wes
      /\ W * ((H - s) * E) = Whe - Wes
      /\ WH * slack = Whe + 2 * WH + Whf
  BY <1>2
<1>4. Wes <= Whf + WH
  <2>1. W * (H * f + H) = Whf + WH /\ H * f + H \in Int
    BY <1>2
  <2> QED
    BY <1>1, <1>2, <2>1, TimesBoth
<1>5. WH \in Nat /\ Whe \in Nat /\ Wes \in Nat /\ Whf \in Nat
  BY <1>1, <1>2, TimesNat
<1>6. Wes = 0 \/ WH <= Whe
  <2>1. CASE E = 0
    BY <2>1
  <2>2. CASE E # 0
    <3>1. H * 1 <= H * E /\ H * E \in Int /\ H * 1 = H
      BY <2>2, TimesBoth
    <3> QED
      BY <3>1, TimesBoth
  <2> QED
    BY <2>1, <2>2
<1>7. slack \in Nat
  BY <1>2
<1> HIDE DEF WH, Whe, Wes, Whf
<1>8. /\ Whe + Wes + WH <= Whe + 2 * WH + Whf
      /\ Whe - Wes + 2 * WH <= Whe + 2 * WH + Whf
      /\ -(Whe - Wes) + 2 * WH <= Whe + 2 * WH + Whf
  BY ONLY <1>4, <1>5, <1>6
<1> QED
  BY <1>3, <1>7, <1>8 DEF WH, f, Es

RateUnit == 100 * P_SCALE
PriceScale == ImpactScale * RateUnit
SpreadFactor == IF market.isLong THEN RateUnit + market.spreadP ELSE RateUnit - market.spreadP
Tilt == IF market.isLong THEN ImpactSlope ELSE -ImpactSlope

(* PriceScale times the price of an order, were nothing rounded, and the    *)
(* least and the most that rounding adds to it.                            *)
Unrounded(startOi, size) ==
    (market.price * SpreadFactor) * (ImpactScale + Tilt * (2 * startOi + size))

Skew == ImpactScale * (SpreadFactor * ImpactSlack)

Lower == IF market.isLong THEN -Skew - PriceScale
         ELSE (IF SpreadFactor < 0 THEN Skew ELSE 0) - PriceScale

Upper == IF market.isLong THEN 0
         ELSE (IF SpreadFactor < 0 THEN 0 ELSE Skew) + PriceScale

(* The bounds are numbers, no further apart than PriceSlack allows. *)
LEMMA BoundTypes ==
    ASSUME FlowTypeOK
    PROVE  /\ RateUnit \in Nat /\ RateUnit > 0 /\ PriceScale \in Nat /\ PriceScale > 0
           /\ SpreadFactor \in Int /\ Tilt \in Int /\ Skew \in Int /\ Lower \in Int /\ Upper \in Int
           /\ PriceSlack \in Nat /\ Upper - Lower <= PriceScale * PriceSlack
<1> DEFINE W == ImpactScale
           H == RateUnit
           s == market.spreadP
           E == ImpactSlack
<1>1. /\ W \in Nat /\ W > 0 /\ ImpactSlope \in {0, 1} /\ E \in Nat
  BY ImpactTypes
<1>2. H \in Nat /\ H > 0 /\ s \in Nat /\ market.isLong \in BOOLEAN
  BY MarketTypes DEF RateUnit
<1>3. PriceScale = W * H
  BY DEF PriceScale
<1>4. PriceSlack = E + 2 + (E * s) \div H
  BY DEF PriceSlack, RateUnit
<1> HIDE DEF W, H, s, E
<1>5. W * H \in Nat /\ W * H > 0
  BY <1>1, <1>2, TimesNat
<1>6. Tilt \in Int
  BY <1>1, <1>2 DEF Tilt
<1>7. /\ PriceSlack \in Nat
      /\ W * ((H + s) * E) + W * H <= (W * H) * PriceSlack
      /\ W * ((H - s) * E) + 2 * (W * H) <= (W * H) * PriceSlack
      /\ -(W * ((H - s) * E)) + 2 * (W * H) <= (W * H) * PriceSlack
  BY <1>1, <1>2, <1>4, WidthBound
<1> DEFINE most == (W * H) * PriceSlack
           Z == W * H
<1>8. most \in Int /\ Z \in Int
  BY <1>5, <1>7
<1>9. CASE market.isLong
  <2> DEFINE skew == W * ((H + s) * E)
  <2>1. SpreadFactor = H + s
    BY <1>9 DEF SpreadFactor, H, s
  <2>2. Skew = skew /\ skew \in Int
    BY <1>1, <1>2, <2>1 DEF Skew, W, E
  <2>3. skew + Z <= most
    BY <1>7
  <2> HIDE DEF skew, most
  <2>4. Lower = -skew - Z /\ Upper = 0
    BY <1>3, <1>9, <2>2 DEF Lower, Upper
  <2> HIDE DEF Z
  <2>5. Lower \in Int /\ Upper \in Int /\ Upper - Lower <= most
    BY <1>8, <2>2, <2>3, <2>4
  <2> QED
    BY <1>2, <1>3, <1>5, <1>6, <1>7, <2>1, <2>2, <2>5 DEF H, most, Z
<1>10. CASE ~market.isLong
  <2> DEFINE skew == W * ((H - s) * E)
  <2>1. SpreadFactor = H - s
    BY <1>10 DEF SpreadFactor, H, s
  <2>2. Skew = skew /\ skew \in Int
    BY <1>1, <1>2, <2>1 DEF Skew, W, E
  <2>3. skew + 2 * Z <= most /\ -skew + 2 * Z <= most
    BY <1>7
  <2> HIDE DEF skew, most
  <2>4. /\ Lower = (IF SpreadFactor < 0 THEN skew ELSE 0) - Z
        /\ Upper = (IF SpreadFactor < 0 THEN 0 ELSE skew) + Z
    BY <1>3, <1>10, <2>2 DEF Lower, Upper
  <2> HIDE DEF Z
  <2>5. Lower \in Int /\ Upper \in Int /\ Upper - Lower <= most
    BY <1>8, <2>2, <2>3, <2>4
  <2> QED
    BY <1>2, <1>3, <1>5, <1>6, <1>7, <2>1, <2>2, <2>5 DEF H, most, Z
<1> QED
  BY <1>2, <1>9, <1>10

(* An order is executed within those bounds of the unrounded price. *)
LEMMA ExecutionBounds ==
    ASSUME FlowTypeOK, NEW startOi \in Nat, NEW size \in Nat
    PROVE  LET price == ExecutesAt(market.isLong, startOi, size)
           IN /\ price \in Int /\ Unrounded(startOi, size) \in Int
              /\ Unrounded(startOi, size) + Lower <= PriceScale * price
              /\ PriceScale * price <= Unrounded(startOi, size) + Upper
<1> DEFINE W == ImpactScale
           H == RateUnit
           s == market.spreadP
           E == ImpactSlack
           U == SpreadFactor
           q == market.price
           twice == 2 * startOi + size
           t == ImpactSlope * twice
           price == ExecutesAt(market.isLong, startOi, size)
           Spread(a) == SpreadOn(a, s, P_SCALE)
<1>1. /\ W \in Nat /\ W > 0 /\ ImpactSlope \in {0, 1} /\ E \in Nat
  BY ImpactTypes
<1>2. /\ q \in Nat /\ s \in Nat /\ market.isLong \in BOOLEAN /\ P_SCALE \in Nat /\ P_SCALE > 0
      /\ H \in Nat /\ U \in Int /\ H = 100 * P_SCALE /\ PriceScale = W * H
  BY MarketTypes, BoundTypes DEF RateUnit, PriceScale
<1>3. twice \in Nat /\ t \in Nat
  BY <1>1
<1>4. PICK k \in Nat :
          /\ PriceAfterImpact(q, market.isLong, startOi, size, market.depth)
               = Against(q, k, market.isLong)
          /\ W * k <= ImpactSlope * (twice * q)
          /\ ImpactSlope * (twice * q) <= W * k + W * E
  BY <1>2, ImpactedIs
<1>5. W * k <= t * q /\ t * q <= W * k + W * E
  <2>1. ImpactSlope * (twice * q) = t * q
    BY <1>1, <1>2, <1>3
  <2> QED
    BY <1>4, <2>1
<1>6. ASSUME NEW a \in Int
      PROVE  /\ Spread(a) \in Int
             /\ a * s <= H * Spread(a) + H /\ H * Spread(a) <= a * s + H
             /\ a >= 0 => H * Spread(a) <= a * s
  <2> DEFINE r == Spread(a)
  <2>1. /\ r \in Int /\ a * s < 100 * (P_SCALE * r) + 100 * P_SCALE
        /\ 100 * (P_SCALE * r) < a * s + 100 * P_SCALE
        /\ a >= 0 => 100 * (P_SCALE * r) <= a * s
    <3>1. a \in Int /\ s \in Nat /\ P_SCALE \in Nat /\ P_SCALE > 0
      BY <1>2
    <3> HIDE DEF s
    <3>2. r = SpreadOn(a, s, P_SCALE)
      OBVIOUS
    <3> HIDE DEF r
    <3> QED
      BY <3>1, <3>2, SpreadBounds
  <2> HIDE DEF r, s
  <2>2. H * r = 100 * (P_SCALE * r) /\ P_SCALE * r \in Int /\ a * s \in Int
    BY <1>2, <2>1
  <2>3. /\ r \in Int /\ a * s <= H * r + H /\ H * r <= a * s + H
        /\ a >= 0 => H * r <= a * s
    <3> HIDE DEF H
    <3> QED
      BY <1>2, <2>1, <2>2
  <2> QED
    BY <2>3 DEF r
<1>7. CASE market.isLong
  <2> DEFINE a == q + k
             r == Spread(a)
  <2>1. PriceAfterImpact(q, market.isLong, startOi, size, market.depth) = a
    BY <1>4, <1>7 DEF Against
  <2>2. price = a + r
    BY <1>7, <2>1 DEF ExecutesAt, ExecutionPrice, ApplySpread, Against, MulDivFloor,
       SpreadOn
  <2>3. a \in Int /\ a >= 0
    BY <1>2
  <2>4. r \in Int /\ a * s <= H * r + H /\ H * r <= a * s
    BY <1>6, <2>3
  <2> HIDE DEF Spread, price
  <2>5. U = H + s /\ Tilt * twice = t
    BY <1>7 DEF SpreadFactor, Tilt
  <2>6. /\ Skew = W * ((H + s) * E) /\ Lower = -Skew - W * H /\ Upper = 0
    BY <1>2, <1>7, <2>5 DEF Skew, Lower, Upper
  <2>7. Unrounded(startOi, size) = (q * (H + s)) * (W + t)
    BY <2>5 DEF Unrounded
  <2>8. /\ (q * (H + s)) * (W + t) - W * ((H + s) * E) - W * H <= (W * H) * (q + k + r)
        /\ (W * H) * (q + k + r) <= (q * (H + s)) * (W + t)
    <3> HIDE DEF W, H, s, E, U, q, t, r
    <3> QED
      BY <1>1, <1>2, <1>3, <1>5, <2>4, LongBounds
  <2>9. /\ (q * (H + s)) * (W + t) \in Int /\ W * ((H + s) * E) \in Int /\ W * H \in Int
        /\ price \in Int
    <3> HIDE DEF W, H, s, E, U, q, t, r
    <3> QED
      BY <1>1, <1>2, <1>3, <2>2, <2>3, <2>4
  <2> DEFINE line == (q * (H + s)) * (W + t)
             skew == W * ((H + s) * E)
             unit == W * H
             scaled == (W * H) * (q + k + r)
  <2>10. scaled = PriceScale * price /\ scaled \in Int
    <3>1. scaled = PriceScale * price
      BY <1>2, <2>2
    <3>2. PriceScale \in Int
      BY BoundTypes
    <3> QED
      BY <2>9, <3>1, <3>2
  <2>11. line - skew - unit <= scaled /\ scaled <= line /\ line \in Int /\ skew \in Int
         /\ unit \in Int /\ Unrounded(startOi, size) = line
         /\ Lower = -skew - unit /\ Upper = 0
    BY <2>6, <2>7, <2>8, <2>9
  <2> HIDE DEF line, skew, unit, scaled
  <2>12. line + Lower <= scaled /\ scaled <= line + Upper
    BY <2>10, <2>11
  <2> QED
    BY <2>9, <2>10, <2>11, <2>12 DEF price
<1>8. CASE ~market.isLong
  <2> DEFINE a == q - k
             r == Spread(a)
  <2>1. PriceAfterImpact(q, market.isLong, startOi, size, market.depth) = a
    BY <1>4, <1>8 DEF Against
  <2>2. price = a - r
    BY <1>8, <2>1 DEF ExecutesAt, ExecutionPrice, ApplySpread, Against, MulDivFloor,
       SpreadOn
  <2>3. a \in Int
    BY <1>2
  <2>4. r \in Int /\ a * s <= H * r + H /\ H * r <= a * s + H
    BY <1>6, <2>3
  <2> HIDE DEF Spread, price
  <2>5. U = H - s /\ Tilt = -ImpactSlope
    BY <1>8 DEF SpreadFactor, Tilt
  <2>6. W + Tilt * twice = W - t
    BY <1>1, <1>3, <2>5
  <2> DEFINE skew == W * (U * E)
             less == IF U < 0 THEN skew ELSE 0
             more == IF U < 0 THEN 0 ELSE skew
             line == (q * U) * (W - t)
             unit == W * H
             scaled == (W * H) * (q - k - r)
  <2>7. skew \in Int /\ line \in Int /\ unit \in Int /\ price \in Int
    <3> HIDE DEF W, H, s, E, U, q, t, r
    <3> QED
      BY <1>1, <1>2, <1>3, <2>2, <2>3, <2>4
  <2>8. /\ Skew = skew /\ Lower = less - unit /\ Upper = more + unit
    BY <1>2, <1>8 DEF Skew, Lower, Upper
  <2>9. Unrounded(startOi, size) = line
    BY <2>6 DEF Unrounded
  <2>10. less \in Int /\ more \in Int
    BY <2>7
  <2>11. line + less - unit <= scaled /\ scaled <= line + more + unit
    <3>1. less = (IF U < 0 THEN W * (U * E) ELSE 0) /\ more = (IF U < 0 THEN 0 ELSE W * (U * E))
      OBVIOUS
    <3> HIDE DEF W, H, s, E, U, q, t, r, less, more
    <3> QED
      BY <1>1, <1>2, <1>3, <1>5, <2>4, <2>5, <2>10, <3>1, ShortBounds
  <2>12. scaled = PriceScale * price /\ scaled \in Int
    <3>1. scaled = PriceScale * price
      BY <1>2, <2>2
    <3>2. PriceScale \in Int
      BY BoundTypes
    <3> QED
      BY <2>7, <3>1, <3>2
  <2> HIDE DEF line, unit, scaled, less, more
  <2>13. line + Lower <= scaled /\ scaled <= line + Upper
    BY <2>7, <2>8, <2>10, <2>11, <2>12
  <2> QED
    BY <2>7, <2>9, <2>12, <2>13 DEF price
<1> QED
  BY <1>2, <1>7, <1>8

(* The inductive invariant: what was paid, on that scale, is within the     *)
(* bounds of what filling it all at once would cost, were nothing rounded. *)
Filled == oi - market.startOi
AtOnceUnrounded ==
    (market.price * SpreadFactor)
        * (ImpactScale * Filled + Tilt * (oi * oi - market.startOi * market.startOi))

SplitInv ==
    /\ paid \in Int
    /\ AtOnceUnrounded + Lower * Filled <= PriceScale * paid
    /\ PriceScale * paid <= AtOnceUnrounded + Upper * Filled

(* One more order adds its own line to that of those before. *)
LEMMA LinesAdd ==
    ASSUME NEW c \in Int, NEW W \in Int, NEW g \in Int, NEW start \in Int, NEW open \in Int,
           NEW size \in Int
    PROVE  c * (W * (open + size - start) + g * ((open + size) * (open + size) - start * start))
             = c * (W * (open - start) + g * (open * open - start * start))
               + size * (c * (W + g * (2 * open + size)))
<1>1. (open + size) * (open + size) = open * open + size * (2 * open + size)
  OBVIOUS
<1> DEFINE squares == open * open
           more == size * (2 * open + size)
           less == start * start
           line == 2 * open + size
<1>2. W * (open + size - start) = W * (open - start) + size * W
  OBVIOUS
<1>3. squares \in Int /\ more \in Int /\ less \in Int /\ line \in Int
      /\ more = size * line
  OBVIOUS
<1> HIDE DEF squares, more, less, line
<1>4. g * (squares + more - less) = g * (squares - less) + size * (g * line)
  BY <1>3
<1> DEFINE x == W * (open - start)
           y == g * (squares - less)
           z == g * line
<1>5. x \in Int /\ y \in Int /\ z \in Int
  BY <1>3
<1> HIDE DEF x, y, z
<1>6. c * ((x + size * W) + (y + size * z)) = c * (x + y) + size * (c * (W + z))
  BY <1>5
<1> QED
  BY <1>1, <1>2, <1>4, <1>6 DEF x, y, z, squares, more, less, line

(* Amounts of an order within its bounds, and of them all. *)
LEMMA BoundsAdd ==
    ASSUME NEW low \in Int, NEW high \in Int, NEW Z \in Int, NEW before \in Int, NEW spent \in Int,
           NEW filled \in Int, NEW line \in Int, NEW price \in Int, NEW size \in Nat,
           before + low * filled <= Z * spent, Z * spent <= before + high * filled,
           line + low <= Z * price, Z * price <= line + high
    PROVE  /\ before + size * line + low * (filled + size) <= Z * (spent + size * price)
           /\ Z * (spent + size * price) <= before + size * line + high * (filled + size)
<1> DEFINE lf == low * filled
           ls == size * low
           hf == high * filled
           hs == size * high
           sl == size * line
           zs == Z * spent
           szp == size * (Z * price)
<1>1. sl + ls <= szp /\ szp <= sl + hs
  <2>1. size * (line + low) = sl + ls /\ size * (line + high) = sl + hs
    OBVIOUS
  <2>2. line + low \in Int /\ line + high \in Int /\ Z * price \in Int
    OBVIOUS
  <2> QED
    BY <2>1, <2>2, TimesBoth
<1>2. /\ low * (filled + size) = lf + ls /\ high * (filled + size) = hf + hs
      /\ Z * (spent + size * price) = zs + szp
  OBVIOUS
<1>3. /\ lf \in Int /\ ls \in Int /\ hf \in Int /\ hs \in Int /\ sl \in Int /\ zs \in Int
      /\ szp \in Int /\ before + lf <= zs /\ zs <= before + hf
  OBVIOUS
<1> HIDE DEF lf, ls, hf, hs, sl, zs, szp
<1>4. before + sl + (lf + ls) <= zs + szp /\ zs + szp <= before + sl + (hf + hs)
  BY <1>1, <1>3
<1> QED
  BY <1>2, <1>4 DEF sl

(* It holds of every flow of orders. *)
LEMMA SplitInvHolds == FlowSpec => [](FlowTypeOK /\ SplitInv)
<1>1. FlowInit => FlowTypeOK /\ SplitInv
  <2> SUFFICES ASSUME FlowInit PROVE FlowTypeOK /\ SplitInv
    OBVIOUS
  <2>1. FlowTypeOK
    BY OrderFlowAssumption DEF FlowInit, FlowTypeOK, Market
  <2>2. oi = market.startOi /\ paid = 0 /\ market.startOi \in Int
    BY <2>1, MarketTypes DEF FlowInit
  <2>3. Filled = 0 /\ oi * oi - market.startOi * market.startOi = 0
    BY <2>2 DEF Filled
  <2>4. /\ market.price * SpreadFactor \in Int /\ ImpactScale \in Int /\ Tilt \in Int
        /\ Lower \in Int /\ Upper \in Int /\ PriceScale \in Int
    <3>1. market.price \in Int /\ SpreadFactor \in Int
      BY <2>1, MarketTypes, BoundTypes
    <3> QED
      BY <2>1, <3>1, BoundTypes, ImpactTypes
  <2>5. AtOnceUnrounded = 0
    BY <2>3, <2>4 DEF AtOnceUnrounded
  <2> QED
    BY <2>1, <2>2, <2>3, <2>4, <2>5 DEF SplitInv
<1>2. FlowTypeOK /\ SplitInv /\ [FlowStep]_flowVars => SplitInv'
  <2> SUFFICES ASSUME FlowTypeOK, SplitInv, [FlowStep]_flowVars PROVE SplitInv'
    OBVIOUS
  <2>1. CASE UNCHANGED flowVars
    BY <2>1 DEF SplitInv, flowVars, AtOnceUnrounded, Filled, Lower, Upper, PriceScale, Skew,
                SpreadFactor, Tilt, RateUnit, ImpactScale, ImpactSlope, ImpactSlack
  <2>2. CASE FlowStep
    <3>1. PICK size \in Size : Fill(size)
      BY <2>2 DEF FlowStep
    <3> DEFINE price == ExecutesAt(market.isLong, oi, size)
               start == market.startOi
               c == market.price * SpreadFactor
    <3>2. market' = market /\ oi' = oi + size /\ paid' = paid + size * price
      BY <3>1 DEF Fill
    <3>3. size \in Nat /\ oi \in Nat /\ start \in Nat /\ c \in Int /\ paid \in Int
      BY OrderFlowAssumption, MarketTypes, BoundTypes DEF SplitInv
    <3>4. /\ ImpactScale \in Int /\ Tilt \in Int /\ Lower \in Int /\ Upper \in Int
          /\ PriceScale \in Int
      BY ImpactTypes, BoundTypes
    <3>5. /\ ImpactScale' = ImpactScale /\ Tilt' = Tilt /\ Lower' = Lower /\ Upper' = Upper
          /\ PriceScale' = PriceScale /\ SpreadFactor' = SpreadFactor
      BY <3>2 DEF Lower, Upper, PriceScale, Skew, SpreadFactor, Tilt, RateUnit, ImpactScale,
                  ImpactSlope, ImpactSlack
    <3>6. /\ price \in Int /\ Unrounded(oi, size) \in Int
          /\ Unrounded(oi, size) + Lower <= PriceScale * price
          /\ PriceScale * price <= Unrounded(oi, size) + Upper
      BY <3>3, ExecutionBounds
    <3> HIDE DEF price
    <3>7. Filled \in Int /\ Filled' = Filled + size
      BY <3>2, <3>3 DEF Filled
    <3>8. AtOnceUnrounded \in Int /\ AtOnceUnrounded' = AtOnceUnrounded + size * Unrounded(oi, size)
      <4>1. AtOnceUnrounded = c * (ImpactScale * (oi - start) + Tilt * (oi * oi - start * start))
        BY DEF AtOnceUnrounded, Filled
      <4> DEFINE opened == oi + size
      <4>2. AtOnceUnrounded' =
                (market'.price * SpreadFactor')
                  * (ImpactScale' * (oi' - market'.startOi)
                       + Tilt' * (oi' * oi' - market'.startOi * market'.startOi))
        BY DEF AtOnceUnrounded, Filled
      <4>3. market'.price = market.price /\ market'.startOi = start /\ oi' = opened
        BY <3>2
      <4>4. market'.price * SpreadFactor' = c
        BY <3>5, <4>3
      <4>5. Unrounded(oi, size) = c * (ImpactScale + Tilt * (2 * oi + size))
        BY DEF Unrounded
      <4> HIDE DEF c, start, opened
      <4>6. AtOnceUnrounded' = c * (ImpactScale * (opened - start)
                                      + Tilt * (opened * opened - start * start))
        BY ONLY <3>5, <4>2, <4>3, <4>4
      <4>7. c * (ImpactScale * (oi - start) + Tilt * (oi * oi - start * start)) \in Int
        BY <3>3, <3>4
      <4> QED
        BY <3>3, <3>4, <4>1, <4>5, <4>6, <4>7, LinesAdd DEF opened
    <3>9. /\ AtOnceUnrounded + Lower * Filled <= PriceScale * paid
          /\ PriceScale * paid <= AtOnceUnrounded + Upper * Filled
      BY DEF SplitInv
    <3> DEFINE all == AtOnceUnrounded + size * Unrounded(oi, size)
    <3>10. /\ all + Lower * (Filled + size) <= PriceScale * (paid + size * price)
           /\ PriceScale * (paid + size * price) <= all + Upper * (Filled + size)
      BY <3>3, <3>4, <3>6, <3>7, <3>8, <3>9, BoundsAdd
    <3>11. paid' \in Int
      BY <3>2, <3>3, <3>6
    <3> QED
      BY <3>2, <3>5, <3>7, <3>8, <3>10, <3>11 DEF SplitInv
  <2> QED
    BY <2>1, <2>2
<1> QED
  BY <1>1, <1>2, FlowTypeStep, PTL DEF FlowSpec

(* SplittingGainsNothingTheorem: in any market and in any number of parts,  *)
(* an amount costs what it costs at once, but for PriceSlack a unit.       *)
THEOREM SplittingGainsNothingTheorem == FlowSpec => []SplittingGainsNothing
<1>1. ASSUME FlowTypeOK, SplitInv, Filled > 0
      PROVE  LET atOnce == Filled * ExecutesAt(market.isLong, market.startOi, Filled)
             IN /\ paid <= atOnce + PriceSlack * Filled
                /\ atOnce <= paid + PriceSlack * Filled
  <2> DEFINE start == market.startOi
             price == ExecutesAt(market.isLong, start, Filled)
             c == market.price * SpreadFactor
             line == Unrounded(start, Filled)
  <2>1. /\ oi \in Nat /\ start \in Nat /\ c \in Int /\ paid \in Int /\ Filled \in Nat
        /\ oi = start + Filled
    BY <1>1, MarketTypes, BoundTypes DEF SplitInv, Filled
  <2>2. /\ ImpactScale \in Int /\ Tilt \in Int /\ Lower \in Int /\ Upper \in Int
        /\ PriceScale \in Nat /\ PriceScale > 0 /\ PriceSlack \in Nat
        /\ Upper - Lower <= PriceScale * PriceSlack
    BY <1>1, ImpactTypes, BoundTypes
  <2>3. /\ price \in Int /\ line \in Int /\ line + Lower <= PriceScale * price
        /\ PriceScale * price <= line + Upper
    BY <1>1, <2>1, ExecutionBounds
  <2>4. AtOnceUnrounded = Filled * line
    <3>1. AtOnceUnrounded = c * (ImpactScale * (start + Filled - start)
                              + Tilt * ((start + Filled) * (start + Filled) - start * start))
      BY <2>1 DEF AtOnceUnrounded, Filled
    <3>2. line = c * (ImpactScale + Tilt * (2 * start + Filled))
      BY DEF Unrounded
    <3>3. c * (ImpactScale * (start - start) + Tilt * (start * start - start * start)) = 0
      <4> HIDE DEF c
      <4> QED
        BY <2>1, <2>2
    <3> HIDE DEF c, start, line
    <3>4. Filled * (c * (ImpactScale + Tilt * (2 * start + Filled))) \in Int
      BY <2>1, <2>2
    <3> QED
      BY <2>1, <2>2, <3>1, <3>2, <3>3, <3>4, LinesAdd
  <2>5. /\ Filled * line + Lower * Filled <= PriceScale * paid
        /\ PriceScale * paid <= Filled * line + Upper * Filled
    BY <1>1, <2>4 DEF SplitInv
  <2> HIDE DEF price, line
  <2> DEFINE x == Filled * line
             lf == Lower * Filled
             uf == Upper * Filled
             zp == PriceScale * paid
             za == PriceScale * (Filled * price)
             zs == PriceScale * (PriceSlack * Filled)
  <2>6. x + lf <= za /\ za <= x + uf
    <3>1. /\ Filled * (line + Lower) <= Filled * (PriceScale * price)
          /\ Filled * (PriceScale * price) <= Filled * (line + Upper)
      <4>1. line + Lower \in Int /\ line + Upper \in Int /\ PriceScale * price \in Int
        BY <2>2, <2>3
      <4> QED
        BY <2>1, <2>3, <4>1, TimesBoth
    <3>2. /\ Filled * (line + Lower) = x + lf /\ Filled * (line + Upper) = x + uf
          /\ Filled * (PriceScale * price) = za
      BY <2>1, <2>2, <2>3
    <3> QED
      BY <3>1, <3>2
  <2>7. uf - lf <= zs
    <3>1. Filled * (Upper - Lower) <= Filled * (PriceScale * PriceSlack)
      <4>1. Upper - Lower \in Int /\ PriceScale * PriceSlack \in Int
        BY <2>2
      <4> QED
        BY <2>1, <2>2, <4>1, TimesBoth
    <3>2. Filled * (Upper - Lower) = uf - lf /\ Filled * (PriceScale * PriceSlack) = zs
      BY <2>1, <2>2
    <3> QED
      BY <3>1, <3>2
  <2>8. /\ x \in Int /\ lf \in Int /\ uf \in Int /\ zp \in Int /\ za \in Int /\ zs \in Int
        /\ x + lf <= zp /\ zp <= x + uf
    BY <2>1, <2>2, <2>3, <2>5
  <2>9. zp <= za + zs /\ za <= zp + zs
    <3> HIDE DEF x, lf, uf, zp, za, zs
    <3> QED
      BY <2>6, <2>7, <2>8
  <2>10. /\ PriceScale * (Filled * price + PriceSlack * Filled) = za + zs
         /\ PriceScale * (paid + PriceSlack * Filled) = zp + zs
    BY <2>1, <2>2, <2>3
  <2>11. /\ Filled * price \in Int /\ Filled * price + PriceSlack * Filled \in Int
         /\ paid + PriceSlack * Filled \in Int
    BY <2>1, <2>2, <2>3
  <2>12. paid <= Filled * price + PriceSlack * Filled
    BY <2>1, <2>2, <2>9, <2>10, <2>11, TimesBoth
  <2>13. Filled * price <= paid + PriceSlack * Filled
    BY <2>1, <2>2, <2>9, <2>10, <2>11, TimesBoth
  <2> QED
    BY <2>12, <2>13 DEF price
<1>2. FlowTypeOK /\ SplitInv => SplittingGainsNothing
  BY <1>1 DEF SplittingGainsNothing, Filled
<1> QED
  BY <1>2, SplitInvHolds, PTL
=============================================================================
