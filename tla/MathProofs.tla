----------------------------- MODULE MathProofs -----------------------------
(***************************************************************************)
(* Lemmas about the operators the models are built from: what Total of a   *)
(* function does when the function is updated, and what the two integer    *)
(* divisions keep, bound and lose.                                         *)
(***************************************************************************)
EXTENDS Totals, FixedPoint, FiniteSetTheorems, TLAPS

(* The units of one element are as many as the function says. *)
LEMMA UnitsOfElement ==
    ASSUME NEW S, NEW f \in [S -> Nat], NEW x \in S
    PROVE  IsFiniteSet(UnitsOf(f, x)) /\ Cardinality(UnitsOf(f, x)) = f[x]
<1>1. IsFiniteSet({x}) /\ Cardinality({x}) = 1
  BY FS_Singleton
<1>2. f[x] \in Nat
  OBVIOUS
<1>3. IsFiniteSet(1 .. f[x]) /\ Cardinality(1 .. f[x]) = f[x]
  BY <1>2, FS_Interval, 1 \in Int, f[x] \in Int
<1>4. IsFiniteSet({x} \X (1 .. f[x]))
      /\ Cardinality({x} \X (1 .. f[x])) = Cardinality({x}) * Cardinality(1 .. f[x])
  BY <1>1, <1>3, FS_Product
<1> QED
  BY <1>1, <1>2, <1>3, <1>4 DEF UnitsOf

(* Over a finite domain there are finitely many units. *)
LEMMA UnitsFinite ==
    ASSUME NEW S, IsFiniteSet(S), NEW f \in [S -> Nat]
    PROVE  IsFiniteSet(Units(f)) /\ Total(f) \in Nat
<1> DEFINE Parts == {UnitsOf(f, x) : x \in S}
           part == [x \in S |-> UnitsOf(f, x)]
<1>1. part \in Surjection(S, Parts)
  BY DEF Surjection
<1>2. IsFiniteSet(Parts)
  BY <1>1, FS_Surjection
<1>3. \A T \in Parts : IsFiniteSet(T)
  BY UnitsOfElement
<1>4. IsFiniteSet(UNION Parts)
  BY <1>2, <1>3, FS_UNION
<1>5. Units(f) = UNION Parts
  BY DEF Units
<1> QED
  BY <1>4, <1>5, FS_CardinalityType DEF Total

(* Two functions that differ in one element have totals that differ by as  *)
(* much as the element does.                                               *)
LEMMA TotalUpdate ==
    ASSUME NEW S, IsFiniteSet(S), NEW f \in [S -> Nat], NEW g \in [S -> Nat], NEW x \in S,
           \A y \in S \ {x} : g[y] = f[y]
    PROVE  Total(g) = Total(f) - f[x] + g[x]
<1> DEFINE Rest(h) == UNION {UnitsOf(h, y) : y \in S \ {x}}
<1>1. ASSUME NEW h \in [S -> Nat]
      PROVE  /\ IsFiniteSet(Rest(h))
             /\ Total(h) = Cardinality(Rest(h)) + h[x]
  <2>1. Units(h) = Rest(h) \cup UnitsOf(h, x)
    BY DEF Units
  <2>2. Rest(h) \cap UnitsOf(h, x) = {}
    BY DEF UnitsOf
  <2>3. IsFiniteSet(Units(h))
    BY UnitsFinite
  <2>4. IsFiniteSet(Rest(h))
    BY <2>1, <2>3, FS_Subset
  <2>5. IsFiniteSet(UnitsOf(h, x)) /\ Cardinality(UnitsOf(h, x)) = h[x]
    BY UnitsOfElement
  <2>6. Cardinality(Rest(h) \cup UnitsOf(h, x))
            = Cardinality(Rest(h)) + Cardinality(UnitsOf(h, x)) - Cardinality({})
    BY <2>2, <2>4, <2>5, FS_Union
  <2>7. Cardinality({}) = 0 /\ Cardinality(Rest(h)) \in Nat /\ h[x] \in Nat
    BY <2>4, FS_EmptySet, FS_CardinalityType
  <2> QED
    BY <2>1, <2>4, <2>5, <2>6, <2>7 DEF Total
<1>2. Rest(g) = Rest(f)
  BY DEF UnitsOf
<1>3. Cardinality(Rest(f)) \in Nat /\ f[x] \in Nat /\ g[x] \in Nat
  BY <1>1, FS_CardinalityType
<1>4. Total(f) = Cardinality(Rest(f)) + f[x]
  BY <1>1
<1>5. Total(g) = Cardinality(Rest(f)) + g[x]
  BY <1>1, <1>2
<1> HIDE DEF Rest
<1> QED
  BY <1>3, <1>4, <1>5

(* No element exceeds the total, and the total of nothing is zero. *)
LEMMA TotalBounds ==
    ASSUME NEW S, IsFiniteSet(S), NEW f \in [S -> Nat]
    PROVE  /\ \A x \in S : f[x] <= Total(f)
           /\ (\A x \in S : f[x] = 0) => Total(f) = 0
<1>1. IsFiniteSet(Units(f))
  BY UnitsFinite
<1>2. ASSUME NEW x \in S
      PROVE  f[x] <= Total(f)
  <2>1. UnitsOf(f, x) \in SUBSET Units(f)
    BY DEF Units
  <2>2. Cardinality(UnitsOf(f, x)) <= Cardinality(Units(f))
    BY <1>1, <2>1, FS_Subset
  <2> QED
    BY <2>2, UnitsOfElement DEF Total
<1>3. ASSUME \A x \in S : f[x] = 0
      PROVE  Total(f) = 0
  <2>1. \A x \in S : UnitsOf(f, x) = {}
    BY <1>3 DEF UnitsOf
  <2>2. Units(f) = {}
    BY <2>1 DEF Units
  <2> QED
    BY <2>2, FS_EmptySet DEF Total
<1> QED
  BY <1>2, <1>3

-----------------------------------------------------------------------------
(* Floor division, and what it loses when an interval is split in two.      *)
LEMMA FloorDivision ==
    ASSUME NEW a \in Int, NEW b \in Int, b > 0
    PROVE  a \div b \in Int /\ b * (a \div b) <= a /\ a < b * (a \div b) + b
OBVIOUS

LEMMA DivNat ==
    ASSUME NEW a \in Nat, NEW b \in Int, b > 0
    PROVE  a \div b \in Nat
OBVIOUS

LEMMA DivSplit ==
    ASSUME NEW a \in Int, NEW b \in Int, NEW d \in Int, d > 0
    PROVE  /\ (a \div d) + (b \div d) <= (a + b) \div d
           /\ (a + b) \div d <= (a \div d) + (b \div d) + 1
OBVIOUS

(* Floor division keeps the order. *)
LEMMA DivMonotone ==
    ASSUME NEW a \in Int, NEW b \in Int, NEW d \in Int, d > 0, a <= b
    PROVE  a \div d <= b \div d
OBVIOUS

(* The product of natural numbers is one, which the solver wants spelt out. *)
LEMMA TimesNat == ASSUME NEW a \in Nat, NEW b \in Nat PROVE a * b \in Nat
OBVIOUS

(* A larger factor makes a larger product. *)
LEMMA TimesMonotone ==
    ASSUME NEW a \in Nat, NEW b \in Nat, NEW c \in Nat, c <= b
    PROVE  a * b >= a * c
OBVIOUS

(* A truncated hundredth, a hundred times, is at most a bound that is not   *)
(* negative if the number is.                                              *)
LEMMA HundredthBounded ==
    ASSUME NEW x \in Int, NEW bound \in Nat, x <= bound
    PROVE  DivTrunc(x, 100) \in Int /\ DivTrunc(x, 100) * 100 <= bound
BY DEF DivTrunc

(* Truncating division keeps the order too, across zero. *)
LEMMA TruncMonotone ==
    ASSUME NEW a \in Int, NEW b \in Int, NEW d \in Int, d > 0, a <= b
    PROVE  DivTrunc(a, d) \in Int /\ DivTrunc(b, d) \in Int /\ DivTrunc(a, d) <= DivTrunc(b, d)
<1>1. CASE a >= 0
  BY <1>1, DivMonotone, FloorDivision DEF DivTrunc
<1>2. CASE b < 0
  <2>1. -b <= -a /\ -b \in Int /\ -a \in Int
    BY <1>2
  <2>2. (-b) \div d <= (-a) \div d /\ (-b) \div d \in Int /\ (-a) \div d \in Int
    BY <2>1, DivMonotone, FloorDivision
  <2> QED
    BY <1>2, <2>2 DEF DivTrunc
<1>3. CASE a < 0 /\ b >= 0
  <2>1. (-a) \div d \in Nat /\ b \div d \in Nat
    BY <1>3, DivNat
  <2> QED
    BY <1>3, <2>1 DEF DivTrunc
<1> QED
  BY <1>1, <1>2, <1>3

(* An inequality between integers may be multiplied by a natural number.    *)
LEMMA TimesOrder ==
    ASSUME NEW a \in Int, NEW b \in Int, NEW n \in Nat, a <= b
    PROVE  a * n \in Int /\ b * n \in Int /\ a * n <= b * n
<1>1. b - a \in Nat
  OBVIOUS
<1>2. (b - a) * n \in Nat
  BY <1>1, TimesNat
<1>3. b * n = a * n + (b - a) * n
  BY <1>1
<1> QED
  BY <1>2, <1>3

(* A whole number of divisors is in a number if it fits under it.           *)
LEMMA DivAtLeast ==
    ASSUME NEW a \in Int, NEW d \in Int, d > 0, NEW q \in Int
    PROVE  /\ d * q <= a => q <= a \div d
           /\ a < d * q + d => a \div d <= q
<1> DEFINE f == a \div d
<1>1. f \in Int /\ d * f <= a /\ a < d * f + d
  BY FloorDivision
<1> HIDE DEF f
<1>2. ASSUME f < q PROVE d * f + d <= d * q
  <2>1. PICK gap \in Nat : q = f + 1 + gap
    <3>1. q - f - 1 \in Nat /\ q = f + 1 + (q - f - 1)
      BY <1>1, <1>2
    <3> QED
      BY <3>1
  <2>2. d * gap >= 0 /\ d * q = d * f + d + d * gap
    BY <1>1, <2>1
  <2> QED
    BY <1>1, <2>2
<1>3. ASSUME q < f PROVE d * q + d <= d * f
  <2>1. PICK gap \in Nat : f = q + 1 + gap
    <3>1. f - q - 1 \in Nat /\ f = q + 1 + (f - q - 1)
      BY <1>1, <1>3
    <3> QED
      BY <3>1
  <2>2. d * gap >= 0 /\ d * f = d * q + d + d * gap
    BY <1>1, <2>1
  <2> QED
    BY <1>1, <2>2
<1>4. d * q \in Int /\ d * f \in Int
  BY <1>1
<1> QED
  BY <1>1, <1>2, <1>3, <1>4 DEF f

(* Dividing twice is dividing by the product. *)
LEMMA DivTwice ==
    ASSUME NEW a \in Nat, NEW b \in Nat, b > 0, NEW d \in Nat, d > 0
    PROVE  (a \div b) \div d = a \div (b * d)
<1> DEFINE f == a \div b
           g == f \div d
           n == b * d
<1>1. n \in Nat /\ n > 0
  BY TimesNat
<1>2. f \in Nat /\ b * f <= a /\ a < b * f + b
  BY FloorDivision, DivNat
<1> HIDE DEF f
<1>3. g \in Nat /\ d * g <= f /\ f < d * g + d
  BY <1>2, FloorDivision, DivNat
<1> HIDE DEF g
<1>4. n * g <= a
  <2>1. b * (d * g) <= b * f
    BY <1>2, <1>3, TimesNat, TimesMonotone
  <2>2. b * (d * g) = n * g
    BY <1>3
  <2> QED
    BY <1>1, <1>2, <1>3, <2>1, <2>2
<1>5. a < n * g + n
  <2>1. f + 1 \in Nat /\ d * g + d \in Nat /\ f + 1 <= d * g + d
    BY <1>2, <1>3, TimesNat
  <2>2. b * (f + 1) <= b * (d * g + d)
    BY <2>1, TimesMonotone
  <2>3. b * (d * g + d) = n * g + n
    BY <1>3
  <2>4. b * (f + 1) = b * f + b
    BY <1>2
  <2> QED
    BY <1>1, <1>2, <1>3, <2>2, <2>3, <2>4
<1> HIDE DEF n
<1>6. a \div n \in Int /\ g <= a \div n /\ a \div n <= g
  BY <1>1, <1>3, <1>4, <1>5, FloorDivision, DivAtLeast
<1> QED
  BY <1>3, <1>6 DEF f, g, n

(* An inequality may be multiplied, and divided, by a positive number.      *)
LEMMA TimesBoth ==
    ASSUME NEW a \in Nat, NEW x \in Int, NEW y \in Int
    PROVE  /\ a * x \in Int /\ a * y \in Int
           /\ x <= y => a * x <= a * y
           /\ a > 0 /\ a * x <= a * y => x <= y
<1>1. ASSUME NEW v \in Int, NEW w \in Int, v <= w
      PROVE  a * v <= a * w
  <2>1. PICK gap \in Nat : w = v + gap
    <3>1. w - v \in Nat /\ w = v + (w - v)
      BY <1>1
    <3> QED
      BY <3>1
  <2>2. a * gap \in Nat /\ a * w = a * v + a * gap
    BY <2>1, TimesNat
  <2>3. a * v \in Int
    OBVIOUS
  <2> QED
    BY <2>2, <2>3
<1>2. ASSUME a > 0, a * x <= a * y, x > y
      PROVE  FALSE
  <2>1. a * (y + 1) <= a * x
    BY <1>1, <1>2
  <2>2. a * (y + 1) = a * y + a /\ a * y \in Int /\ a * x \in Int
    OBVIOUS
  <2> QED
    BY <1>2, <2>1, <2>2
<1> QED
  BY <1>1, <1>2

-----------------------------------------------------------------------------
(* How far a price may go against a position: what the two programs that    *)
(* compute it round, for plain numbers.                                    *)

(* A share of a collateral and the rest of it, in hundredths rounded down,  *)
(* leave the collateral whole or a unit short.                             *)
LEMMA Hundredths ==
    ASSUME NEW c \in Nat, NEW t \in Nat, t <= 100
    PROVE  /\ DivTrunc(c * t, 100) \in Nat /\ DivTrunc(c * (100 - t), 100) \in Nat
           /\ DivTrunc(c * t, 100) <= c - DivTrunc(c * (100 - t), 100)
<1> DEFINE lost == c * t
           left == c * (100 - t)
<1>1. lost \in Nat /\ left \in Nat /\ lost + left = 100 * c
  <2>1. 100 - t \in Nat
    OBVIOUS
  <2>2. lost + left = 100 * c
    OBVIOUS
  <2> QED
    BY <2>1, <2>2, TimesNat
<1> HIDE DEF lost, left
<1>2. lost \div 100 \in Nat /\ left \div 100 \in Nat /\ (lost \div 100) + (left \div 100) <= c
  BY <1>1
<1> QED
  BY <1>1, <1>2 DEF DivTrunc, lost, left

(* One division by the notional reaches at least as far as a division by    *)
(* the collateral and then one by the leverage, of no less.                *)
LEMMA DistancesOrdered ==
    ASSUME NEW o \in Nat, NEW c \in Nat, c > 0, NEW l \in Nat, l > 0,
           NEW b \in Nat, NEW more \in Nat, b <= more
    PROVE  /\ DivTrunc(MulDivFloor(o, b, c), l) \in Nat
           /\ DivTrunc(more * o, c * l) \in Nat
           /\ DivTrunc(MulDivFloor(o, b, c), l) <= DivTrunc(more * o, c * l)
<1> DEFINE p == o * b
           q == more * o
           n == c * l
<1>1. p \in Nat /\ q \in Nat /\ n \in Nat /\ n > 0 /\ p <= q
  <2>1. o * b <= o * more
    BY TimesBoth
  <2>2. o * more = q
    OBVIOUS
  <2>3. n > 0
    OBVIOUS
  <2> QED
    BY <2>1, <2>2, <2>3, TimesNat
<1>2. MulDivFloor(o, b, c) = p \div c
  BY DEF MulDivFloor
<1> HIDE DEF p, q
<1>3. (p \div c) \div l = p \div n
  BY <1>1, DivTwice
<1> HIDE DEF n
<1>4. p \div c \in Nat /\ p \div n \in Nat /\ q \div n \in Nat /\ p \div n <= q \div n
  BY <1>1, DivNat, DivMonotone
<1>5. DivTrunc(p \div c, l) = p \div n /\ DivTrunc(q, n) = q \div n
  BY <1>1, <1>3, <1>4 DEF DivTrunc
<1> QED
  BY <1>2, <1>4, <1>5 DEF q, n
(* What lies within a bound still does when it is divided, either way.      *)
LEMMA DividedWithin ==
    ASSUME NEW n \in Int, NEW bound \in Nat, -bound <= n, n <= bound,
           NEW d \in Nat, d > 0
    PROVE  /\ n \div d \in Int /\ -bound <= n \div d /\ n \div d <= bound
           /\ DivTrunc(n, d) \in Int /\ -bound <= DivTrunc(n, d) /\ DivTrunc(n, d) <= bound
<1>1. d * bound \in Int /\ d * bound >= bound /\ d * (-bound) \in Int /\ d * (-bound) <= -bound
  <2>1. d - 1 \in Nat
    OBVIOUS
  <2>2. (d - 1) * bound \in Nat
    BY <2>1, TimesNat
  <2> QED
    BY <2>2
<1>2. ASSUME NEW x \in Int, -bound <= x, x <= bound
      PROVE  x \div d \in Int /\ -bound <= x \div d /\ x \div d <= bound
  <2>1. d * (-bound) <= x /\ x < d * bound + d
    BY <1>1, <1>2
  <2>2. d * (-bound) <= x => -bound <= x \div d
    BY -bound \in Int, DivAtLeast
  <2>3. x < d * bound + d => x \div d <= bound
    BY DivAtLeast
  <2> QED
    BY <2>1, <2>2, <2>3, FloorDivision
<1>3. n \div d \in Int /\ -bound <= n \div d /\ n \div d <= bound
  BY <1>2
<1>4. (-n) \div d \in Int /\ -bound <= (-n) \div d /\ (-n) \div d <= bound
  BY <1>2, -n \in Int
<1> QED
  BY <1>3, <1>4 DEF DivTrunc

(* And what is multiplied lies within the product of the bounds.            *)
LEMMA MultipliedWithin ==
    ASSUME NEW n \in Int, NEW bound \in Nat, -bound <= n, n <= bound,
           NEW m \in Nat, NEW top \in Nat, m <= top
    PROVE  /\ n * m \in Int /\ bound * top \in Nat
           /\ -(bound * top) <= n * m /\ n * m <= bound * top
<1>1. n * m <= bound * m /\ n * m \in Int /\ bound * m \in Int
  BY TimesOrder
<1>2. (-n) * m <= bound * m /\ (-n) * m = -(n * m)
  BY TimesOrder, -n \in Int
<1>3. bound * m <= bound * top /\ bound * top \in Nat
  BY TimesMonotone, TimesNat
<1> QED
  BY <1>1, <1>2, <1>3

=============================================================================
