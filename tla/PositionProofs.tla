--------------------------- MODULE PositionProofs ---------------------------
(***************************************************************************)
(* The composed contracts keep every trader's collateral apart from the    *)
(* fees, and the open interest in step with the trades: for all traders,   *)
(* pairs, prices and configurations.                                       *)
(***************************************************************************)
EXTENDS PositionManager, VaultProofs, RegistryProofs

(* There are finitely many keys, and each is a trader, a pair and a slot.   *)
LEMMA KeysFinite ==
    /\ IsFiniteSet(Key)
    /\ \A trader \in Holder, i \in PairIndex, n \in Slot : <<trader, i, n>> \in Key
<1> DEFINE triple == [q \in (Holder \X PairIndex) \X Slot |-> <<q[1][1], q[1][2], q[2]>>]
<1>1. IsFiniteSet(Holder \X PairIndex)
  BY HolderAssumption, PositionAssumption, FS_Product
<1>2. IsFiniteSet((Holder \X PairIndex) \X Slot)
  BY <1>1, PositionAssumption, FS_Product
<1>3. triple \in [(Holder \X PairIndex) \X Slot -> Key]
  BY DEF Key
<1>4. ASSUME NEW k \in Key
      PROVE  \E q \in (Holder \X PairIndex) \X Slot : triple[q] = k
  <2>1. PICK trader \in Holder, i \in PairIndex, n \in Slot : k = <<trader, i, n>>
    BY DEF Key
  <2>2. <<<<trader, i>>, n>> \in (Holder \X PairIndex) \X Slot
    OBVIOUS
  <2>3. triple[<<<<trader, i>>, n>>] = k
    BY <2>1, <2>2
  <2> QED
    BY <2>2, <2>3
<1>5. triple \in Surjection((Holder \X PairIndex) \X Slot, Key)
  <2> HIDE DEF triple
  <2> QED
    BY <1>3, <1>4 DEF Surjection
<1>6. IsFiniteSet(Key)
  BY <1>2, <1>5, FS_Surjection
<1> QED
  BY <1>6 DEF Key

(* The PositionManager is neither the vault nor one of its customers.       *)
LEMMA Addresses ==
    /\ PmAddr \in Manager /\ PmAddr \in Account /\ PmAddr \notin Holder
    /\ PmAddr # VaultAddr
BY HolderAssumption, PositionAssumption DEF Account

-----------------------------------------------------------------------------
(* What a map of records holds, and how storing a record changes it.        *)

Stake(r) == IF r = None THEN 0 ELSE r.collateral
Stakes(store) == [k \in Key |-> Stake(store[k])]

(* Storing one record moves the collateral on record by that record's own.  *)
LEMMA StakeStored ==
    ASSUME NEW store, NEW stored, NEW k \in Key,
           \A j \in Key : Stake(store[j]) \in Nat /\ Stake(stored[j]) \in Nat,
           \A j \in Key \ {k} : stored[j] = store[j]
    PROVE  /\ Total(Stakes(store)) \in Nat /\ Total(Stakes(stored)) \in Nat
           /\ Stake(store[k]) <= Total(Stakes(store))
           /\ Total(Stakes(stored))
                = Total(Stakes(store)) - Stake(store[k]) + Stake(stored[k])
<1>1. /\ Stakes(store) \in [Key -> Nat] /\ Stakes(stored) \in [Key -> Nat]
      /\ Stakes(store)[k] = Stake(store[k]) /\ Stakes(stored)[k] = Stake(stored[k])
      /\ \A j \in Key \ {k} : Stakes(stored)[j] = Stakes(store)[j]
  BY DEF Stakes
<1>2. Total(Stakes(stored)) = Total(Stakes(store)) - Stakes(store)[k] + Stakes(stored)[k]
  BY <1>1, KeysFinite, TotalUpdate
<1>3. /\ Total(Stakes(store)) \in Nat /\ Total(Stakes(stored)) \in Nat
      /\ Stakes(store)[k] <= Total(Stakes(store))
  BY <1>1, KeysFinite, UnitsFinite, TotalBounds
<1> QED
  BY <1>1, <1>2, <1>3

Notional(r, j, i, isLong) ==
    IF j = i /\ r # None /\ r.isLong = isLong THEN r.collateral * r.leverage ELSE 0
Notionals(store, i, isLong) == [k \in Key |-> Notional(store[k], k[2], i, isLong)]

(* Storing one trade moves a side's notional by that trade's own.           *)
LEMMA NotionalStored ==
    ASSUME NEW store \in [Key -> Trade \cup {None}], NEW k \in Key,
           NEW v \in Trade \cup {None}, NEW i \in PairIndex, NEW isLong \in BOOLEAN
    PROVE  /\ Total(Notionals(store, i, isLong)) \in Nat
           /\ Notional(store[k], k[2], i, isLong) \in Nat
           /\ Notional(v, k[2], i, isLong) \in Nat
           /\ Notional(store[k], k[2], i, isLong) <= Total(Notionals(store, i, isLong))
           /\ Total(Notionals([store EXCEPT ![k] = v], i, isLong))
                = Total(Notionals(store, i, isLong)) - Notional(store[k], k[2], i, isLong)
                    + Notional(v, k[2], i, isLong)
<1> DEFINE stored == [store EXCEPT ![k] = v]
           before == Notionals(store, i, isLong)
           after == Notionals(stored, i, isLong)
<1>1. \A r \in Trade \cup {None}, j \in PairIndex : Notional(r, j, i, isLong) \in Nat
  <2> SUFFICES ASSUME NEW r \in Trade
               PROVE  r.collateral * r.leverage \in Nat
    BY DEF Notional
  <2>1. r.collateral \in Nat /\ r.leverage \in Nat
    BY DEF Trade
  <2> QED
    BY <2>1, TimesNat
<1>2. /\ stored \in [Key -> Trade \cup {None}] /\ stored[k] = v
      /\ \A j \in Key \ {k} : stored[j] = store[j]
  OBVIOUS
<1>3. \A j \in Key : j[2] \in PairIndex
  BY DEF Key
<1> HIDE DEF stored
<1>4. /\ before \in [Key -> Nat] /\ after \in [Key -> Nat]
      /\ before[k] = Notional(store[k], k[2], i, isLong)
      /\ after[k] = Notional(v, k[2], i, isLong)
      /\ \A j \in Key \ {k} : after[j] = before[j]
  BY <1>1, <1>2, <1>3 DEF Notionals
<1> HIDE DEF before, after
<1>5. Total(after) = Total(before) - before[k] + after[k]
  BY <1>4, KeysFinite, TotalUpdate
<1>6. Total(before) \in Nat /\ before[k] <= Total(before)
  BY <1>4, KeysFinite, UnitsFinite, TotalBounds
<1> QED
  BY <1>1, <1>3, <1>4, <1>5, <1>6 DEF stored, before, after

(* Custody and the open interest, as totals over the records stored.        *)
LEMMA BooksOfRecords ==
    /\ Custody = Total(Stakes(trade)) + Total(Stakes(limitOrder))
    /\ Custody' = Total(Stakes(trade')) + Total(Stakes(limitOrder'))
    /\ \A i, isLong : /\ SideNotional(i, isLong) = Notionals(trade, i, isLong)
                      /\ SideNotional(i, isLong)' = Notionals(trade', i, isLong)
BY DEF Custody, TradeCollateral, OrderCollateral, Stakes, Stake, SideNotional, Notionals, Notional

-----------------------------------------------------------------------------
(* What the entry points read has the types their arithmetic needs.         *)

PmTypeOK ==
    /\ trade \in [Key -> Trade \cup {None}]
    /\ limitOrder \in [Key -> LimitOrder \cup {None}]
    /\ maxTrades \in Nat
    /\ price \in [Asset -> Price \cup {None}]
    /\ decimals \in Decimals

(* A quoted pair has a price and a record.                                  *)
LEMMA QuoteTypes ==
    ASSUME RegistryTypeOK, PmTypeOK, NEW i \in PairIndex, Quoted(i)
    PROVE  PriceOf(i) \in Nat /\ pair[i] \in PairInfo
<1>1. pair[i] \in PairInfo
  BY DEF RegistryTypeOK, Quoted, HasPair
<1>2. price[pair[i].asset] \in Price \cup {None} /\ price[pair[i].asset] # None
  BY <1>1 DEF PmTypeOK, PairInfo, Quoted, PriceOf
<1> DEFINE answer == price[pair[i].asset]
<1>3. answer \in Nat /\ decimals \in Decimals
  BY <1>2, PositionAssumption DEF PmTypeOK
<1>4. PriceOf(i) = RescaleToPriceScale(answer, decimals)
  BY <1>2 DEF PriceOf
<1> HIDE DEF answer
<1>5. CASE decimals >= PRICE_EXP
  <2> DEFINE divisor == pow10(decimals - PRICE_EXP)
  <2>1. divisor \in Nat \ {0}
    BY <1>3, <1>5, DecimalsAssumption
  <2>2. PriceOf(i) = answer \div divisor
    BY <1>3, <1>4, <1>5 DEF RescaleToPriceScale, DivTrunc
  <2> HIDE DEF divisor
  <2>3. answer \div divisor \in Nat
    BY <1>3, <2>1, DivNat
  <2> QED
    BY <1>1, <2>2, <2>3
<1>6. CASE ~(decimals >= PRICE_EXP)
  <2> DEFINE factor == pow10(PRICE_EXP - decimals)
  <2>1. factor \in Nat
    BY <1>3, <1>6, DecimalsAssumption
  <2>2. PriceOf(i) = answer * factor
    BY <1>4, <1>6 DEF RescaleToPriceScale
  <2> HIDE DEF factor
  <2> QED
    BY <1>1, <1>3, <2>1, <2>2, TimesNat
<1> QED
  BY <1>5, <1>6

(* No fee on a notional is negative. *)
LEMMA FeeTypes ==
    ASSUME NEW notional \in Nat, NEW rateP \in Nat
    PROVE  FeeOn(notional, rateP) \in Nat
<1>1. notional * rateP \in Nat /\ P_SCALE \in Int /\ P_SCALE > 0
  BY ScaleAssumption, TimesNat
<1> QED
  BY <1>1, DivNat DEF FeeOn, MulDivFloor

(* A charged pair's group has its two fee rates.                            *)
LEMMA GroupTypes ==
    ASSUME RegistryTypeOK, NEW i \in PairIndex, Charged(i)
    PROVE  GroupOf(i).openFeeP \in Nat /\ GroupOf(i).closeFeeP \in Nat
<1>1. pair[i] \in PairInfo
  BY DEF RegistryTypeOK, Charged, HasPair
<1>2. GroupOf(i) \in Group
  BY <1>1 DEF RegistryTypeOK, Charged, HasGroup, GroupOf, PairInfo
<1> QED
  BY <1>2 DEF Group

(* The opening fee only lessens the collateral put in.                      *)
LEMMA OpenFeeTaken ==
    ASSUME RegistryTypeOK, NEW i \in PairIndex, Charged(i), NEW collateral \in Nat,
           NEW leverage \in Nat
    PROVE  /\ EffectiveCollateral(i, collateral, leverage) \in Int
           /\ EffectiveCollateral(i, collateral, leverage) <= collateral
<1>1. collateral * leverage \in Nat /\ GroupOf(i).openFeeP \in Nat
  BY TimesNat, GroupTypes
<1>2. FeeOn(collateral * leverage, GroupOf(i).openFeeP) \in Nat
  BY <1>1, FeeTypes
<1> QED
  BY <1>2 DEF EffectiveCollateral

-----------------------------------------------------------------------------
(* A trade is stored, or removed, together with its open interest.          *)

(* v takes the place of a record, and of its notional on its side.          *)
OiMove(trader, i, n, v, isLong, old, new) ==
    LET amount == SideOf(openInterest[i], isLong) - old + new
    IN /\ trade' = [trade EXCEPT ![<<trader, i, n>>] = v]
       /\ openInterest' = [openInterest EXCEPT ![i] = WithSide(@, isLong, amount)]
       /\ amount \in Nat /\ old \in Nat /\ new \in Nat
       /\ \A side \in BOOLEAN :
            /\ Notional(trade[<<trader, i, n>>], i, i, side)
                 = IF side = isLong THEN old ELSE 0
            /\ Notional(v, i, i, side) = IF side = isLong THEN new ELSE 0

(* A registry call matching the trade stored keeps the open interest true.  *)
LEMMA OiMoved ==
    ASSUME RegistryTypeOK, PmTypeOK, OiMatchesTrades,
           NEW trader \in Holder, NEW i \in PairIndex, NEW n \in Slot,
           NEW v \in Trade \cup {None}, NEW isLong \in BOOLEAN, NEW old, NEW new,
           OiMove(trader, i, n, v, isLong, old, new)
    PROVE  OiMatchesTrades'
<1> DEFINE amount == SideOf(openInterest[i], isLong) - old + new
<1> DEFINE k == <<trader, i, n>>
<1>1. /\ k \in Key /\ k[2] = i /\ trade \in [Key -> Trade \cup {None}]
      /\ trade' = [trade EXCEPT ![k] = v]
      /\ \A side \in BOOLEAN : /\ Notional(trade[k], i, i, side) = IF side = isLong THEN old ELSE 0
                               /\ Notional(v, i, i, side) = IF side = isLong THEN new ELSE 0
  BY KeysFinite DEF PmTypeOK, OiMove
<1>0. /\ openInterest' = [openInterest EXCEPT ![i] = WithSide(@, isLong, amount)]
      /\ amount \in Nat /\ old \in Nat /\ new \in Nat
      /\ amount = SideOf(openInterest[i], isLong) - old + new
  BY DEF OiMove
<1> HIDE DEF k, amount
<1> SUFFICES ASSUME NEW j \in PairIndex, NEW side \in BOOLEAN
             PROVE  SideOf(openInterest'[j], side) = Total(Notionals(trade', j, side))
  BY BooksOfRecords DEF OiMatchesTrades
<1>2. SideOf(openInterest[j], side) = Total(Notionals(trade, j, side))
  BY BooksOfRecords DEF OiMatchesTrades
<1>3. /\ Total(Notionals(trade, j, side)) \in Nat
      /\ Total(Notionals(trade', j, side))
            = Total(Notionals(trade, j, side)) - Notional(trade[k], i, j, side)
                + Notional(v, i, j, side)
  <2>1. /\ Total(Notionals(trade, j, side)) \in Nat
        /\ Total(Notionals([trade EXCEPT ![k] = v], j, side))
              = Total(Notionals(trade, j, side)) - Notional(trade[k], k[2], j, side)
                  + Notional(v, k[2], j, side)
    <3>1. /\ k \in Key /\ trade \in [Key -> Trade \cup {None}] /\ v \in Trade \cup {None}
          /\ j \in PairIndex /\ side \in BOOLEAN
      BY <1>1
    <3> QED
      BY ONLY <3>1, NotionalStored, Zenon
  <2> QED
    BY <1>1, <2>1
<1>4. CASE j # i
  <2>1. Notional(trade[k], i, j, side) = 0 /\ Notional(v, i, j, side) = 0
    BY <1>4 DEF Notional
  <2>2. openInterest'[j] = openInterest[j]
    BY <1>0, <1>4 DEF RegistryTypeOK
  <2> QED
    BY <1>2, <1>3, <2>1, <2>2
<1>5. CASE j = i
  <2>1. openInterest'[i] = WithSide(openInterest[i], isLong, amount)
    BY <1>0 DEF RegistryTypeOK
  <2>2. SideOf(openInterest'[i], side)
          = IF side = isLong THEN amount ELSE SideOf(openInterest[i], side)
    BY <2>1 DEF WithSide, SideOf
  <2>3. /\ Notional(trade[k], i, i, side) = IF side = isLong THEN old ELSE 0
        /\ Notional(v, i, i, side) = IF side = isLong THEN new ELSE 0
    BY <1>1
  <2> QED
    BY <1>0, <1>2, <1>3, <1>5, <2>2, <2>3
<1> QED
  BY <1>4, <1>5

(* Writing one side of one pair keeps the registry's types.                 *)
LEMMA OiTyped ==
    ASSUME RegistryTypeOK, NEW i \in PairIndex, NEW isLong \in BOOLEAN, NEW amount \in Nat,
           openInterest' = [openInterest EXCEPT ![i] = WithSide(@, isLong, amount)],
           UNCHANGED <<pair, group, accumulators, depth, pairsCount, maxPosUsdc,
                       registryManager>>
    PROVE  RegistryTypeOK'
<1>1. WithSide(openInterest[i], isLong, amount) \in PairOi
  BY DEF RegistryTypeOK, WithSide, PairOi
<1> QED
  BY <1>1 DEF RegistryTypeOK, accumulators

(* record_trade: a trade is stored, with what the open fee has left. *)
LEMMA TradeRecorded ==
    ASSUME RegistryTypeOK, PmTypeOK, OiMatchesTrades,
           NEW trader \in Holder, NEW i \in PairIndex, NEW isLong \in BOOLEAN,
           NEW leverage \in Nat \ {0}, NEW effective \in Int, NEW tp \in Int, NEW sl \in Int,
           Quoted(i), RecordTrade(trader, i, isLong, leverage, effective, tp, sl)
    PROVE  /\ effective \in Nat
           /\ trade' \in [Key -> Trade \cup {None}]
           /\ RegistryTypeOK' /\ OiMatchesTrades'
           /\ Total(Stakes(trade')) = Total(Stakes(trade)) + effective
<1> DEFINE new == [isLong |-> isLong, leverage |-> leverage, openPrice |-> PriceOf(i),
                   collateral |-> effective, tpPrice |-> tp, slPrice |-> sl]
           notional == effective * leverage
           amount == SideOf(openInterest[i], isLong) + notional
<1>1. PICK n \in Slot : /\ trade[<<trader, i, n>>] = None
                        /\ trade' = [trade EXCEPT ![<<trader, i, n>>] = new]
  BY DEF RecordTrade, FirstFree
<1>2. /\ notional >= 0
      /\ openInterest' = [openInterest EXCEPT ![i] = WithSide(@, isLong, amount)]
      /\ UNCHANGED <<pair, group, accumulators, depth, pairsCount, maxPosUsdc,
                     registryManager>>
  BY DEF RecordTrade, AddOi
<1>3. effective \in Nat
  <2>1. effective < 0 => effective * leverage < 0
    OBVIOUS
  <2> QED
    BY <1>2, <2>1
<1>4. notional \in Nat
  BY <1>3, TimesNat
<1>5. new \in Trade /\ new # None /\ new.isLong = isLong /\ new.collateral = effective
      /\ new.collateral * new.leverage = notional
  BY <1>3, QuoteTypes, StoreAssumption DEF Trade
<1> HIDE DEF new, notional
<1>6. amount \in Nat
  BY <1>4 DEF RegistryTypeOK, SideOf, PairOi
<1>7. /\ RegistryTypeOK'
      /\ \A side \in BOOLEAN :
            /\ Notional(trade[<<trader, i, n>>], i, i, side) = 0
            /\ Notional(new, i, i, side) = IF side = isLong THEN notional ELSE 0
  BY <1>1, <1>2, <1>5, <1>6, OiTyped DEF Notional
<1>8. OiMatchesTrades'
  <2>1. amount = SideOf(openInterest[i], isLong) - 0 + notional
    BY <1>4 DEF RegistryTypeOK, SideOf, PairOi
  <2>2. OiMove(trader, i, n, new, isLong, 0, notional)
    BY <1>1, <1>2, <1>4, <1>6, <1>7, <2>1 DEF OiMove
  <2> QED
    BY <1>5, <2>2, OiMoved
<1>9. /\ trade' \in [Key -> Trade \cup {None}]
      /\ Total(Stakes(trade')) = Total(Stakes(trade)) + effective
  <2> DEFINE k == <<trader, i, n>>
  <2>1. /\ k \in Key /\ trade \in [Key -> Trade \cup {None}] /\ trade[k] = None
        /\ trade' = [trade EXCEPT ![k] = new] /\ new \in Trade \cup {None}
    BY <1>1, <1>5, KeysFinite DEF PmTypeOK
  <2> HIDE DEF k
  <2>2. /\ trade' \in [Key -> Trade \cup {None}] /\ trade'[k] = new
        /\ \A j \in Key \ {k} : trade'[j] = trade[j]
    BY <2>1
  <2>3. /\ \A r \in Trade \cup {None} : Stake(r) \in Nat
        /\ Stake(None) = 0 /\ Stake(new) = effective
    BY <1>5 DEF Stake, Trade
  <2>4. \A j \in Key : Stake(trade[j]) \in Nat /\ Stake(trade'[j]) \in Nat
    BY <2>1, <2>2, <2>3
  <2>5. k \in Key /\ \A j \in Key \ {k} : trade'[j] = trade[j]
    BY <2>1, <2>2
  <2>6. /\ Total(Stakes(trade)) \in Nat
        /\ Total(Stakes(trade')) = Total(Stakes(trade)) - Stake(trade[k]) + Stake(trade'[k])
    BY ONLY <2>4, <2>5, StakeStored
  <2> QED
    BY <1>3, <2>1, <2>2, <2>3, <2>6
<1> QED
  BY <1>3, <1>7, <1>8, <1>9

(* The removal of a trade, with the floor of sub_oi out of play.            *)
LEMMA TradeRemoved ==
    ASSUME RegistryTypeOK, PmTypeOK, OiMatchesTrades,
           NEW trader \in Holder, NEW i \in PairIndex, NEW n \in Slot,
           trade[<<trader, i, n>>] # None,
           trade' = [trade EXCEPT ![<<trader, i, n>>] = None],
           SubOi(PmAddr, i, trade[<<trader, i, n>>].isLong,
                 trade[<<trader, i, n>>].collateral * trade[<<trader, i, n>>].leverage)
    PROVE  /\ trade' \in [Key -> Trade \cup {None}]
           /\ RegistryTypeOK' /\ OiMatchesTrades'
           /\ Total(Stakes(trade')) = Total(Stakes(trade)) - trade[<<trader, i, n>>].collateral
<1> DEFINE k == <<trader, i, n>>
           t == trade[k]
           notional == t.collateral * t.leverage
           held == SideOf(openInterest[i], t.isLong)
           left == FloorAtZero(held - notional)
<1>1. /\ k \in Key /\ k[2] = i /\ trade \in [Key -> Trade \cup {None}] /\ t \in Trade
      /\ trade' = [trade EXCEPT ![k] = None]
  BY KeysFinite DEF PmTypeOK
<1>2. t.collateral \in Nat /\ t.leverage \in Nat /\ t.isLong \in BOOLEAN
  BY <1>1 DEF Trade
<1>3. notional \in Nat
  BY <1>2, TimesNat
<1>4. /\ openInterest' = [openInterest EXCEPT ![i] = WithSide(@, t.isLong, left)]
      /\ UNCHANGED <<pair, group, accumulators, depth, pairsCount, maxPosUsdc,
                     registryManager>>
  BY DEF SubOi
<1>5. held \in Nat
  BY <1>2 DEF RegistryTypeOK, SideOf, PairOi
<1>6. \A side \in BOOLEAN :
          /\ Notional(t, i, i, side) = IF side = t.isLong THEN notional ELSE 0
          /\ Notional(None, i, i, side) = IF side = t.isLong THEN 0 ELSE 0
  BY <1>1, StoreAssumption DEF Notional
<1>7. notional <= held
  <2>1. held = Total(Notionals(trade, i, t.isLong))
    BY <1>2, BooksOfRecords DEF OiMatchesTrades
  <2>2. Notional(trade[k], k[2], i, t.isLong) = notional
    BY <1>1, <1>2, <1>6
  <2>3. None \in Trade \cup {None} /\ i \in PairIndex
    OBVIOUS
  <2> HIDE DEF k, t
  <2>4. Notional(trade[k], k[2], i, t.isLong) <= Total(Notionals(trade, i, t.isLong))
    BY ONLY <1>1, <1>2, <2>3, NotionalStored, Zenon
  <2> QED
    BY <2>1, <2>2, <2>4
<1>8. left \in Nat /\ left = held - notional + 0
  BY <1>3, <1>5, <1>7 DEF FloorAtZero
<1> HIDE DEF left, held, notional
<1>9. RegistryTypeOK'
  BY <1>2, <1>4, <1>8, OiTyped
<1>10. OiMatchesTrades'
  <2>1. left = SideOf(openInterest[i], t.isLong) - notional + 0
    BY <1>8 DEF held
  <2>2. OiMove(trader, i, n, None, t.isLong, notional, 0)
    BY <1>1, <1>3, <1>4, <1>6, <1>8, <2>1 DEF OiMove
  <2> QED
    BY <1>2, <2>2, OiMoved
<1>11. /\ trade' \in [Key -> Trade \cup {None}]
       /\ Total(Stakes(trade')) = Total(Stakes(trade)) - t.collateral
  <2> HIDE DEF k, t
  <2>1. /\ trade' \in [Key -> Trade \cup {None}] /\ trade'[k] = None /\ trade[k] = t
        /\ \A j \in Key \ {k} : trade'[j] = trade[j]
    BY <1>1 DEF t
  <2>2. /\ \A r \in Trade \cup {None} : Stake(r) \in Nat
        /\ Stake(None) = 0 /\ Stake(t) = t.collateral
    BY <1>1, StoreAssumption DEF Stake, Trade
  <2>3. \A j \in Key : Stake(trade[j]) \in Nat /\ Stake(trade'[j]) \in Nat
    BY <1>1, <2>1, <2>2
  <2>4. k \in Key /\ \A j \in Key \ {k} : trade'[j] = trade[j]
    BY <1>1, <2>1
  <2>5. /\ Total(Stakes(trade)) \in Nat
        /\ Total(Stakes(trade')) = Total(Stakes(trade)) - Stake(trade[k]) + Stake(trade'[k])
    BY ONLY <2>3, <2>4, StakeStored
  <2> QED
    BY <1>2, <2>1, <2>2, <2>5
<1> QED
  BY <1>9, <1>10, <1>11

(* The stakes in a map of orders, when one is placed, changed or removed.   *)
LEMMA OrderStored ==
    ASSUME PmTypeOK, NEW k \in Key, NEW v \in LimitOrder \cup {None},
           limitOrder' = [limitOrder EXCEPT ![k] = v]
    PROVE  /\ limitOrder' \in [Key -> LimitOrder \cup {None}]
           /\ Total(Stakes(limitOrder'))
                = Total(Stakes(limitOrder)) - Stake(limitOrder[k]) + Stake(v)
<1>1. limitOrder \in [Key -> LimitOrder \cup {None}]
  BY DEF PmTypeOK
<1>2. /\ limitOrder' \in [Key -> LimitOrder \cup {None}] /\ limitOrder'[k] = v
      /\ \A j \in Key \ {k} : limitOrder'[j] = limitOrder[j]
  BY <1>1
<1>3. \A r \in LimitOrder \cup {None} : Stake(r) \in Nat
  BY DEF Stake, LimitOrder
<1>4. \A j \in Key : Stake(limitOrder[j]) \in Nat /\ Stake(limitOrder'[j]) \in Nat
  BY <1>1, <1>2, <1>3
<1>5. k \in Key
  OBVIOUS
<1>6. Total(Stakes(limitOrder'))
        = Total(Stakes(limitOrder)) - Stake(limitOrder[k]) + Stake(limitOrder'[k])
  BY ONLY <1>2, <1>4, <1>5, StakeStored
<1> QED
  BY <1>2, <1>6

(* The stakes in typed maps are natural numbers. *)
LEMMA StakesTyped ==
    ASSUME NEW trades \in [Key -> Trade \cup {None}],
           NEW orders \in [Key -> LimitOrder \cup {None}]
    PROVE  Total(Stakes(trades)) \in Nat /\ Total(Stakes(orders)) \in Nat
<1>1. \A r \in Trade \cup LimitOrder \cup {None} : Stake(r) \in Nat
  BY DEF Stake, Trade, LimitOrder
<1>2. Stakes(trades) \in [Key -> Nat] /\ Stakes(orders) \in [Key -> Nat]
  BY <1>1 DEF Stakes
<1> QED
  BY <1>2, KeysFinite, UnitsFinite

-----------------------------------------------------------------------------
(* The inductive invariant of the composition, and what every step keeps.   *)

Ledger == Books /\ RegistryTypeOK /\ Clock /\ PmTypeOK /\ OiMatchesTrades

(* The step formula of SettlementConserves. *)
Conserved ==
    \A k \in Key : trade[k] # None /\ trade'[k] = None =>
        LET paid == usdc'[k[1]] - usdc[k[1]]
            earned == totalAssets' - totalAssets
            fee == FeesKept' - FeesKept
        IN /\ paid + earned + fee = trade[k].collateral
           /\ paid >= 0 /\ fee >= 0
           /\ -earned * 100 =< trade[k].collateral * pair[k[2]].maxGainP

Kept == Ledger' /\ FeesKept' >= FeesKept /\ Conserved

(* A step that ends no trade keeps all of it if the PositionManager's       *)
(* balance grows by at least what the records do.                          *)
LEMMA KeptWithoutEnd ==
    ASSUME Ledger, Ledger',
           \A k \in Key : trade[k] # None => trade'[k] # None,
           usdc'[PmAddr] - usdc[PmAddr]
             >= (Total(Stakes(trade')) - Total(Stakes(trade)))
                 + (Total(Stakes(limitOrder')) - Total(Stakes(limitOrder)))
    PROVE  Kept
<1>1. /\ Total(Stakes(trade)) \in Nat /\ Total(Stakes(limitOrder)) \in Nat
      /\ Total(Stakes(trade')) \in Nat /\ Total(Stakes(limitOrder')) \in Nat
      /\ usdc[PmAddr] \in Nat /\ usdc'[PmAddr] \in Nat
  <2>1. /\ trade \in [Key -> Trade \cup {None}] /\ trade' \in [Key -> Trade \cup {None}]
        /\ limitOrder \in [Key -> LimitOrder \cup {None}]
        /\ limitOrder' \in [Key -> LimitOrder \cup {None}]
    BY DEF Ledger, PmTypeOK
  <2>2. usdc[PmAddr] \in Nat /\ usdc'[PmAddr] \in Nat
    BY Addresses DEF Ledger, Books, VaultTypeOK
  <2> QED
    BY <2>1, <2>2, StakesTyped
<1>2. FeesKept' >= FeesKept
  BY <1>1, BooksOfRecords DEF FeesKept
<1> QED
  BY <1>2 DEF Kept, Conserved

(* Moving USDC that is not the vault's leaves the vault's books in order.   *)
LEMMA BooksUntouched ==
    ASSUME Books, usdc' \in [Account -> Nat], usdc'[VaultAddr] = usdc[VaultAddr],
           UNCHANGED <<sequence, vaultVars>>
    PROVE  Books'
BY DEF Books, VaultTypeOK, SharesAccountedFor, Solvent, vaultVars, fund, vaultConfig

(* Pulling collateral credits the PositionManager and spares the vault.     *)
LEMMA Pulled ==
    ASSUME Books, NEW trader \in Holder, NEW collateral \in Int,
           PullCollateral(trader, collateral)
    PROVE  /\ usdc' \in [Account -> Nat] /\ usdc'[VaultAddr] = usdc[VaultAddr]
           /\ usdc[PmAddr] \in Nat /\ usdc'[PmAddr] = usdc[PmAddr] + collateral
<1>1. /\ usdc \in [Account -> Nat] /\ trader \in Account /\ trader # VaultAddr
      /\ trader # PmAddr
      /\ CanTransfer(usdc, trader, collateral)
      /\ usdc' = Transfer(usdc, trader, PmAddr, collateral)
  BY Accounts, Addresses DEF Books, VaultTypeOK, PullCollateral
<1>2. /\ usdc' \in [Account -> Nat]
      /\ \A a \in Account : usdc'[a] = usdc[a] - (IF a = trader THEN collateral ELSE 0)
                                             + (IF a = PmAddr THEN collateral ELSE 0)
  BY <1>1, Addresses, TransferMoves
<1> QED
  BY <1>1, <1>2, Accounts, Addresses

(* Opening at market: what is kept over the record is the opening fee.      *)
LEMMA OpenKeeps ==
    ASSUME Ledger, NEW trader \in Holder, NEW i \in PairIndex, NEW isLong \in BOOLEAN,
           NEW collateral \in Collateral, NEW leverage \in Leverage,
           NEW tp \in TriggerPrice, NEW sl \in TriggerPrice,
           OpenMarketTrade(trader, i, isLong, collateral, leverage, tp, sl)
    PROVE  Kept
<1> DEFINE effective == EffectiveCollateral(i, collateral, leverage)
<1>1. /\ collateral \in Nat /\ leverage \in Nat \ {0} /\ tp \in Int /\ sl \in Int
      /\ Quoted(i) /\ Charged(i)
      /\ PullCollateral(trader, collateral)
      /\ RecordTrade(trader, i, isLong, leverage, effective, tp, sl)
      /\ UNCHANGED <<sequence, vaultVars, limitOrder, maxTrades, oracle>>
  BY PositionAssumption DEF OpenMarketTrade
<1>2. Books /\ RegistryTypeOK /\ PmTypeOK /\ OiMatchesTrades /\ Clock
  BY DEF Ledger
<1>3. effective \in Int /\ effective <= collateral
  BY <1>1, <1>2, OpenFeeTaken
<1> HIDE DEF effective
<1>4. /\ trade' \in [Key -> Trade \cup {None}]
      /\ RegistryTypeOK' /\ OiMatchesTrades'
      /\ Total(Stakes(trade')) = Total(Stakes(trade)) + effective
  BY <1>1, <1>2, <1>3, TradeRecorded
<1>5. /\ usdc' \in [Account -> Nat] /\ usdc'[VaultAddr] = usdc[VaultAddr]
      /\ usdc[PmAddr] \in Nat /\ usdc'[PmAddr] = usdc[PmAddr] + collateral
  BY <1>1, <1>2, Pulled
<1>6. Books'
  BY <1>1, <1>2, <1>5, BooksUntouched
<1>7. Ledger'
  BY <1>1, <1>2, <1>4, <1>6 DEF Ledger, PmTypeOK, Clock, oracle
<1>8. \A k \in Key : trade[k] # None => trade'[k] # None
  <2>1. PICK n \in Slot : /\ trade[<<trader, i, n>>] = None
                          /\ \A j \in Key \ {<<trader, i, n>>} : trade'[j] = trade[j]
    BY <1>1, <1>2 DEF RecordTrade, FirstFree, PmTypeOK
  <2> QED
    BY <1>2, <2>1 DEF PmTypeOK
<1>9. Total(Stakes(trade)) \in Nat /\ Total(Stakes(limitOrder)) \in Nat
  BY <1>2, StakesTyped DEF PmTypeOK
<1> QED
  BY <1>1, <1>3, <1>4, <1>5, <1>7, <1>8, <1>9, KeptWithoutEnd

(* Placing an order: the whole collateral pulled is on record.              *)
LEMMA PlaceKeeps ==
    ASSUME Ledger, NEW trader \in Holder, NEW i \in PairIndex, NEW isLong \in BOOLEAN,
           NEW collateral \in Collateral, NEW leverage \in Leverage,
           NEW limitPrice \in LimitPrice, NEW tp \in TriggerPrice, NEW sl \in TriggerPrice,
           PlaceLimitOrder(trader, i, isLong, collateral, leverage, limitPrice, tp, sl)
    PROVE  Kept
<1> DEFINE order == [isLong |-> isLong, leverage |-> leverage, collateral |-> collateral,
                     limitPrice |-> limitPrice, tpPrice |-> tp, slPrice |-> sl]
<1>1. /\ collateral \in Nat /\ leverage \in Nat \ {0} /\ tp \in Int /\ sl \in Int
      /\ limitPrice \in Nat
      /\ PullCollateral(trader, collateral)
      /\ UNCHANGED <<sequence, vaultVars, registryVars, trade, maxTrades, oracle>>
  BY PositionAssumption DEF PlaceLimitOrder
<1>2. Books /\ RegistryTypeOK /\ PmTypeOK /\ OiMatchesTrades /\ Clock
  BY DEF Ledger
<1>3. order \in LimitOrder /\ order.collateral = collateral
  BY <1>1 DEF LimitOrder
<1>4. PICK n \in Slot : /\ limitOrder[<<trader, i, n>>] = None
                        /\ limitOrder' = [limitOrder EXCEPT ![<<trader, i, n>>] = order]
  BY DEF PlaceLimitOrder, FirstFree
<1> HIDE DEF order
<1>5. /\ limitOrder' \in [Key -> LimitOrder \cup {None}]
      /\ Total(Stakes(limitOrder')) = Total(Stakes(limitOrder)) - 0 + collateral
  <2>1. <<trader, i, n>> \in Key /\ order \in LimitOrder \cup {None}
    BY <1>3, KeysFinite
  <2>2. Stake(limitOrder[<<trader, i, n>>]) = 0 /\ Stake(order) = collateral
    BY <1>3, <1>4, StoreAssumption DEF Stake
  <2> QED
    BY <1>2, <1>4, <2>1, <2>2, OrderStored
<1>6. /\ usdc' \in [Account -> Nat] /\ usdc'[VaultAddr] = usdc[VaultAddr]
      /\ usdc[PmAddr] \in Nat /\ usdc'[PmAddr] = usdc[PmAddr] + collateral
  BY <1>1, <1>2, Pulled
<1>7. Books'
  BY <1>1, <1>2, <1>6, BooksUntouched
<1>8. RegistryTypeOK' /\ OiMatchesTrades'
  BY <1>1, <1>2
     DEF RegistryTypeOK, OiMatchesTrades, SideNotional, registryVars, accumulators
<1>9. Ledger'
  BY <1>1, <1>2, <1>5, <1>7, <1>8 DEF Ledger, PmTypeOK, Clock, oracle
<1>10. Total(Stakes(trade)) \in Nat /\ Total(Stakes(limitOrder)) \in Nat
  BY <1>2, StakesTyped DEF PmTypeOK
<1> QED
  BY <1>1, <1>5, <1>6, <1>9, <1>10, KeptWithoutEnd

(* Executing an order: its collateral moves to the trade, less the fee.     *)
LEMMA ExecuteKeeps ==
    ASSUME Ledger, NEW trader \in Holder, NEW i \in PairIndex, NEW n \in Slot,
           ExecuteLimitOrder(trader, i, n)
    PROVE  Kept
<1> DEFINE order == limitOrder[<<trader, i, n>>]
           effective == EffectiveCollateral(i, order.collateral, order.leverage)
<1>1. /\ order # None /\ Quoted(i) /\ Charged(i)
      /\ RecordTrade(trader, i, order.isLong, order.leverage, effective, order.tpPrice,
                     order.slPrice)
      /\ limitOrder' = [limitOrder EXCEPT ![<<trader, i, n>>] = None]
      /\ UNCHANGED <<usdc, sequence, vaultVars, maxTrades, oracle>>
  BY DEF ExecuteLimitOrder
<1>2. Books /\ RegistryTypeOK /\ PmTypeOK /\ OiMatchesTrades /\ Clock
  BY DEF Ledger
<1>3. /\ order \in LimitOrder /\ order.isLong \in BOOLEAN /\ order.leverage \in Nat \ {0}
      /\ order.collateral \in Nat /\ order.tpPrice \in Int /\ order.slPrice \in Int
  <2>1. order \in LimitOrder
    BY <1>1, <1>2, KeysFinite DEF PmTypeOK
  <2> HIDE DEF order
  <2> QED
    BY <2>1 DEF LimitOrder
<1>4. /\ limitOrder' \in [Key -> LimitOrder \cup {None}]
      /\ Total(Stakes(limitOrder')) = Total(Stakes(limitOrder)) - order.collateral + 0
  <2>1. <<trader, i, n>> \in Key /\ None \in LimitOrder \cup {None}
    BY KeysFinite
  <2>2. Stake(limitOrder[<<trader, i, n>>]) = order.collateral /\ Stake(None) = 0
    BY <1>1 DEF Stake
  <2> QED
    BY <1>1, <1>2, <2>1, <2>2, OrderStored
<1> HIDE DEF order
<1>5. effective \in Int /\ effective <= order.collateral
  BY <1>1, <1>2, <1>3, OpenFeeTaken
<1> HIDE DEF effective
<1>6. /\ trade' \in [Key -> Trade \cup {None}]
      /\ RegistryTypeOK' /\ OiMatchesTrades'
      /\ Total(Stakes(trade')) = Total(Stakes(trade)) + effective
  BY <1>1, <1>2, <1>3, <1>5, TradeRecorded
<1>7. Books'
  BY <1>1, <1>2, BooksUntouched DEF Books, VaultTypeOK
<1>8. Ledger'
  BY <1>1, <1>2, <1>4, <1>6, <1>7 DEF Ledger, PmTypeOK, Clock, oracle
<1>9. \A k \in Key : trade[k] # None => trade'[k] # None
  <2>1. PICK m \in Slot : /\ trade[<<trader, i, m>>] = None
                          /\ \A j \in Key \ {<<trader, i, m>>} : trade'[j] = trade[j]
    BY <1>1, <1>2 DEF RecordTrade, FirstFree, PmTypeOK
  <2> QED
    BY <1>2, <2>1 DEF PmTypeOK
<1>10. /\ Total(Stakes(trade)) \in Nat /\ Total(Stakes(limitOrder)) \in Nat
       /\ usdc[PmAddr] \in Nat
  BY <1>2, StakesTyped, Addresses DEF PmTypeOK, Books, VaultTypeOK
<1> QED
  BY <1>1, <1>3, <1>4, <1>5, <1>6, <1>8, <1>9, <1>10, KeptWithoutEnd

(* Cancelling an order: what is refunded is what was on record.             *)
LEMMA CancelKeeps ==
    ASSUME Ledger, NEW trader \in Holder, NEW i \in PairIndex, NEW n \in Slot,
           CancelLimitOrder(trader, i, n)
    PROVE  Kept
<1> DEFINE order == limitOrder[<<trader, i, n>>]
           refund == order.collateral
<1>1. /\ order # None /\ CanTransfer(usdc, PmAddr, refund)
      /\ usdc' = Transfer(usdc, PmAddr, trader, refund)
      /\ limitOrder' = [limitOrder EXCEPT ![<<trader, i, n>>] = None]
      /\ UNCHANGED <<sequence, vaultVars, registryVars, trade, maxTrades, oracle>>
  BY DEF CancelLimitOrder
<1>2. Books /\ RegistryTypeOK /\ PmTypeOK /\ OiMatchesTrades /\ Clock
  BY DEF Ledger
<1>3. order \in LimitOrder /\ refund \in Nat
  <2>1. order \in LimitOrder
    BY <1>1, <1>2, KeysFinite DEF PmTypeOK
  <2> HIDE DEF order
  <2> QED
    BY <2>1 DEF LimitOrder
<1>4. /\ limitOrder' \in [Key -> LimitOrder \cup {None}]
      /\ Total(Stakes(limitOrder')) = Total(Stakes(limitOrder)) - refund + 0
  <2>1. <<trader, i, n>> \in Key /\ None \in LimitOrder \cup {None}
    BY KeysFinite
  <2>2. Stake(limitOrder[<<trader, i, n>>]) = refund /\ Stake(None) = 0
    BY <1>1 DEF Stake
  <2> QED
    BY <1>1, <1>2, <2>1, <2>2, OrderStored
<1> HIDE DEF order, refund
<1>5. /\ usdc' \in [Account -> Nat] /\ usdc'[VaultAddr] = usdc[VaultAddr]
      /\ usdc[PmAddr] \in Nat /\ usdc'[PmAddr] = usdc[PmAddr] - refund
  <2>1. usdc \in [Account -> Nat] /\ trader \in Account /\ trader # VaultAddr /\ trader # PmAddr
    BY <1>2, Accounts, Addresses DEF Books, VaultTypeOK
  <2>2. /\ usdc' \in [Account -> Nat]
        /\ \A a \in Account : usdc'[a] = usdc[a] - (IF a = PmAddr THEN refund ELSE 0)
                                               + (IF a = trader THEN refund ELSE 0)
    BY <1>1, <1>3, <2>1, Addresses, TransferMoves
  <2> QED
    BY <1>3, <2>1, <2>2, Accounts, Addresses
<1>6. Books'
  BY <1>1, <1>2, <1>5, BooksUntouched
<1>7. RegistryTypeOK' /\ OiMatchesTrades'
  BY <1>1, <1>2
     DEF RegistryTypeOK, OiMatchesTrades, SideNotional, registryVars, accumulators
<1>8. Ledger'
  BY <1>1, <1>2, <1>4, <1>6, <1>7 DEF Ledger, PmTypeOK, Clock, oracle
<1>9. Total(Stakes(trade)) \in Nat /\ Total(Stakes(limitOrder)) \in Nat
  BY <1>2, StakesTyped DEF PmTypeOK
<1> QED
  BY <1>1, <1>3, <1>4, <1>5, <1>8, <1>9, KeptWithoutEnd

(* Editing an order leaves its collateral alone.                            *)
LEMMA UpdateOrderKeeps ==
    ASSUME Ledger, NEW trader \in Holder, NEW i \in PairIndex, NEW n \in Slot,
           NEW limitPrice \in LimitPrice, NEW tp \in TriggerPrice, NEW sl \in TriggerPrice,
           UpdateLimitOrder(trader, i, n, limitPrice, tp, sl)
    PROVE  Kept
<1> DEFINE k == <<trader, i, n>>
           order == limitOrder[k]
           updated == [isLong |-> order.isLong, leverage |-> order.leverage,
                       collateral |-> order.collateral, limitPrice |-> limitPrice,
                       tpPrice |-> tp, slPrice |-> sl]
<1>1. /\ order # None /\ limitPrice \in Nat /\ tp \in Int /\ sl \in Int
      /\ limitOrder' = [limitOrder EXCEPT ![k] = updated]
      /\ UNCHANGED <<usdc, sequence, vaultVars, registryVars, trade, maxTrades, oracle>>
  BY PositionAssumption DEF UpdateLimitOrder
<1>2. Books /\ RegistryTypeOK /\ PmTypeOK /\ OiMatchesTrades /\ Clock
  BY DEF Ledger
<1>3. k \in Key /\ order \in LimitOrder
  BY <1>1, <1>2, KeysFinite DEF PmTypeOK
<1>4. updated \in LimitOrder /\ updated.collateral = order.collateral /\ order.collateral \in Nat
  <2> HIDE DEF order
  <2> QED
    BY <1>1, <1>3 DEF LimitOrder
<1> HIDE DEF updated, k
<1>5. /\ limitOrder' \in [Key -> LimitOrder \cup {None}]
      /\ Total(Stakes(limitOrder'))
           = Total(Stakes(limitOrder)) - order.collateral + order.collateral
  <2>1. Stake(limitOrder[k]) = order.collateral /\ Stake(updated) = order.collateral
    BY <1>1, <1>4, StoreAssumption DEF Stake
  <2> QED
    BY <1>1, <1>2, <1>3, <1>4, <2>1, OrderStored
<1> HIDE DEF order
<1>6. Books' /\ RegistryTypeOK' /\ OiMatchesTrades'
  BY <1>1, <1>2, BooksUntouched
     DEF Books, VaultTypeOK, RegistryTypeOK, OiMatchesTrades, SideNotional, registryVars,
         accumulators
<1>7. Ledger'
  BY <1>1, <1>2, <1>5, <1>6 DEF Ledger, PmTypeOK, Clock, oracle
<1>8. /\ Total(Stakes(trade)) \in Nat /\ Total(Stakes(limitOrder)) \in Nat
      /\ usdc[PmAddr] \in Nat
  BY <1>2, StakesTyped, Addresses DEF PmTypeOK, Books, VaultTypeOK
<1> QED
  BY <1>1, <1>4, <1>5, <1>7, <1>8, KeptWithoutEnd

(* Editing a trade's triggers leaves its collateral and size alone.         *)
LEMMA UpdateTpSlKeeps ==
    ASSUME Ledger, NEW trader \in Holder, NEW i \in PairIndex, NEW n \in Slot,
           NEW tp \in TriggerPrice, NEW sl \in TriggerPrice,
           UpdateTpSl(trader, i, n, tp, sl)
    PROVE  Kept
<1> DEFINE k == <<trader, i, n>>
           t == trade[k]
           updated == [isLong |-> t.isLong, leverage |-> t.leverage, openPrice |-> t.openPrice,
                       collateral |-> t.collateral, tpPrice |-> tp, slPrice |-> sl]
           notional == t.collateral * t.leverage
           held == SideOf(openInterest[i], t.isLong)
<1>1. /\ t # None /\ tp \in Int /\ sl \in Int
      /\ trade' = [trade EXCEPT ![k] = updated]
      /\ UNCHANGED <<usdc, sequence, vaultVars, registryVars, limitOrder, maxTrades, oracle>>
  BY PositionAssumption DEF UpdateTpSl
<1>2. Books /\ RegistryTypeOK /\ PmTypeOK /\ OiMatchesTrades /\ Clock
  BY DEF Ledger
<1>3. k \in Key /\ t \in Trade /\ trade \in [Key -> Trade \cup {None}]
  BY <1>1, <1>2, KeysFinite DEF PmTypeOK
<1>4. /\ updated \in Trade /\ updated # None
      /\ updated.collateral = t.collateral /\ updated.leverage = t.leverage
      /\ updated.isLong = t.isLong
      /\ t.collateral \in Nat /\ t.leverage \in Nat /\ t.isLong \in BOOLEAN
  <2>1. updated \in Trade /\ t.collateral \in Nat /\ t.leverage \in Nat /\ t.isLong \in BOOLEAN
    <3> HIDE DEF t
    <3> QED
      BY <1>1, <1>3 DEF Trade
  <2> QED
    BY <2>1, StoreAssumption
<1>5. notional \in Nat
  BY <1>4, TimesNat
<1>6. OiMatchesTrades'
  <2>1. openInterest[i] \in PairOi /\ held \in Nat
    BY <1>2, <1>4 DEF RegistryTypeOK, SideOf, PairOi
  <2>2. WithSide(openInterest[i], t.isLong, held) = openInterest[i]
    BY <2>1 DEF WithSide, SideOf, PairOi
  <2>3. openInterest' = [openInterest EXCEPT ![i] = WithSide(@, t.isLong, held)]
    BY <1>1, <1>2, <2>2 DEF RegistryTypeOK, registryVars
  <2>4. \A side \in BOOLEAN :
            /\ Notional(t, i, i, side) = IF side = t.isLong THEN notional ELSE 0
            /\ Notional(updated, i, i, side) = IF side = t.isLong THEN notional ELSE 0
    <3> HIDE DEF updated, t
    <3> QED
      BY <1>1, <1>4 DEF Notional
  <2>5. held = held - notional + notional
    BY <1>5, <2>1
  <2> HIDE DEF notional, updated
  <2>6. OiMove(trader, i, n, updated, t.isLong, notional, notional)
    BY <1>1, <1>5, <2>1, <2>3, <2>4, <2>5 DEF OiMove
  <2> QED
    BY <1>2, <1>4, <2>6, OiMoved
<1> HIDE DEF updated, k, notional, t
<1>7. /\ trade' \in [Key -> Trade \cup {None}] /\ trade'[k] = updated /\ trade[k] = t
      /\ \A j \in Key \ {k} : trade'[j] = trade[j]
  BY <1>1, <1>3, <1>4 DEF t
<1>8. Total(Stakes(trade')) = Total(Stakes(trade))
  <2>1. /\ \A r \in Trade \cup {None} : Stake(r) \in Nat
        /\ Stake(updated) = t.collateral /\ Stake(t) = t.collateral
    BY <1>1, <1>4 DEF Stake, Trade
  <2>2. \A j \in Key : Stake(trade[j]) \in Nat /\ Stake(trade'[j]) \in Nat
    BY <1>3, <1>7, <2>1
  <2>3. /\ Total(Stakes(trade)) \in Nat
        /\ Total(Stakes(trade')) = Total(Stakes(trade)) - Stake(trade[k]) + Stake(trade'[k])
    BY ONLY <1>3, <1>7, <2>2, StakeStored
  <2> QED
    BY <1>4, <1>7, <2>1, <2>3
<1>9. Books' /\ RegistryTypeOK'
  BY <1>1, <1>2, BooksUntouched
     DEF Books, VaultTypeOK, RegistryTypeOK, registryVars, accumulators
<1>10. Ledger'
  BY <1>1, <1>2, <1>6, <1>7, <1>9 DEF Ledger, PmTypeOK, Clock, oracle
<1>11. /\ Total(Stakes(trade)) \in Nat /\ Total(Stakes(limitOrder)) \in Nat
       /\ usdc[PmAddr] \in Nat
  BY <1>2, StakesTyped, Addresses DEF PmTypeOK, Books, VaultTypeOK
<1>12. \A j \in Key : trade[j] # None => trade'[j] # None
  BY <1>4, <1>7
<1> QED
  BY <1>1, <1>8, <1>10, <1>11, <1>12, KeptWithoutEnd

-----------------------------------------------------------------------------
(* What the end of a trade pays, whatever split the caller computes: the    *)
(* trader gets what it sends the vault and the net, and the PositionManager *)
(* keeps the rest of the collateral.                                       *)
LEMMA EndPays ==
    ASSUME Ledger, NEW trader \in Holder, NEW i \in PairIndex, NEW n \in Slot,
           trade[<<trader, i, n>>] # None,
           NEW fromPm \in Int, NEW net \in Int,
           SettleTrade(trader, i, n, fromPm, net)
    PROVE  /\ Ledger'
           /\ fromPm >= 0 /\ fromPm + net >= 0
           /\ trade[<<trader, i, n>>].collateral \in Nat
           /\ usdc'[trader] - usdc[trader] = fromPm + net
           /\ totalAssets' - totalAssets = -net
           /\ FeesKept \in Int /\ FeesKept' \in Int
           /\ FeesKept' - FeesKept = trade[<<trader, i, n>>].collateral - fromPm
           /\ \A j \in Key \ {<<trader, i, n>>} : trade'[j] = trade[j]
<1> DEFINE k == <<trader, i, n>>
           t == trade[k]
           ledger == Transfer(usdc, PmAddr, VaultAddr, fromPm)
           payout == fromPm + net
<1>1. Books /\ RegistryTypeOK /\ PmTypeOK /\ OiMatchesTrades /\ Clock
  BY DEF Ledger
<1>2. /\ Settle(PmAddr, trader, fromPm, net)
      /\ trade' = [trade EXCEPT ![k] = None]
      /\ SubOi(PmAddr, i, t.isLong, t.collateral * t.leverage)
      /\ UNCHANGED <<limitOrder, maxTrades, oracle>>
  BY DEF SettleTrade
<1>3. /\ trade' \in [Key -> Trade \cup {None}]
      /\ RegistryTypeOK' /\ OiMatchesTrades'
      /\ Total(Stakes(trade')) = Total(Stakes(trade)) - t.collateral
  BY <1>1, <1>2, TradeRemoved
<1>4. Books'
  BY <1>1, <1>2, Addresses, SettleKeepsBooks
<1>5. Ledger'
  BY <1>1, <1>2, <1>3, <1>4
     DEF Ledger, PmTypeOK, Clock, Settle, ReturnCollateralWithPnl, oracle
<1>6. /\ CanTransfer(usdc, PmAddr, fromPm) /\ fromPm >= 0 /\ payout >= 0 /\ payout \in Int
      /\ payout > 0 => CanTransfer(ledger, VaultAddr, payout)
      /\ usdc' = IF payout > 0 THEN Transfer(ledger, VaultAddr, trader, payout) ELSE ledger
      /\ totalAssets' = totalAssets - net /\ totalAssets \in Nat
  BY <1>1, <1>2 DEF Settle, ReturnCollateralWithPnl, CanTransfer, Books, VaultTypeOK
<1>7. /\ usdc \in [Account -> Nat] /\ trader \in Account /\ VaultAddr \in Account
      /\ PmAddr \in Account /\ PmAddr # VaultAddr /\ trader # PmAddr /\ trader # VaultAddr
      /\ usdc[PmAddr] \in Nat /\ usdc[trader] \in Nat
  BY <1>1, Accounts, Addresses DEF Books, VaultTypeOK
<1>8. /\ ledger \in [Account -> Nat]
      /\ ledger[PmAddr] = usdc[PmAddr] - fromPm /\ ledger[trader] = usdc[trader]
  BY <1>6, <1>7, TransferMoves
<1> HIDE DEF ledger, payout
<1>9. usdc'[PmAddr] = usdc[PmAddr] - fromPm /\ usdc'[trader] = usdc[trader] + payout
  <2>1. CASE payout > 0
    <3>1. /\ CanTransfer(ledger, VaultAddr, payout)
          /\ usdc' = Transfer(ledger, VaultAddr, trader, payout)
      BY <1>6, <2>1
    <3>2. usdc'[PmAddr] = ledger[PmAddr] /\ usdc'[trader] = ledger[trader] + payout
      BY <1>6, <1>7, <1>8, <3>1, TransferMoves
    <3> QED
      BY <1>8, <3>2
  <2>2. CASE payout = 0
    BY <1>6, <1>7, <1>8, <2>2
  <2> QED
    BY <1>6, <2>1, <2>2
<1>10. t \in Trade /\ t.collateral \in Nat /\ k \in Key
  <2>1. t \in Trade /\ k \in Key
    BY <1>1, KeysFinite DEF PmTypeOK
  <2> HIDE DEF t
  <2> QED
    BY <2>1 DEF Trade
<1>11. /\ FeesKept \in Int /\ FeesKept' \in Int
       /\ FeesKept' - FeesKept = t.collateral - fromPm
  <2>1. /\ Total(Stakes(trade)) \in Nat /\ Total(Stakes(limitOrder)) \in Nat
        /\ Total(Stakes(trade')) \in Nat /\ Total(Stakes(limitOrder')) \in Nat
        /\ Total(Stakes(limitOrder')) = Total(Stakes(limitOrder))
    BY <1>1, <1>2, <1>3, StakesTyped DEF PmTypeOK
  <2> HIDE DEF t
  <2> QED
    BY <1>3, <1>7, <1>9, <1>10, <2>1, BooksOfRecords DEF FeesKept
<1>12. \A j \in Key \ {k} : trade'[j] = trade[j]
  <2> HIDE DEF k
  <2> QED
    BY <1>1, <1>2 DEF PmTypeOK
<1>13. totalAssets' - totalAssets = -net /\ usdc'[trader] - usdc[trader] = payout
  BY <1>6, <1>7, <1>9
<1> QED
  BY <1>5, <1>6, <1>10, <1>11, <1>12, <1>13 DEF payout

(* The end of a trade keeps everything, for any split that leaves the       *)
(* trader a payout within the gain cap.                                    *)
LEMMA EndKeeps ==
    ASSUME Ledger, NEW trader \in Holder, NEW i \in PairIndex, NEW n \in Slot,
           trade[<<trader, i, n>>] # None,
           NEW fromPm \in Int, NEW net \in Int,
           fromPm <= trade[<<trader, i, n>>].collateral,
           fromPm >= 0 => net * 100 <= trade[<<trader, i, n>>].collateral * pair[i].maxGainP,
           SettleTrade(trader, i, n, fromPm, net)
    PROVE  Kept
<1> DEFINE k == <<trader, i, n>>
           t == trade[k]
<1>1. /\ Ledger'
      /\ fromPm >= 0 /\ fromPm + net >= 0 /\ t.collateral \in Nat
      /\ usdc'[trader] - usdc[trader] = fromPm + net
      /\ totalAssets' - totalAssets = -net
      /\ FeesKept \in Int /\ FeesKept' \in Int
      /\ FeesKept' - FeesKept = t.collateral - fromPm
      /\ \A j \in Key \ {k} : trade'[j] = trade[j]
  BY EndPays
<1>2. /\ fromPm <= t.collateral
      /\ net * 100 <= t.collateral * pair[i].maxGainP /\ -(-net) * 100 = net * 100
  BY <1>1
<1>3. ASSUME NEW j \in Key, trade[j] # None, trade'[j] = None
      PROVE  j[1] = trader /\ j[2] = i /\ trade[j] = t
  <2>1. j = k
    <3> HIDE DEF k
    <3> QED
      BY <1>1, <1>3
  <2> QED
    BY <2>1
<1> HIDE DEF k, t
<1>4. FeesKept' >= FeesKept
  BY <1>1, <1>2
<1>5. Conserved
  <2> SUFFICES ASSUME NEW j \in Key, trade[j] # None, trade'[j] = None
               PROVE  LET paid == usdc'[j[1]] - usdc[j[1]]
                          earned == totalAssets' - totalAssets
                          fee == FeesKept' - FeesKept
                      IN /\ paid + earned + fee = trade[j].collateral
                         /\ paid >= 0 /\ fee >= 0
                         /\ -earned * 100 =< trade[j].collateral * pair[j[2]].maxGainP
    BY DEF Conserved
  <2>1. j[1] = trader /\ j[2] = i /\ trade[j] = t
    BY <1>3
  <2> DEFINE cap == t.collateral * pair[i].maxGainP
  <2>2. net * 100 <= cap /\ cap = trade[j].collateral * pair[j[2]].maxGainP
    BY <1>2, <2>1
  <2> HIDE DEF cap
  <2>3. -(totalAssets' - totalAssets) * 100 <= cap
    BY <1>1, <2>2
  <2> DEFINE paid == usdc'[j[1]] - usdc[j[1]]
             earned == totalAssets' - totalAssets
             fee == FeesKept' - FeesKept
  <2>4. /\ paid = fromPm + net /\ earned = -net /\ fee = t.collateral - fromPm
        /\ trade[j].collateral = t.collateral
    BY <1>1, <2>1
  <2>5. -earned * 100 <= cap
    BY <2>3
  <2> HIDE DEF paid, earned, fee
  <2>6. paid + earned + fee = t.collateral /\ paid >= 0 /\ fee >= 0
    BY <1>1, <1>2, <2>4
  <2> QED
    BY <2>2, <2>4, <2>5, <2>6 DEF paid, earned, fee
<1> QED
  BY <1>1, <1>4, <1>5 DEF Kept

(* The profit is an integer, and no higher than the cap. *)
LEMMA ProfitCapped ==
    ASSUME NEW openPrice \in Nat, NEW closePrice \in Nat, NEW isLong \in BOOLEAN,
           NEW leverage \in Nat, NEW maxGainP \in Nat, openPrice > 0
    PROVE  LET profit == CurrentPercentProfit(openPrice, closePrice, isLong, leverage, maxGainP)
           IN profit \in Int /\ profit <= maxGainP * P_SCALE
<1> DEFINE diff == IF isLong THEN closePrice - openPrice ELSE openPrice - closePrice
           step == (diff * P_SCALE) \div openPrice
           cap == maxGainP * P_SCALE
<1>1. diff \in Int /\ P_SCALE \in Nat
  BY ScaleAssumption
<1>2. diff * P_SCALE \in Int
  BY <1>1
<1>3. step \in Int
  <2> HIDE DEF diff
  <2> QED
    BY <1>2, FloorDivision
<1> HIDE DEF diff, step
<1>4. step * leverage * 100 \in Int /\ cap \in Nat
  BY <1>1, <1>3, TimesNat
<1>5. CurrentPercentProfit(openPrice, closePrice, isLong, leverage, maxGainP)
        = Clamp(step * leverage * 100, -cap, cap)
  BY DEF CurrentPercentProfit, MulDivFloor, step, diff
<1> HIDE DEF cap
<1>6. /\ Clamp(step * leverage * 100, -cap, cap) \in Int
      /\ Clamp(step * leverage * 100, -cap, cap) <= cap
  BY <1>4 DEF Clamp
<1> QED
  BY <1>5, <1>6 DEF cap

(* What a settlement pays is within the gain cap, whichever case it takes.  *)
LEMMA PayoutCapped ==
    ASSUME NEW collateral \in Nat, NEW pnlP \in Int, NEW maxGainP \in Nat,
           NEW closeFee \in Nat, NEW liqThresholdP \in Nat,
           pnlP <= maxGainP * P_SCALE
    PROVE  LET settled == SettlementPayout(collateral, pnlP, 0, 0, closeFee, liqThresholdP)
           IN /\ settled.payout \in Nat /\ settled.fee \in Nat
              /\ settled.fee <= collateral =>
                    (settled.payout + settled.fee - collateral) * 100 <= collateral * maxGainP
<1> DEFINE settled == SettlementPayout(collateral, pnlP, 0, 0, closeFee, liqThresholdP)
           result == (collateral * pnlP) \div P_SCALE
           value == SettlementValue(collateral, pnlP, 0, 0)
           bound == collateral * maxGainP
<1>1. P_SCALE \in Nat /\ P_SCALE > 0 /\ bound \in Nat
  BY ScaleAssumption, TimesNat
<1>2. result \in Int /\ result <= bound
  <2>1. collateral * pnlP \in Int
    OBVIOUS
  <2>2. collateral * pnlP <= bound * P_SCALE
    <3>1. PICK short \in Nat : maxGainP * P_SCALE = pnlP + short
      <4>1. maxGainP * P_SCALE - pnlP \in Nat
            /\ maxGainP * P_SCALE = pnlP + (maxGainP * P_SCALE - pnlP)
        BY <1>1
      <4> QED
        BY <4>1
    <3>2. collateral * short \in Nat
      BY TimesNat
    <3>3. collateral * (maxGainP * P_SCALE) = collateral * pnlP + collateral * short
      BY <3>1
    <3>4. bound * P_SCALE = collateral * (maxGainP * P_SCALE)
      BY <1>1
    <3> HIDE DEF bound
    <3> QED
      BY <2>1, <3>2, <3>3, <3>4
  <2> DEFINE gain == collateral * pnlP
  <2>3. gain \in Int /\ gain <= bound * P_SCALE
    BY <2>1, <2>2
  <2> HIDE DEF gain, bound
  <2>4. /\ gain \div P_SCALE \in Int /\ P_SCALE * (gain \div P_SCALE) <= gain
    BY <1>1, <2>3, FloorDivision
  <2>5. gain \div P_SCALE <= bound
    <3> DEFINE floored == gain \div P_SCALE
    <3>1. floored \in Int /\ P_SCALE * floored <= P_SCALE * bound
      BY <1>1, <2>3, <2>4
    <3> HIDE DEF floored
    <3>2. floored > bound => P_SCALE * floored > P_SCALE * bound
      BY <1>1, <3>1
    <3> QED
      BY <1>1, <3>1, <3>2 DEF floored
  <2> QED
    BY <2>4, <2>5 DEF gain
<1> HIDE DEF result, bound
<1>3. DivTrunc(result, 100) \in Int /\ DivTrunc(result, 100) * 100 <= bound
  BY <1>1, <1>2, HundredthBounded
<1>4. value = collateral + DivTrunc(result, 100)
  BY <1>3 DEF SettlementValue, MulDivFloor, result
<1>5. value \in Int /\ (value - collateral) * 100 <= bound
  BY <1>3, <1>4
<1> HIDE DEF value
<1>6. \/ settled = [payout |-> 0, fee |-> 0]
      \/ settled = [payout |-> FloorAtZero(value - closeFee), fee |-> closeFee]
  BY DEF SettlementPayout, value
<1> HIDE DEF settled
<1>7. CASE settled = [payout |-> 0, fee |-> 0]
  BY <1>1, <1>7 DEF settled, bound
<1>8. CASE settled = [payout |-> FloorAtZero(value - closeFee), fee |-> closeFee]
  <2>1. settled.payout = FloorAtZero(value - closeFee) /\ settled.fee = closeFee
    BY <1>8
  <2>2. FloorAtZero(value - closeFee) \in Nat
    BY <1>5 DEF FloorAtZero
  <2>3. closeFee <= collateral =>
            (FloorAtZero(value - closeFee) + closeFee - collateral) * 100 <= bound
    BY <1>1, <1>5 DEF FloorAtZero
  <2> QED
    BY <2>1, <2>2, <2>3 DEF settled, bound
<1> QED
  BY <1>6, <1>7, <1>8

(* What a close would settle, and within what cap.                          *)
LEMMA SettlementTypes ==
    ASSUME Ledger, NEW trader \in Holder, NEW i \in PairIndex, NEW n \in Slot,
           trade[<<trader, i, n>>] # None, trade[<<trader, i, n>>].openPrice > 0,
           Quoted(i), Charged(i),
           NEW collateral, collateral = trade[<<trader, i, n>>].collateral,
           NEW payout, payout = Settlement(trade[<<trader, i, n>>], i).payout,
           NEW fee, fee = Settlement(trade[<<trader, i, n>>], i).fee
    PROVE  /\ collateral \in Nat /\ payout \in Nat /\ fee \in Nat
           /\ fee <= collateral =>
                 (payout + fee - collateral) * 100 <= collateral * pair[i].maxGainP
<1> DEFINE t == trade[<<trader, i, n>>]
           settled == Settlement(t, i)
           profit == CurrentPercentProfit(t.openPrice, PriceOf(i), t.isLong, t.leverage,
                                          pair[i].maxGainP)
           closeFee == FeeOn(t.collateral * t.leverage, GroupOf(i).closeFeeP)
<1>1. RegistryTypeOK /\ PmTypeOK
  BY DEF Ledger
<1>2. Quoted(i) /\ Charged(i) /\ t.openPrice > 0
  OBVIOUS
<1>3. /\ t.collateral \in Nat /\ t.leverage \in Nat /\ t.openPrice \in Nat
      /\ t.isLong \in BOOLEAN
  <2>1. t \in Trade
    BY <1>1, KeysFinite DEF PmTypeOK
  <2> HIDE DEF t
  <2> QED
    BY <2>1 DEF Trade
<1>4. PriceOf(i) \in Nat /\ pair[i].maxGainP \in Nat /\ pair[i].liqThresholdP \in Nat
  BY <1>1, <1>2, QuoteTypes DEF PairInfo
<1>5. closeFee \in Nat
  <2>1. t.collateral * t.leverage \in Nat /\ GroupOf(i).closeFeeP \in Nat
    BY <1>1, <1>2, <1>3, TimesNat, GroupTypes
  <2> QED
    BY <2>1, FeeTypes
<1>6. profit \in Int /\ profit <= pair[i].maxGainP * P_SCALE
  <2> HIDE DEF t
  <2> QED
    BY <1>2, <1>3, <1>4, ProfitCapped
<1>7. settled = SettlementPayout(t.collateral, profit, 0, 0, closeFee, pair[i].liqThresholdP)
  BY DEF Settlement
<1> HIDE DEF t, settled, profit, closeFee
<1>8. /\ settled.payout \in Nat /\ settled.fee \in Nat
      /\ settled.fee <= t.collateral =>
            (settled.payout + settled.fee - t.collateral) * 100
              <= t.collateral * pair[i].maxGainP
  BY <1>3, <1>4, <1>5, <1>6, <1>7, PayoutCapped
<1> QED
  BY <1>2, <1>3, <1>8 DEF t, settled

(* What close_market_trade and execute_tp_sl settle.                        *)
LEMMA CloseSettles ==
    ASSUME Ledger, NEW trader \in Holder, NEW i \in PairIndex, NEW n \in Slot,
           trade[<<trader, i, n>>] # None, CloseAtMarket(trader, i, n),
           NEW collateral, collateral = trade[<<trader, i, n>>].collateral,
           NEW payout, payout = Settlement(trade[<<trader, i, n>>], i).payout,
           NEW fee, fee = Settlement(trade[<<trader, i, n>>], i).fee
    PROVE  /\ Quoted(i) /\ collateral \in Nat /\ payout \in Nat /\ fee \in Nat
           /\ SettleTrade(trader, i, n, collateral - fee, payout - (collateral - fee))
           /\ fee <= collateral =>
                 (payout + fee - collateral) * 100 <= collateral * pair[i].maxGainP
<1>1. /\ Quoted(i) /\ Charged(i) /\ trade[<<trader, i, n>>].openPrice > 0
      /\ SettleTrade(trader, i, n, collateral - fee, payout - (collateral - fee))
  BY DEF CloseAtMarket
<1> QED
  BY <1>1, SettlementTypes

(* What close_market_trade and execute_tp_sl do. *)
LEMMA CloseKeeps ==
    ASSUME Ledger, NEW trader \in Holder, NEW i \in PairIndex, NEW n \in Slot,
           trade[<<trader, i, n>>] # None, CloseAtMarket(trader, i, n)
    PROVE  Kept
<1> DEFINE collateral == trade[<<trader, i, n>>].collateral
           payout == Settlement(trade[<<trader, i, n>>], i).payout
           fee == Settlement(trade[<<trader, i, n>>], i).fee
           fromPm == collateral - fee
<1>1. /\ collateral \in Nat /\ payout \in Nat /\ fee \in Nat
      /\ SettleTrade(trader, i, n, fromPm, payout - fromPm)
      /\ fee <= collateral =>
            (payout + fee - collateral) * 100 <= collateral * pair[i].maxGainP
  BY CloseSettles
<1> HIDE DEF payout, fee
<1>2. /\ fromPm \in Int /\ payout - fromPm \in Int /\ fromPm <= collateral
      /\ fromPm >= 0 => fee <= collateral
      /\ payout - fromPm = payout + fee - collateral
  BY <1>1
<1> HIDE DEF fromPm
<1> QED
  BY <1>1, <1>2, EndKeeps

(* What the trader gets of it, and what the PositionManager keeps.          *)
LEMMA ClosePays ==
    ASSUME Ledger, NEW trader \in Holder, NEW i \in PairIndex, NEW n \in Slot,
           trade[<<trader, i, n>>] # None, CloseAtMarket(trader, i, n)
    PROVE  /\ Quoted(i)
           /\ usdc'[trader] - usdc[trader] = Settlement(trade[<<trader, i, n>>], i).payout
           /\ FeesKept' - FeesKept = Settlement(trade[<<trader, i, n>>], i).fee
<1> DEFINE collateral == trade[<<trader, i, n>>].collateral
           payout == Settlement(trade[<<trader, i, n>>], i).payout
           fee == Settlement(trade[<<trader, i, n>>], i).fee
           fromPm == collateral - fee
<1>1. /\ Quoted(i) /\ collateral \in Nat /\ payout \in Nat /\ fee \in Nat
      /\ SettleTrade(trader, i, n, fromPm, payout - fromPm)
  BY CloseSettles
<1> HIDE DEF payout, fee
<1>2. fromPm \in Int /\ payout - fromPm \in Int
  BY <1>1
<1>3. /\ usdc'[trader] - usdc[trader] = fromPm + (payout - fromPm)
      /\ FeesKept' - FeesKept = collateral - fromPm
  <2> HIDE DEF fromPm
  <2> QED
    BY <1>1, <1>2, EndPays
<1> HIDE DEF collateral
<1>4. /\ usdc'[trader] - usdc[trader] = payout /\ FeesKept' - FeesKept = fee
  BY <1>1, <1>3
<1> QED
  BY <1>1, <1>4 DEF payout, fee

(* A liquidation is an end that pays the trader nothing.                    *)
LEMMA LiquidateKeeps ==
    ASSUME Ledger, NEW trader \in Holder, NEW i \in PairIndex, NEW n \in Slot,
           LiquidateTrade(trader, i, n)
    PROVE  Kept
<1> DEFINE t == trade[<<trader, i, n>>]
<1>1. t # None /\ Quoted(i) /\ SettleTrade(trader, i, n, t.collateral, -t.collateral)
  BY DEF LiquidateTrade
<1>2. RegistryTypeOK /\ PmTypeOK
  BY DEF Ledger
<1>3. t.collateral \in Nat
  <2>1. t \in Trade
    BY <1>1, <1>2, KeysFinite DEF PmTypeOK
  <2> HIDE DEF t
  <2> QED
    BY <2>1 DEF Trade
<1>4. t.collateral * pair[i].maxGainP \in Nat
  <2>1. pair[i].maxGainP \in Nat
    BY <1>1, <1>2, QuoteTypes DEF PairInfo
  <2> QED
    BY <1>3, <2>1, TimesNat
<1>5. /\ t.collateral \in Int /\ -t.collateral \in Int /\ t.collateral <= t.collateral
      /\ (-t.collateral) * 100 <= t.collateral * pair[i].maxGainP
  BY <1>3, <1>4
<1> QED
  BY <1>1, <1>5, EndKeeps

-----------------------------------------------------------------------------
(* The steps that touch no trade and no order.                              *)

(* A step that touches no record, and takes nothing from the balance.       *)
LEMMA UntouchedKeeps ==
    ASSUME Ledger, Books', RegistryTypeOK', Clock', PmTypeOK',
           UNCHANGED <<trade, limitOrder, openInterest>>, usdc'[PmAddr] >= usdc[PmAddr]
    PROVE  Kept
<1>1. OiMatchesTrades'
  BY DEF Ledger, OiMatchesTrades, SideNotional
<1>2. Ledger'
  BY <1>1 DEF Ledger
<1>3. /\ Total(Stakes(trade)) \in Nat /\ Total(Stakes(limitOrder)) \in Nat
      /\ usdc[PmAddr] \in Nat /\ usdc'[PmAddr] \in Nat
  BY StakesTyped, Addresses DEF Ledger, PmTypeOK, Books, VaultTypeOK
<1> QED
  BY <1>2, <1>3, KeptWithoutEnd

(* LPs enter from their own accounts and are paid from the vault's.         *)
LEMMA LpSparesManager ==
    ASSUME Books, LpStep
    PROVE  usdc'[PmAddr] >= usdc[PmAddr]
<1> USE Accounts, Addresses
<1>1. PICK from \in Holder, amount \in Amount, r \in Account :
          \/ Deposit(from, amount, r) \/ Mint(from, amount, r)
          \/ Redeem(from, amount, r) \/ Withdraw(from, amount, r)
  BY DEF LpStep
<1>2. /\ amount \in Int /\ usdc \in [Account -> Nat] /\ usdc[PmAddr] \in Nat
      /\ totalAssets \in Nat /\ totalShares \in Nat
  BY AmountAssumption DEF Books, VaultTypeOK
<1>3. /\ AssetsToShares(amount, totalAssets, totalShares) \in Int
      /\ SharesToAssets(amount, totalAssets, totalShares) \in Int
  BY <1>2, ConversionTypes
<1>4. ASSUME NEW assets \in Int, NEW payer \in Account, NEW payee \in Account,
             payer # PmAddr, CanTransfer(usdc, payer, assets),
             usdc' = Transfer(usdc, payer, payee, assets)
      PROVE  usdc'[PmAddr] >= usdc[PmAddr]
  <2>1. usdc'[PmAddr] = usdc[PmAddr] - 0 + (IF PmAddr = payee THEN assets ELSE 0)
    BY <1>2, <1>4, TransferMoves
  <2> QED
    BY <1>2, <1>4, <2>1 DEF CanTransfer
<1>5. CASE Deposit(from, amount, r)
  BY <1>2, <1>4, <1>5 DEF Deposit, TakeIn
<1>6. CASE Mint(from, amount, r)
  BY <1>3, <1>4, <1>6 DEF Mint, TakeIn
<1>7. CASE Redeem(from, amount, r)
  BY <1>3, <1>4, <1>7 DEF Redeem, PayOut
<1>8. CASE Withdraw(from, amount, r)
  BY <1>2, <1>4, <1>8 DEF Withdraw, PayOut
<1> QED
  BY <1>1, <1>5, <1>6, <1>7, <1>8

(* LPs, the share token, the vault's own settings and the passing ledger.    *)
LEMMA PoolKeeps ==
    ASSUME Ledger, PoolStep
    PROVE  Kept
<1>1. /\ LpStep \/ ShareTokenStep \/ VaultAdminStep \/ CloseLedger
      /\ UNCHANGED <<registryVars, pmVars, oracle>>
  BY DEF PoolStep
<1>2. Books /\ RegistryTypeOK /\ PmTypeOK /\ Clock
  BY DEF Ledger
<1>3. Books'
  BY <1>1, <1>2, LpKeepsBooks, ShareTokenKeepsBooks, AdminKeepsBooks
<1>4. Clock'
  <2>1. sequence' = sequence \/ sequence' = sequence + 1
    BY <1>1 DEF LpStep, Deposit, Mint, Redeem, Withdraw, TakeIn, PayOut, ShareTokenStep,
       Approve, TransferShares, TransferFrom, Burn, BurnFrom, VaultAdminStep, SetWithdrawLock,
       SetPositionManager, Pause, Unpause, CloseLedger, AdvanceSequence
  <2> QED
    BY <1>2, <2>1, LedgerAssumption DEF Clock
<1>5. usdc'[PmAddr] >= usdc[PmAddr]
  <2>1. CASE LpStep
    BY <1>2, <2>1, LpSparesManager
  <2>2. CASE ShareTokenStep \/ VaultAdminStep \/ CloseLedger
    <3>1. usdc' = usdc
      BY <2>2 DEF ShareTokenStep, Approve, TransferShares, TransferFrom, Burn, BurnFrom,
         VaultAdminStep, SetWithdrawLock, SetPositionManager, Pause, Unpause, CloseLedger
    <3>2. usdc[PmAddr] \in Nat
      BY <1>2, Addresses DEF Books, VaultTypeOK
    <3> QED
      BY <3>1, <3>2
  <2> QED
    BY <1>1, <2>1, <2>2
<1>6. RegistryTypeOK' /\ PmTypeOK' /\ UNCHANGED <<trade, limitOrder, openInterest>>
  BY <1>1, <1>2 DEF RegistryTypeOK, PmTypeOK, registryVars, accumulators, pmVars, oracle
<1> QED
  BY <1>3, <1>4, <1>5, <1>6, UntouchedKeeps

(* The registry's setters and the PositionManager's limit on trades.        *)
LEMMA AdminKeeps ==
    ASSUME Ledger, AdminStep
    PROVE  Kept
<1>1. Books /\ RegistryTypeOK /\ PmTypeOK /\ Clock /\ usdc[PmAddr] \in Nat
  BY Addresses DEF Ledger, Books, VaultTypeOK
<1>2. ASSUME NEW max \in MaxTrades, SetMaxTradesPerPair(max)
      PROVE  Kept
  <2>1. /\ UNCHANGED <<usdc, sequence, vaultVars, registryVars, trade, limitOrder, oracle>>
        /\ maxTrades' \in Nat
    BY <1>2, PositionAssumption DEF SetMaxTradesPerPair
  <2>2. Books' /\ RegistryTypeOK' /\ Clock' /\ PmTypeOK'
    BY <1>1, <2>1, BooksUntouched
       DEF Books, VaultTypeOK, RegistryTypeOK, registryVars, accumulators, Clock, PmTypeOK,
           oracle
  <2> QED
    BY <1>1, <2>1, <2>2, UntouchedKeeps DEF registryVars
<1>3. CASE RegistryAdminStep /\ UNCHANGED <<usdc, sequence, vaultVars, pmVars, oracle>>
  <2>1. RegistryTypeOK' /\ Clock'
    BY <1>1, <1>3, TypesStep DEF RegistryNext
  <2>2. UNCHANGED openInterest
    BY <1>3 DEF RegistryAdminStep, AddPair, UpdatePair, DisablePair, SetRolloverRateP,
       SetFundingRateP, SetOnePercentDepth, AddGroup, UpdateGroup, SetGroupOpenFeeP,
       SetGroupCloseFeeP, SetRegistryManager, SetMaxPosUsdc
  <2>3. Books' /\ PmTypeOK'
    BY <1>1, <1>3, BooksUntouched DEF Books, VaultTypeOK, PmTypeOK, pmVars, oracle
  <2> QED
    BY <1>1, <1>3, <2>1, <2>2, <2>3, UntouchedKeeps DEF pmVars
<1> QED
  BY <1>2, <1>3 DEF AdminStep

(* A new price, a lost one, or a change of the feed's decimals.             *)
LEMMA OracleKeeps ==
    ASSUME Ledger, OracleStep
    PROVE  Kept
<1>1. Books /\ RegistryTypeOK /\ PmTypeOK /\ Clock /\ usdc[PmAddr] \in Nat
  BY Addresses DEF Ledger, Books, VaultTypeOK
<1>2. /\ UNCHANGED <<usdc, sequence, vaultVars, registryVars, pmVars>>
      /\ price' \in [Asset -> Price \cup {None}] /\ decimals' \in Decimals
  BY <1>1 DEF OracleStep, MovePrice, SetReflectorContract, PmTypeOK
<1>3. Books' /\ RegistryTypeOK' /\ Clock' /\ PmTypeOK'
  BY <1>1, <1>2, BooksUntouched
     DEF Books, VaultTypeOK, RegistryTypeOK, registryVars, accumulators, Clock, PmTypeOK,
         pmVars
<1> QED
  BY <1>1, <1>2, <1>3, UntouchedKeeps DEF registryVars, pmVars

(* Every entry point a trader calls.                                        *)
LEMMA TraderKeeps ==
    ASSUME Ledger, TraderStep
    PROVE  Kept
<1>1. PICK trader \in Holder, i \in PairIndex :
        \/ \E isLong \in BOOLEAN, collateral \in Collateral, leverage \in Leverage,
              tp, sl \in TriggerPrice :
            \/ OpenMarketTrade(trader, i, isLong, collateral, leverage, tp, sl)
            \/ \E limitPrice \in LimitPrice :
                PlaceLimitOrder(trader, i, isLong, collateral, leverage, limitPrice, tp, sl)
        \/ \E n \in Slot :
            \/ CloseMarketTrade(trader, i, n)
            \/ CancelLimitOrder(trader, i, n)
            \/ \E tp, sl \in TriggerPrice :
                \/ UpdateTpSl(trader, i, n, tp, sl)
                \/ \E limitPrice \in LimitPrice :
                    UpdateLimitOrder(trader, i, n, limitPrice, tp, sl)
  BY DEF TraderStep
<1>2. ASSUME NEW isLong \in BOOLEAN, NEW collateral \in Collateral, NEW leverage \in Leverage,
             NEW tp \in TriggerPrice, NEW sl \in TriggerPrice,
             \/ OpenMarketTrade(trader, i, isLong, collateral, leverage, tp, sl)
             \/ \E limitPrice \in LimitPrice :
                 PlaceLimitOrder(trader, i, isLong, collateral, leverage, limitPrice, tp, sl)
      PROVE  Kept
  BY <1>2, OpenKeeps, PlaceKeeps
<1>3. ASSUME NEW n \in Slot, CloseMarketTrade(trader, i, n)
      PROVE  Kept
  BY <1>3, CloseKeeps DEF CloseMarketTrade
<1>4. ASSUME NEW n \in Slot, CancelLimitOrder(trader, i, n)
      PROVE  Kept
  BY <1>4, CancelKeeps
<1>5. ASSUME NEW n \in Slot, NEW tp \in TriggerPrice, NEW sl \in TriggerPrice,
             \/ UpdateTpSl(trader, i, n, tp, sl)
             \/ \E limitPrice \in LimitPrice :
                 UpdateLimitOrder(trader, i, n, limitPrice, tp, sl)
      PROVE  Kept
  BY <1>5, UpdateTpSlKeeps, UpdateOrderKeeps
<1> QED
  BY <1>1, <1>2, <1>3, <1>4, <1>5

(* Every entry point a keeper calls.                                        *)
LEMMA KeeperKeeps ==
    ASSUME Ledger, KeeperStep
    PROVE  Kept
<1>1. PICK trader \in Holder, i \in PairIndex, n \in Slot :
          ExecuteLimitOrder(trader, i, n) \/ LiquidateTrade(trader, i, n)
            \/ ExecuteTpSl(trader, i, n)
  BY DEF KeeperStep
<1>2. CASE ExecuteTpSl(trader, i, n)
  BY <1>2, CloseKeeps DEF ExecuteTpSl
<1> QED
  BY <1>1, <1>2, ExecuteKeeps, LiquidateKeeps

(* Every step keeps the ledger, the fees collected and what ends conserve.  *)
LEMMA StepKeeps == Ledger /\ [Next]_vars => Kept
<1> SUFFICES ASSUME Ledger, [Next]_vars PROVE Kept
  OBVIOUS
<1>1. CASE UNCHANGED vars
  <2>1. Books /\ RegistryTypeOK /\ PmTypeOK /\ Clock /\ usdc[PmAddr] \in Nat
    BY Addresses DEF Ledger, Books, VaultTypeOK
  <2>2. Books' /\ RegistryTypeOK' /\ Clock' /\ PmTypeOK'
    BY <1>1, <2>1, BooksUntouched
       DEF vars, Books, VaultTypeOK, RegistryTypeOK, registryVars, accumulators, Clock,
           PmTypeOK, pmVars, oracle
  <2> QED
    BY <1>1, <2>1, <2>2, UntouchedKeeps DEF vars, registryVars, pmVars
<1> QED
  BY <1>1, TraderKeeps, KeeperKeeps, OracleKeeps, PoolKeeps, AdminKeeps DEF Next

(* A fresh deployment has an empty ledger and no fees.                      *)
LEMMA InitLedger == Init => Ledger /\ FeesKept >= 0
<1> SUFFICES ASSUME Init PROVE Ledger /\ FeesKept >= 0
  OBVIOUS
<1>1. Books
  BY InitBooks DEF Init
<1>2. Clock
  BY LedgerAssumption DEF Init, VaultInit, Clock
<1>3. RegistryTypeOK
  <2>1. pair \in [PairIndex -> PairInfo \cup {None}]
    BY ConfigAssumption DEF Init
  <2>2. group \in [GroupIndex -> Group \cup {None}]
    <3>1. \A g \in GroupConfig : ValidGroup(g) => g \in Group
      BY ConfigAssumption DEF ValidGroup, Group
    <3> QED
      BY <3>1 DEF Init
  <2>3. rollover \in [PairIndex -> RolloverState] /\ funding \in [PairIndex -> FundingState]
    BY LedgerAssumption DEF Init, RolloverState, FundingState
  <2>4. openInterest \in [PairIndex -> PairOi] /\ depth \in [PairIndex -> Nat]
    BY DEF Init, PairOi
  <2>5. pairsCount \in Nat
    BY PositionAssumption, FS_CardinalityType DEF Init
  <2>6. maxPosUsdc \in Nat /\ registryManager \in Manager
    BY RegistryAssumption, PositionAssumption DEF Init
  <2> QED
    BY <2>1, <2>2, <2>3, <2>4, <2>5, <2>6 DEF RegistryTypeOK
<1>4. PmTypeOK
  BY PositionAssumption DEF Init, PmTypeOK
<1>5. OiMatchesTrades
  <2> SUFFICES ASSUME NEW i \in PairIndex, NEW isLong \in BOOLEAN
               PROVE  SideOf(openInterest[i], isLong) = Total(SideNotional(i, isLong))
    BY DEF OiMatchesTrades
  <2>1. /\ SideNotional(i, isLong) \in [Key -> Nat]
        /\ \A k \in Key : SideNotional(i, isLong)[k] = 0
    BY DEF Init, SideNotional
  <2>2. Total(SideNotional(i, isLong)) = 0
    BY <2>1, KeysFinite, TotalBounds
  <2> QED
    BY <2>2 DEF Init, SideOf
<1>6. Custody = 0
  <2>1. /\ TradeCollateral \in [Key -> Nat] /\ OrderCollateral \in [Key -> Nat]
        /\ \A k \in Key : TradeCollateral[k] = 0 /\ OrderCollateral[k] = 0
    BY DEF Init, TradeCollateral, OrderCollateral
  <2>2. Total(TradeCollateral) = 0 /\ Total(OrderCollateral) = 0
    BY <2>1, KeysFinite, TotalBounds
  <2> QED
    BY <2>2 DEF Custody
<1>7. usdc[PmAddr] \in Nat
  BY <1>1, Addresses DEF Books, VaultTypeOK
<1> QED
  BY <1>1, <1>2, <1>3, <1>4, <1>5, <1>6, <1>7 DEF Ledger, FeesKept

(* The fees that have been collected are an integer, so they can be compared. *)
LEMMA FeesTyped ==
    /\ Ledger => FeesKept \in Int /\ usdc[PmAddr] \in Nat /\ Custody \in Nat
    /\ Ledger' => FeesKept' \in Int
<1>1. Ledger => FeesKept \in Int /\ usdc[PmAddr] \in Nat /\ Custody \in Nat
  <2> SUFFICES ASSUME Ledger
               PROVE  FeesKept \in Int /\ usdc[PmAddr] \in Nat /\ Custody \in Nat
    OBVIOUS
  <2>1. /\ Total(Stakes(trade)) \in Nat /\ Total(Stakes(limitOrder)) \in Nat
        /\ usdc[PmAddr] \in Nat
    BY StakesTyped, Addresses DEF Ledger, PmTypeOK, Books, VaultTypeOK
  <2> QED
    BY <2>1, BooksOfRecords DEF FeesKept
<1>2. Ledger' => FeesKept' \in Int
  <2> SUFFICES ASSUME Ledger' PROVE FeesKept' \in Int
    OBVIOUS
  <2>1. /\ Total(Stakes(trade')) \in Nat /\ Total(Stakes(limitOrder')) \in Nat
        /\ usdc'[PmAddr] \in Nat
    BY StakesTyped, Addresses DEF Ledger, PmTypeOK, Books, VaultTypeOK
  <2> QED
    BY <2>1, BooksOfRecords DEF FeesKept
<1> QED
  BY <1>1, <1>2

(* The ledger is an invariant.                                              *)
LEMMA LedgerKept == Spec => []Ledger
<1>1. Ledger /\ [Next]_vars => Ledger'
  BY StepKeeps DEF Kept
<1>2. Init => Ledger
  BY InitLedger
<1> QED
  BY <1>1, <1>2, PTL DEF Spec

-----------------------------------------------------------------------------
(* Every variable of the three contracts and the oracle keeps its type,     *)
(* whatever the traders, keepers, LPs and admins do to each other.         *)
THEOREM CompositionTypes == Spec => []TypeOK
<1>1. Ledger => TypeOK
  BY DEF Ledger, Books, PmTypeOK, TypeOK
<1> QED
  BY <1>1, LedgerKept, PTL

(* The vault stays solvent under the PositionManager's settlements: what it *)
(* is told it received is what it received.                                *)
THEOREM SolventComposed == Spec => []Solvent
<1>1. Ledger => Solvent
  BY DEF Ledger, Books
<1> QED
  BY <1>1, LedgerKept, PTL

(* The registry's open interest is the notional of the trades held, on both *)
(* sides of every pair, so the floor in sub_oi never hides a difference.    *)
THEOREM OiTheorem == Spec => []OiMatchesTrades
<1>1. Ledger => OiMatchesTrades
  BY DEF Ledger
<1> QED
  BY <1>1, LedgerKept, PTL

(* The PositionManager's balance covers the collateral of all open trades   *)
(* and resting orders, at whatever fees they were and are settled.          *)
THEOREM CustodyTheorem == Spec => []CustodyBacked
<1>1. Init => FeesKept >= 0
  BY InitLedger
<1>2. Ledger /\ FeesKept >= 0 /\ [Next]_vars => (FeesKept >= 0)'
  <2> SUFFICES ASSUME Ledger, FeesKept >= 0, [Next]_vars PROVE FeesKept' >= 0
    OBVIOUS
  <2>1. FeesKept' >= FeesKept /\ Ledger'
    BY StepKeeps DEF Kept
  <2>2. FeesKept \in Int
    BY FeesTyped
  <2>3. FeesKept' \in Int
    BY <2>1, FeesTyped
  <2> QED
    BY <2>1, <2>2, <2>3
<1>3. Ledger /\ FeesKept >= 0 => CustodyBacked
  BY FeesTyped DEF FeesKept, CustodyBacked
<1> QED
  BY <1>1, <1>2, <1>3, LedgerKept, PTL DEF Spec

(* No step pays anybody out of the fees collected. *)
THEOREM FeesTheorem == Spec => FeesNeverLeave
<1>1. Ledger /\ [Next]_vars => [FeesKept' >= FeesKept]_<<usdc[PmAddr], trade, limitOrder>>
  BY StepKeeps DEF Kept
<1> QED
  BY <1>1, LedgerKept, PTL DEF Spec, FeesNeverLeave

(* However a trade ends, its collateral is split between trader, LPs and    *)
(* fees to the last unit, and the LPs pay no more than the gain cap.        *)
THEOREM SettlementTheorem == Spec => SettlementConserves
<1>1. Ledger /\ [Next]_vars => [Conserved]_trade
  BY StepKeeps DEF Kept
<1>2. Spec => [][Conserved]_trade
  BY <1>1, LedgerKept, PTL DEF Spec
<1> QED
  BY <1>2 DEF SettlementConserves, Conserved

(* What the PositionManager and the registry do leaves the share balances   *)
(* alone.                                                                   *)
LEMMA StakesUntouched ==
    TraderStep \/ KeeperStep \/ OracleStep \/ AdminStep => UNCHANGED balance
<1>1. \A trader, i, n, fromPm, net : SettleTrade(trader, i, n, fromPm, net) => UNCHANGED balance
  BY DEF SettleTrade, Settle, ReturnCollateralWithPnl
<1>2. TraderStep => UNCHANGED balance
  <2> SUFFICES ASSUME TraderStep PROVE UNCHANGED balance
    OBVIOUS
  <2>1. ASSUME NEW trader, NEW i, NEW isLong, NEW collateral, NEW leverage, NEW tp, NEW sl,
               \/ OpenMarketTrade(trader, i, isLong, collateral, leverage, tp, sl)
               \/ \E limitPrice \in LimitPrice :
                   PlaceLimitOrder(trader, i, isLong, collateral, leverage, limitPrice, tp, sl)
        PROVE  UNCHANGED balance
    BY <2>1 DEF OpenMarketTrade, PlaceLimitOrder, vaultVars, fund
  <2>2. ASSUME NEW trader, NEW i, NEW n,
               CloseMarketTrade(trader, i, n) \/ CancelLimitOrder(trader, i, n)
        PROVE  UNCHANGED balance
    BY <1>1, <2>2 DEF CloseMarketTrade, CloseAtMarket, CancelLimitOrder, vaultVars, fund
  <2>3. ASSUME NEW trader, NEW i, NEW n, NEW tp, NEW sl,
               \/ UpdateTpSl(trader, i, n, tp, sl)
               \/ \E limitPrice \in LimitPrice :
                   UpdateLimitOrder(trader, i, n, limitPrice, tp, sl)
        PROVE  UNCHANGED balance
    BY <2>3 DEF UpdateTpSl, UpdateLimitOrder, vaultVars, fund
  <2>4. PICK trader \in Holder, i \in PairIndex :
          \/ \E isLong \in BOOLEAN, collateral \in Collateral, leverage \in Leverage,
                tp, sl \in TriggerPrice :
              \/ OpenMarketTrade(trader, i, isLong, collateral, leverage, tp, sl)
              \/ \E limitPrice \in LimitPrice :
                  PlaceLimitOrder(trader, i, isLong, collateral, leverage, limitPrice, tp, sl)
          \/ \E n \in Slot :
              \/ CloseMarketTrade(trader, i, n)
              \/ CancelLimitOrder(trader, i, n)
              \/ \E tp, sl \in TriggerPrice :
                  \/ UpdateTpSl(trader, i, n, tp, sl)
                  \/ \E limitPrice \in LimitPrice :
                      UpdateLimitOrder(trader, i, n, limitPrice, tp, sl)
    BY DEF TraderStep
  <2> QED
    BY <2>1, <2>2, <2>3, <2>4
<1>3. KeeperStep => UNCHANGED balance
  BY <1>1 DEF KeeperStep, ExecuteLimitOrder, LiquidateTrade, ExecuteTpSl, CloseAtMarket,
     vaultVars, fund
<1>4. OracleStep \/ AdminStep => UNCHANGED balance
  BY DEF OracleStep, MovePrice, SetReflectorContract, AdminStep, SetMaxTradesPerPair,
     vaultVars, fund
<1> QED
  BY <1>2, <1>3, <1>4

(* The vault is still a pooled fund when it is the trades that it backs     *)
(* which win and lose: no trade, order or liquidation makes, moves or       *)
(* loses a share, and none leaves the pool in debt.                         *)
THEOREM FundComposed == Spec => FundImplemented
<1>1. Init => Fund!Init
  BY InitMapped DEF Init
<1>2. Ledger /\ [Next]_vars => [Fund!Next]_<<balance, totalAssets>>
  <2> SUFFICES ASSUME Ledger, [Next]_vars
               PROVE  [Fund!Next]_<<balance, totalAssets>>
    OBVIOUS
  <2>1. Books /\ totalAssets' \in Nat
    BY StepKeeps DEF Kept, Ledger, Books, VaultTypeOK
  <2>2. CASE UNCHANGED vars
    BY <2>2 DEF vars, vaultVars, fund
  <2>3. CASE TraderStep \/ KeeperStep \/ OracleStep \/ AdminStep
    BY <2>1, <2>3, StakesUntouched DEF Fund!Next, Fund!Bear
  <2>4. CASE PoolStep
    <3>1. CASE LpStep \/ ShareTokenStep
      BY <2>1, <3>1, LpMapped, ShareTokenMapped
    <3>2. CASE VaultAdminStep \/ CloseLedger
      BY <3>2 DEF VaultAdminStep, SetWithdrawLock, SetPositionManager, Pause, Unpause,
         CloseLedger, vaultVars, fund
    <3> QED
      BY <2>4, <3>1, <3>2 DEF PoolStep
  <2> QED
    BY <2>2, <2>3, <2>4 DEF Next
<1> QED
  BY <1>1, <1>2, LedgerKept, PTL DEF Spec, FundImplemented, Fund!Spec

-----------------------------------------------------------------------------
(* The registry's configuration, in the composition: every pair that was    *)
(* listed stays listed, with parameters the formulas accept and a group.   *)
Configured == PairsUsable /\ \A i \in PairIndex : HasPair(i)

(* Traders, keepers, the oracle and LPs change no configuration.            *)
LEMMA ConfigUntouched ==
    TraderStep \/ KeeperStep \/ OracleStep \/ PoolStep => UNCHANGED <<pair, group>>
<1>1. \A trader, i, n, fromPm, net :
          SettleTrade(trader, i, n, fromPm, net) => UNCHANGED <<pair, group>>
  BY DEF SettleTrade, SubOi
<1>2. \A trader, i, isLong, leverage, effective, tp, sl :
          RecordTrade(trader, i, isLong, leverage, effective, tp, sl)
            => UNCHANGED <<pair, group>>
  BY DEF RecordTrade, AddOi
<1>3. ASSUME NEW trader, NEW i, NEW n,
             \/ CloseAtMarket(trader, i, n) \/ CancelLimitOrder(trader, i, n)
             \/ LiquidateTrade(trader, i, n) \/ ExecuteLimitOrder(trader, i, n)
      PROVE  UNCHANGED <<pair, group>>
  BY <1>1, <1>2, <1>3 DEF CloseAtMarket, CancelLimitOrder, LiquidateTrade, ExecuteLimitOrder,
     registryVars
<1>4. ASSUME TraderStep PROVE UNCHANGED <<pair, group>>
  <2>1. PICK trader \in Holder, i \in PairIndex :
          \/ \E isLong \in BOOLEAN, collateral \in Collateral, leverage \in Leverage,
                tp, sl \in TriggerPrice :
              \/ OpenMarketTrade(trader, i, isLong, collateral, leverage, tp, sl)
              \/ \E limitPrice \in LimitPrice :
                  PlaceLimitOrder(trader, i, isLong, collateral, leverage, limitPrice, tp, sl)
          \/ \E n \in Slot :
              \/ CloseMarketTrade(trader, i, n)
              \/ CancelLimitOrder(trader, i, n)
              \/ \E tp, sl \in TriggerPrice :
                  \/ UpdateTpSl(trader, i, n, tp, sl)
                  \/ \E limitPrice \in LimitPrice :
                      UpdateLimitOrder(trader, i, n, limitPrice, tp, sl)
    BY <1>4 DEF TraderStep
  <2>2. ASSUME NEW isLong, NEW collateral, NEW leverage, NEW tp, NEW sl,
               \/ OpenMarketTrade(trader, i, isLong, collateral, leverage, tp, sl)
               \/ \E limitPrice \in LimitPrice :
                   PlaceLimitOrder(trader, i, isLong, collateral, leverage, limitPrice, tp, sl)
        PROVE  UNCHANGED <<pair, group>>
    BY <1>2, <2>2 DEF OpenMarketTrade, PlaceLimitOrder, registryVars
  <2>3. ASSUME NEW n, NEW tp, NEW sl,
               \/ UpdateTpSl(trader, i, n, tp, sl)
               \/ \E limitPrice \in LimitPrice :
                   UpdateLimitOrder(trader, i, n, limitPrice, tp, sl)
        PROVE  UNCHANGED <<pair, group>>
    BY <2>3 DEF UpdateTpSl, UpdateLimitOrder, registryVars
  <2> QED
    BY <1>3, <2>1, <2>2, <2>3 DEF CloseMarketTrade
<1>5. ASSUME KeeperStep PROVE UNCHANGED <<pair, group>>
  BY <1>3, <1>5 DEF KeeperStep, ExecuteTpSl
<1>6. OracleStep \/ PoolStep => UNCHANGED <<pair, group>>
  BY DEF OracleStep, MovePrice, SetReflectorContract, PoolStep, registryVars
<1> QED
  BY <1>4, <1>5, <1>6

(* A fresh deployment has every pair listed, under a group that is there.   *)
LEMMA InitConfigured == Init => Configured
<1> SUFFICES ASSUME Init, NEW i \in PairIndex
             PROVE  HasPair(i) /\ ValidPairInfo(pair[i]) /\ HasGroup(pair[i].groupIndex)
  BY DEF Configured, PairsUsable
<1>1. pair[i] \in PairInfo /\ ValidPairInfo(pair[i]) /\ pair[i] # None
  BY ConfigAssumption DEF Init
<1>2. pair[i].groupIndex \in GroupIndex
  BY <1>1 DEF PairInfo
<1>3. \A g \in GroupConfig : ValidGroup(g) => g \in Group
  BY ConfigAssumption DEF ValidGroup, Group
<1>4. group[pair[i].groupIndex] # None
  BY <1>2, <1>3, ConfigAssumption DEF Init
<1> QED
  BY <1>1, <1>4 DEF HasPair, HasGroup

(* The admin's calls keep every pair listed and usable.                     *)
LEMMA ConfigStep == Ledger /\ Configured /\ [Next]_vars => Configured'
<1> SUFFICES ASSUME Ledger, Configured, [Next]_vars PROVE Configured'
  OBVIOUS
<1>1. CASE UNCHANGED <<pair, group>>
  BY <1>1 DEF Configured, PairsUsable, HasPair, HasGroup
<1>2. CASE RegistryAdminStep /\ UNCHANGED sequence
  <2>1. RegistryTypeOK /\ Clock /\ PairsUsable /\ RegistryNext
    BY <1>2 DEF Ledger, Configured, RegistryNext
  <2>2. PairsUsable'
    BY <2>1, UsableStep
  <2>3. \A i \in PairIndex : HasPair(i) => HasPair(i)'
    BY <2>1, PairsStay
  <2> QED
    BY <2>2, <2>3 DEF Configured
<1>3. CASE AdminStep
  BY <1>1, <1>2, <1>3 DEF AdminStep, SetMaxTradesPerPair, registryVars
<1> QED
  BY <1>1, <1>3, ConfigUntouched DEF Next, vars, registryVars

(* The configuration stays complete for ever.                               *)
LEMMA ConfigKept == Spec => []Configured
BY InitConfigured, ConfigStep, LedgerKept, PTL DEF Spec

(* Under the composed contracts too, every pair in the registry has         *)
(* parameters the formulas accept and a group to read its fees from, so no *)
(* configuration call can make get_group trap in a trader's close.         *)
THEOREM UsableComposed == Spec => []PairsUsable
BY ConfigKept, PTL DEF Configured

-----------------------------------------------------------------------------
(* Which steps end a trade, and what the winner of one is paid.             *)

(* The formulas on the winning side of the opening price.                   *)
Ahead(openPrice, closePrice, isLong) ==
    IF isLong THEN closePrice > openPrice ELSE closePrice < openPrice

(* A price on the winning side makes no loss.                               *)
LEMMA AheadGains ==
    ASSUME NEW openPrice \in Nat, NEW closePrice \in Nat, NEW isLong \in BOOLEAN,
           NEW leverage \in Nat, NEW maxGainP \in Nat, openPrice > 0,
           Ahead(openPrice, closePrice, isLong)
    PROVE  CurrentPercentProfit(openPrice, closePrice, isLong, leverage, maxGainP) \in Nat
<1> DEFINE diff == IF isLong THEN closePrice - openPrice ELSE openPrice - closePrice
           step == (diff * P_SCALE) \div openPrice
           cap == maxGainP * P_SCALE
<1>1. diff \in Nat /\ P_SCALE \in Nat
  BY ScaleAssumption DEF Ahead
<1> HIDE DEF diff
<1>2. diff * P_SCALE \in Nat /\ cap \in Nat
  BY <1>1, TimesNat
<1>3. step \in Nat
  BY <1>2, DivNat
<1> HIDE DEF step
<1>4. step * leverage * 100 \in Nat
  BY <1>3, TimesNat
<1>5. CurrentPercentProfit(openPrice, closePrice, isLong, leverage, maxGainP)
        = Clamp(step * leverage * 100, -cap, cap)
  BY DEF CurrentPercentProfit, MulDivFloor, step, diff
<1> HIDE DEF cap
<1> QED
  BY <1>2, <1>4, <1>5 DEF Clamp

(* The cutoff lies below the collateral, whatever threshold is configured,  *)
(* as long as there is one.                                                *)
LEMMA CutoffBelow ==
    ASSUME NEW collateral \in Nat, collateral > 0, NEW liqThresholdP \in Nat,
           liqThresholdP # 0
    PROVE  InsolvencyCutoff(collateral, liqThresholdP) \in Nat
           /\ InsolvencyCutoff(collateral, liqThresholdP) < collateral
<1> DEFINE share == FloorAtZero(100 - liqThresholdP)
<1>1. share \in Nat /\ share <= 99
  BY DEF FloorAtZero
<1> HIDE DEF share
<1>2. collateral * share \in Nat /\ collateral * share <= collateral * 99
  BY <1>1, TimesNat, TimesMonotone
<1> DEFINE product == collateral * share
<1>3. product \in Nat /\ product <= 99 * collateral
  BY <1>2
<1> HIDE DEF product
<1>4. DivTrunc(product, 100) \in Nat /\ DivTrunc(product, 100) < collateral
  BY <1>3 DEF DivTrunc
<1> QED
  BY <1>4 DEF InsolvencyCutoff, share, product

(* A settlement without a loss pays the collateral less the fee.            *)
LEMMA GainPaid ==
    ASSUME NEW collateral \in Nat, collateral > 0, NEW pnlP \in Nat, NEW closeFee \in Nat,
           NEW liqThresholdP \in Nat, liqThresholdP # 0
    PROVE  LET settled == SettlementPayout(collateral, pnlP, 0, 0, closeFee, liqThresholdP)
           IN /\ settled.payout \in Nat /\ settled.fee \in Nat
              /\ settled.payout + settled.fee >= collateral
<1> DEFINE settled == SettlementPayout(collateral, pnlP, 0, 0, closeFee, liqThresholdP)
           result == (collateral * pnlP) \div P_SCALE
           value == SettlementValue(collateral, pnlP, 0, 0)
           cutoff == InsolvencyCutoff(collateral, liqThresholdP)
<1>1. result \in Nat
  <2>1. collateral * pnlP \in Nat
    BY TimesNat
  <2> QED
    BY <2>1, ScaleAssumption, DivNat
<1> HIDE DEF result
<1>2. DivTrunc(result, 100) \in Nat
  BY <1>1 DEF DivTrunc
<1>3. value = collateral + DivTrunc(result, 100)
  BY <1>2 DEF SettlementValue, MulDivFloor, result
<1>4. value \in Nat /\ value >= collateral
  BY <1>2, <1>3
<1>5. cutoff \in Nat /\ cutoff < collateral
  BY CutoffBelow
<1>6. settled = IF value <= cutoff THEN [payout |-> 0, fee |-> 0]
                ELSE [payout |-> FloorAtZero(value - closeFee), fee |-> closeFee]
  BY DEF SettlementPayout
<1> HIDE DEF value, cutoff, settled
<1>7. settled.payout = FloorAtZero(value - closeFee) /\ settled.fee = closeFee
  BY <1>4, <1>5, <1>6
<1> QED
  BY <1>4, <1>7 DEF FloorAtZero, settled

(* No liquidation price lies on the winning side of the opening price.      *)
LEMMA AheadIsSafe ==
    ASSUME NEW openPrice \in Nat, NEW observed \in Nat, NEW isLong \in BOOLEAN,
           NEW collateral \in Nat, collateral > 0, NEW leverage \in Nat, leverage > 0,
           NEW liqThresholdP \in Nat, Ahead(openPrice, observed, isLong)
    PROVE  ~IsLiquidatable(observed,
                LiquidationPrice(openPrice, isLong, collateral, leverage, 0, 0, liqThresholdP),
                isLong)
<1> DEFINE bearable == DivTrunc(collateral * liqThresholdP, 100)
           reach == (openPrice * bearable) \div collateral
           distance == DivTrunc(reach, leverage)
           liqPrice == LiquidationPrice(openPrice, isLong, collateral, leverage, 0, 0,
                                        liqThresholdP)
<1>1. bearable \in Nat
  <2>1. collateral * liqThresholdP \in Nat
    BY TimesNat
  <2> QED
    BY <2>1, DivNat DEF DivTrunc
<1> HIDE DEF bearable
<1>2. reach \in Nat
  BY <1>1, TimesNat, DivNat
<1> HIDE DEF reach
<1>3. distance \in Nat
  BY <1>2, DivNat DEF DivTrunc
<1> HIDE DEF distance
<1>4. liqPrice = FloorAtZero(IF isLong THEN openPrice - distance ELSE openPrice + distance)
  <2>1. bearable - 0 - 0 = bearable
    BY <1>1
  <2> QED
    BY <2>1 DEF LiquidationPrice, MulDivFloor, distance, reach, bearable
<1> HIDE DEF liqPrice
<1>5. IF isLong THEN liqPrice < observed ELSE observed < liqPrice
  BY <1>3, <1>4 DEF FloorAtZero, Ahead
<1>6. liqPrice \in Int
  BY <1>3, <1>4 DEF FloorAtZero
<1> QED
  BY <1>5, <1>6 DEF IsLiquidatable, liqPrice

(* A trade ends by being settled, at the market or in liquidation, and only *)
(* by that: no other call removes it or stores something over it.          *)
LEMMA EndsBySettling ==
    ASSUME Ledger, Next, NEW k \in Key, trade[k] # None, trade'[k] = None
    PROVE  \E trader \in Holder, i \in PairIndex, n \in Slot :
               /\ k = <<trader, i, n>>
               /\ CloseAtMarket(trader, i, n) \/ LiquidateTrade(trader, i, n)
<1> USE KeysFinite
<1>1. trade \in [Key -> Trade \cup {None}] /\ RegistryTypeOK /\ PmTypeOK
  BY DEF Ledger, PmTypeOK
<1>2. ASSUME UNCHANGED trade PROVE FALSE
  BY <1>2
<1>3. ASSUME NEW trader \in Holder, NEW i \in PairIndex, NEW n \in Slot,
             NEW fromPm, NEW net, SettleTrade(trader, i, n, fromPm, net)
      PROVE  k = <<trader, i, n>>
  <2>1. trade' = [trade EXCEPT ![<<trader, i, n>>] = None]
    BY <1>3 DEF SettleTrade
  <2> QED
    BY <1>1, <2>1
<1>4. ASSUME NEW trader \in Holder, NEW i \in PairIndex, NEW n \in Slot,
             CloseAtMarket(trader, i, n) \/ LiquidateTrade(trader, i, n)
      PROVE  k = <<trader, i, n>>
  BY <1>3, <1>4 DEF CloseAtMarket, LiquidateTrade
<1>5. ASSUME NEW trader \in Holder, NEW i \in PairIndex, NEW isLong, NEW leverage,
             NEW effective, NEW tp, NEW sl,
             RecordTrade(trader, i, isLong, leverage, effective, tp, sl)
      PROVE  FALSE
  <2>1. PICK n \in Slot : /\ trade[<<trader, i, n>>] = None
                          /\ \A j \in Key \ {<<trader, i, n>>} : trade'[j] = trade[j]
    BY <1>1, <1>5 DEF RecordTrade, FirstFree
  <2> QED
    BY <2>1
<1>6. ASSUME NEW trader \in Holder, NEW i \in PairIndex, NEW n \in Slot,
             NEW tp \in TriggerPrice, NEW sl \in TriggerPrice, UpdateTpSl(trader, i, n, tp, sl)
      PROVE  FALSE
  <2> DEFINE t == trade[<<trader, i, n>>]
             updated == [isLong |-> t.isLong, leverage |-> t.leverage,
                         openPrice |-> t.openPrice, collateral |-> t.collateral,
                         tpPrice |-> tp, slPrice |-> sl]
  <2>1. t \in Trade /\ trade' = [trade EXCEPT ![<<trader, i, n>>] = updated]
    BY <1>1, <1>6 DEF UpdateTpSl
  <2>2. updated \in Trade
    <3> HIDE DEF t
    <3> QED
      BY <2>1, PositionAssumption DEF Trade
  <2>3. updated # None
    BY <2>2, StoreAssumption
  <2> HIDE DEF updated
  <2> QED
    BY <1>1, <2>1, <2>3
<1>7. CASE TraderStep
  <2>1. PICK trader \in Holder, i \in PairIndex :
          \/ \E isLong \in BOOLEAN, collateral \in Collateral, leverage \in Leverage,
                tp, sl \in TriggerPrice :
              \/ OpenMarketTrade(trader, i, isLong, collateral, leverage, tp, sl)
              \/ \E limitPrice \in LimitPrice :
                  PlaceLimitOrder(trader, i, isLong, collateral, leverage, limitPrice, tp, sl)
          \/ \E n \in Slot :
              \/ CloseMarketTrade(trader, i, n)
              \/ CancelLimitOrder(trader, i, n)
              \/ \E tp, sl \in TriggerPrice :
                  \/ UpdateTpSl(trader, i, n, tp, sl)
                  \/ \E limitPrice \in LimitPrice :
                      UpdateLimitOrder(trader, i, n, limitPrice, tp, sl)
    BY <1>7 DEF TraderStep
  <2>2. ASSUME NEW isLong, NEW collateral, NEW leverage, NEW tp, NEW sl,
               \/ OpenMarketTrade(trader, i, isLong, collateral, leverage, tp, sl)
               \/ \E limitPrice \in LimitPrice :
                   PlaceLimitOrder(trader, i, isLong, collateral, leverage, limitPrice, tp, sl)
        PROVE  FALSE
    <3>1. CASE OpenMarketTrade(trader, i, isLong, collateral, leverage, tp, sl)
      <4>1. RecordTrade(trader, i, isLong, leverage,
                        EffectiveCollateral(i, collateral, leverage), tp, sl)
        BY <3>1 DEF OpenMarketTrade
      <4> QED
        BY <1>5, <4>1
    <3>2. ASSUME NEW limitPrice,
                 PlaceLimitOrder(trader, i, isLong, collateral, leverage, limitPrice, tp, sl)
          PROVE  FALSE
      BY <1>2, <3>2 DEF PlaceLimitOrder
    <3> QED
      BY <2>2, <3>1, <3>2
  <2>3. PICK n \in Slot :
              \/ CloseMarketTrade(trader, i, n)
              \/ CancelLimitOrder(trader, i, n)
              \/ \E tp, sl \in TriggerPrice :
                  \/ UpdateTpSl(trader, i, n, tp, sl)
                  \/ \E limitPrice \in LimitPrice :
                      UpdateLimitOrder(trader, i, n, limitPrice, tp, sl)
    BY <2>1, <2>2
  <2>4. CloseAtMarket(trader, i, n)
    BY <1>2, <1>6, <2>3 DEF CloseMarketTrade, CancelLimitOrder, UpdateLimitOrder
  <2> QED
    BY <1>4, <2>4
<1>8. CASE KeeperStep
  <2>1. PICK trader \in Holder, i \in PairIndex, n \in Slot :
            ExecuteLimitOrder(trader, i, n) \/ LiquidateTrade(trader, i, n)
              \/ ExecuteTpSl(trader, i, n)
    BY <1>8 DEF KeeperStep
  <2>2. CloseAtMarket(trader, i, n) \/ LiquidateTrade(trader, i, n)
    BY <1>5, <2>1 DEF ExecuteLimitOrder, ExecuteTpSl
  <2> QED
    BY <1>4, <2>2
<1>9. CASE OracleStep \/ PoolStep \/ AdminStep
  BY <1>2, <1>9 DEF OracleStep, MovePrice, SetReflectorContract, PoolStep, AdminStep,
     SetMaxTradesPerPair, pmVars
<1> QED
  BY <1>7, <1>8, <1>9 DEF Next

(* The end of a trade the price has moved in favour of.                     *)
LEMMA WinnerPaid ==
    ASSUME Ledger, Configured, NEW trader \in Holder, NEW i \in PairIndex, NEW n \in Slot,
           trade[<<trader, i, n>>] # None, Winning(trade[<<trader, i, n>>], i),
           CloseAtMarket(trader, i, n) \/ LiquidateTrade(trader, i, n)
    PROVE  usdc'[trader] - usdc[trader]
             >= trade[<<trader, i, n>>].collateral - (FeesKept' - FeesKept)
<1> DEFINE t == trade[<<trader, i, n>>]
           settled == Settlement(t, i)
           profit == CurrentPercentProfit(t.openPrice, PriceOf(i), t.isLong, t.leverage,
                                          pair[i].maxGainP)
           closeFee == FeeOn(t.collateral * t.leverage, GroupOf(i).closeFeeP)
<1>1. RegistryTypeOK /\ PmTypeOK /\ HasPair(i) /\ ValidPairInfo(pair[i])
  BY DEF Ledger, Configured, PairsUsable
<1>2. /\ t.collateral \in Nat /\ t.leverage \in Nat \ {0} /\ t.openPrice \in Nat
      /\ t.isLong \in BOOLEAN
  <2>1. t \in Trade
    BY <1>1, KeysFinite DEF PmTypeOK
  <2> HIDE DEF t
  <2> QED
    BY <2>1 DEF Trade
<1>3. /\ PriceOf(i) \in Nat /\ pair[i].maxGainP \in Nat /\ pair[i].liqThresholdP \in Nat
      /\ pair[i].liqThresholdP # 0 /\ t.collateral > 0
  <2>1. Quoted(i) /\ t.collateral # 0
    BY <1>2 DEF CloseAtMarket, LiquidateTrade
  <2> QED
    BY <1>1, <1>2, <2>1, QuoteTypes DEF PairInfo, ValidPairInfo
<1>4. Ahead(t.openPrice, PriceOf(i), t.isLong)
  BY DEF Winning, Ahead
<1>5. ~LiquidateTrade(trader, i, n)
  <2>1. ~Liquidatable(t, i)
    <3> HIDE DEF t
    <3> QED
      BY <1>2, <1>3, <1>4, AheadIsSafe, SMTT(20) DEF Liquidatable
  <2> QED
    BY <2>1 DEF LiquidateTrade
<1>6. CloseAtMarket(trader, i, n) /\ Charged(i) /\ t.openPrice > 0
  BY <1>5 DEF CloseAtMarket
<1>7. closeFee \in Nat
  <2>1. t.collateral * t.leverage \in Nat /\ GroupOf(i).closeFeeP \in Nat
    BY <1>1, <1>2, <1>6, TimesNat, GroupTypes
  <2> QED
    BY <2>1, FeeTypes
<1>8. profit \in Nat
  <2> HIDE DEF t
  <2> QED
    BY <1>2, <1>3, <1>4, <1>6, AheadGains
<1>9. settled = SettlementPayout(t.collateral, profit, 0, 0, closeFee, pair[i].liqThresholdP)
  BY DEF Settlement
<1> HIDE DEF t, settled, profit, closeFee
<1>10. /\ settled.payout \in Nat /\ settled.fee \in Nat
       /\ settled.payout + settled.fee >= t.collateral
  BY <1>2, <1>3, <1>7, <1>8, <1>9, GainPaid
<1>11. usdc'[trader] - usdc[trader] = settled.payout /\ FeesKept' - FeesKept = settled.fee
  BY <1>6, ClosePays DEF t, settled
<1> QED
  BY <1>2, <1>10, <1>11 DEF t

(* However a trade ends while it is winning, its trader gets the collateral *)
(* back less the close fee: neither the liquidation price nor the          *)
(* insolvency cutoff can cut in, whatever parameters the admin has set     *)
(* since the trade was opened.                                             *)
THEOREM WinnersTheorem == Spec => WinnersKeepCollateral
<1> DEFINE WinnersKept ==
        \A k \in Key : trade[k] # None /\ trade'[k] = None /\ Winning(trade[k], k[2]) =>
            usdc'[k[1]] - usdc[k[1]] >= trade[k].collateral - (FeesKept' - FeesKept)
<1>1. Ledger /\ Configured /\ [Next]_vars => [WinnersKept]_trade
  <2> SUFFICES ASSUME Ledger, Configured, Next, NEW k \in Key,
                      trade[k] # None, trade'[k] = None, Winning(trade[k], k[2])
               PROVE  usdc'[k[1]] - usdc[k[1]] >= trade[k].collateral - (FeesKept' - FeesKept)
    BY DEF vars, pmVars
  <2>1. PICK trader \in Holder, i \in PairIndex, n \in Slot :
            /\ k = <<trader, i, n>>
            /\ CloseAtMarket(trader, i, n) \/ LiquidateTrade(trader, i, n)
    BY EndsBySettling
  <2>2. k[1] = trader /\ k[2] = i
    BY <2>1
  <2> QED
    BY <2>1, <2>2, WinnerPaid
<1>2. Spec => [][WinnersKept]_trade
  BY <1>1, LedgerKept, ConfigKept, PTL DEF Spec
<1> QED
  BY <1>2 DEF WinnersKeepCollateral

-----------------------------------------------------------------------------
(***************************************************************************)
(* Nothing is locked in.  LiquidationNeverBlocked, CloseNeverBlocked and   *)
(* RefundNeverBlocked are about ENABLED, which is out of the prover's      *)
(* reach; what is proved is their substance: in every reachable state the  *)
(* conditions these transactions meet on their way through four contracts  *)
(* hold (RefundReady, LiquidationReady, CloseReady), and where they hold    *)
(* one next value of each variable makes the transaction a step            *)
(* (RefundAccepted, LiquidationAccepted, CloseAccepted).                   *)
(***************************************************************************)
Covered == Ledger /\ Configured /\ FeesKept >= 0

LEMMA CoveredKept == Spec => []Covered
<1>1. CustodyBacked /\ Ledger => FeesKept >= 0
  BY FeesTyped DEF FeesKept, CustodyBacked
<1> QED
  BY <1>1, LedgerKept, ConfigKept, CustodyTheorem, PTL DEF Covered

(* The token lets the PositionManager refund an order. *)
Refundable(k) == CanTransfer(usdc, PmAddr, limitOrder[k].collateral)

LEMMA RefundSuffices ==
    ASSUME NEW trader \in Holder, NEW i \in PairIndex, NEW n \in Slot,
           limitOrder[<<trader, i, n>>] # None, Refundable(<<trader, i, n>>),
           usdc' = Transfer(usdc, PmAddr, trader, limitOrder[<<trader, i, n>>].collateral),
           limitOrder' = [limitOrder EXCEPT ![<<trader, i, n>>] = None],
           UNCHANGED <<sequence, vaultVars, registryVars, trade, maxTrades, oracle>>
    PROVE  CancelLimitOrder(trader, i, n)
BY DEF Refundable, CancelLimitOrder

(* The vault, the token and the registry let a trade of this notional be    *)
(* settled: fromPm arrives in the vault, and fromPm + net leaves it.        *)
Settles(fromPm, net, notional) ==
    LET arrived == Transfer(usdc, PmAddr, VaultAddr, fromPm)
    IN /\ positionManager = PmAddr /\ registryManager = PmAddr
       /\ CanTransfer(usdc, PmAddr, fromPm)
       /\ fromPm + net >= 0
       /\ totalAssets - net >= 0
       /\ fromPm + net > 0 => CanTransfer(arrived, VaultAddr, fromPm + net)
       /\ notional >= 0

(* What a settlement leaves: one next value for every variable, and nothing *)
(* about whether the contracts allow it.                                   *)
Settled(trader, i, n, fromPm, net) ==
    LET t == trade[<<trader, i, n>>]
        arrived == Transfer(usdc, PmAddr, VaultAddr, fromPm)
    IN /\ usdc' = IF fromPm + net > 0 THEN Transfer(arrived, VaultAddr, trader, fromPm + net)
                  ELSE arrived
       /\ totalAssets' = totalAssets - net
       /\ trade' = [trade EXCEPT ![<<trader, i, n>>] = None]
       /\ openInterest' = [openInterest EXCEPT ![i] =
                              WithSide(@, t.isLong,
                                       FloorAtZero(SideOf(openInterest[i], t.isLong)
                                                     - t.collateral * t.leverage))]
       /\ UNCHANGED <<sequence, totalShares, balance, allowance, lastDeposit, badDebtPool,
                      vaultConfig, pair, group, accumulators, depth, pairsCount, maxPosUsdc,
                      registryManager, limitOrder, maxTrades, oracle>>

LEMMA SettlingSuffices ==
    ASSUME NEW trader \in Holder, NEW i \in PairIndex, NEW n \in Slot,
           NEW fromPm \in Int, NEW net \in Int,
           Settles(fromPm, net,
                   trade[<<trader, i, n>>].collateral * trade[<<trader, i, n>>].leverage),
           Settled(trader, i, n, fromPm, net)
    PROVE  SettleTrade(trader, i, n, fromPm, net)
<1> DEFINE t == trade[<<trader, i, n>>]
<1>1. fromPm >= 0
  BY DEF Settles, CanTransfer
<1>2. Settle(PmAddr, trader, fromPm, net)
  BY <1>1 DEF Settles, Settled, Settle, ReturnCollateralWithPnl
<1>3. SubOi(PmAddr, i, t.isLong, t.collateral * t.leverage)
  BY DEF Settles, Settled, SubOi
<1> QED
  BY <1>2, <1>3 DEF SettleTrade, Settled

(* The PositionManager's balance covers each trade and each order. *)
LEMMA EachCovered ==
    ASSUME Covered, NEW k \in Key
    PROVE  /\ trade[k] # None => /\ trade[k] \in Trade
                                 /\ usdc[PmAddr] >= trade[k].collateral
           /\ limitOrder[k] # None => /\ limitOrder[k] \in LimitOrder
                                      /\ usdc[PmAddr] >= limitOrder[k].collateral
<1>1. /\ trade \in [Key -> Trade \cup {None}] /\ limitOrder \in [Key -> LimitOrder \cup {None}]
      /\ Ledger
  BY DEF Covered, Ledger, PmTypeOK
<1>2. \A j \in Key : Stake(trade[j]) \in Nat /\ Stake(limitOrder[j]) \in Nat
  BY <1>1 DEF Stake, Trade, LimitOrder
<1>3. /\ Total(Stakes(trade)) \in Nat /\ Stake(trade[k]) <= Total(Stakes(trade))
      /\ Total(Stakes(limitOrder)) \in Nat /\ Stake(limitOrder[k]) <= Total(Stakes(limitOrder))
  <2>1. /\ Stakes(trade) \in [Key -> Nat] /\ Stakes(trade)[k] = Stake(trade[k])
        /\ Stakes(limitOrder) \in [Key -> Nat] /\ Stakes(limitOrder)[k] = Stake(limitOrder[k])
    BY <1>2 DEF Stakes
  <2> QED
    BY <2>1, KeysFinite, UnitsFinite, TotalBounds
<1>4. usdc[PmAddr] \in Nat /\ usdc[PmAddr] - (Total(Stakes(trade)) + Total(Stakes(limitOrder))) >= 0
  BY <1>1, FeesTyped, BooksOfRecords DEF Covered, FeesKept
<1>5. usdc[PmAddr] >= Stake(trade[k]) /\ usdc[PmAddr] >= Stake(limitOrder[k])
  BY <1>2, <1>3, <1>4
<1> QED
  BY <1>1, <1>5 DEF Stake

(* A resting order can always be refunded: no fee, settlement or execution  *)
(* has used the USDC it was placed with.                                   *)
THEOREM RefundReady == Spec => [](\A k \in Key : limitOrder[k] # None => Refundable(k))
<1>1. Covered => \A k \in Key : limitOrder[k] # None => Refundable(k)
  BY EachCovered DEF Refundable, CanTransfer, LimitOrder
<1> QED
  BY <1>1, CoveredKept, PTL

(* RefundAccepted: in the states RefundNeverBlocked is about, the step that *)
(* pays the order back and removes it is one cancel_limit_order takes.     *)
THEOREM RefundAccepted ==
    ASSUME Covered, NEW trader \in Holder, NEW i \in PairIndex, NEW n \in Slot,
           limitOrder[<<trader, i, n>>] # None,
           usdc' = Transfer(usdc, PmAddr, trader, limitOrder[<<trader, i, n>>].collateral),
           limitOrder' = [limitOrder EXCEPT ![<<trader, i, n>>] = None],
           UNCHANGED <<sequence, vaultVars, registryVars, trade, maxTrades, oracle>>
    PROVE  CancelLimitOrder(trader, i, n)
<1>1. <<trader, i, n>> \in Key
  BY DEF Key
<1>2. Refundable(<<trader, i, n>>)
  BY <1>1, EachCovered DEF Refundable, CanTransfer, LimitOrder
<1> QED
  BY <1>2, RefundSuffices

(* LiquidationSettles: a trade settles with nothing paid, as a liquidation  *)
(* does, while the contracts are wired to each other.                      *)
LiquidationSettles ==
    \A k \in Key :
        Wired /\ trade[k] # None =>
            Settles(trade[k].collateral, -trade[k].collateral,
                    trade[k].collateral * trade[k].leverage)

(* The stakes the PositionManager holds cover it.                           *)
LEMMA CoveredLiquidates == Covered => LiquidationSettles
<1> SUFFICES ASSUME Covered, Wired, NEW k \in Key, trade[k] # None
             PROVE  Settles(trade[k].collateral, -trade[k].collateral,
                            trade[k].collateral * trade[k].leverage)
  BY DEF LiquidationSettles
<1> DEFINE collateral == trade[k].collateral
           leverage == trade[k].leverage
<1>1. collateral \in Nat /\ leverage \in Nat /\ usdc[PmAddr] >= collateral
  BY EachCovered DEF Trade
<1>2. totalAssets \in Nat
  BY DEF Covered, Ledger, Books, VaultTypeOK
<1>3. positionManager = PmAddr /\ registryManager = PmAddr
  BY DEF Wired
<1> HIDE DEF collateral, leverage
<1>4. collateral * leverage \in Nat
  BY <1>1, TimesNat
<1>5. Settles(collateral, -collateral, collateral * leverage)
  BY <1>1, <1>2, <1>3, <1>4 DEF Settles, CanTransfer
<1> QED
  BY <1>5 DEF collateral, leverage

(* Any trade can be settled with nothing paid, as a liquidation does: a     *)
(* paused vault, an empty pool, a disabled pair or a changed fee is no     *)
(* obstacle.                                                               *)
THEOREM LiquidationReady == Spec => []LiquidationSettles
BY CoveredLiquidates, CoveredKept, PTL

(* CloseSettlesAtPrice: a trade at a live price settles at that price,      *)
(* unless the close fee exceeds its collateral or the pool cannot pay.     *)
CloseSettlesAtPrice ==
    \A k \in Key :
        LET t == trade[k]
            settled == Settlement(t, k[2])
            fromPm == t.collateral - settled.fee
        IN /\ Wired
           /\ t # None /\ Quoted(k[2]) /\ t.openPrice > 0
           /\ settled.fee =< t.collateral
           /\ settled.payout - fromPm =< totalAssets
           => /\ Charged(k[2])
              /\ Settles(fromPm, settled.payout - fromPm, t.collateral * t.leverage)

(* What the vault holds covers the pool, and the PositionManager the rest.  *)
LEMMA CoveredCloses == Covered => CloseSettlesAtPrice
<1> SUFFICES ASSUME Covered, Wired, NEW k \in Key, trade[k] # None, Quoted(k[2]),
                    trade[k].openPrice > 0,
                    Settlement(trade[k], k[2]).fee =< trade[k].collateral,
                    Settlement(trade[k], k[2]).payout
                      - (trade[k].collateral - Settlement(trade[k], k[2]).fee) =< totalAssets
             PROVE  /\ Charged(k[2])
                    /\ Settles(trade[k].collateral - Settlement(trade[k], k[2]).fee,
                               Settlement(trade[k], k[2]).payout
                                 - (trade[k].collateral - Settlement(trade[k], k[2]).fee),
                               trade[k].collateral * trade[k].leverage)
  BY DEF CloseSettlesAtPrice
<1> DEFINE collateral == trade[k].collateral
           leverage == trade[k].leverage
           payout == Settlement(trade[k], k[2]).payout
           fee == Settlement(trade[k], k[2]).fee
           fromPm == collateral - fee
           arrived == Transfer(usdc, PmAddr, VaultAddr, fromPm)
<1>1. k[2] \in PairIndex /\ k = <<k[1], k[2], k[3]>> /\ k[1] \in Holder /\ k[3] \in Slot
  BY DEF Key
<1>2. Charged(k[2])
  BY <1>1 DEF Covered, Configured, PairsUsable, Charged
<1>3. collateral \in Nat /\ leverage \in Nat /\ usdc[PmAddr] >= collateral
  BY EachCovered DEF Trade
<1>4. payout \in Nat /\ fee \in Nat
  BY <1>1, <1>2, SettlementTypes DEF Covered
<1>5. /\ totalAssets \in Nat /\ usdc \in [Account -> Nat] /\ usdc[VaultAddr] >= totalAssets
      /\ VaultAddr \in Account /\ PmAddr \in Account /\ PmAddr # VaultAddr
  BY Accounts, Addresses DEF Covered, Ledger, Books, VaultTypeOK, Solvent
<1>6. positionManager = PmAddr /\ registryManager = PmAddr
  BY DEF Wired
<1> HIDE DEF collateral, leverage, payout, fee
<1>7. /\ fromPm \in Nat /\ fromPm <= collateral /\ payout - fromPm \in Int
      /\ fromPm + (payout - fromPm) = payout
      /\ payout - fromPm =< totalAssets
  BY <1>3, <1>4 DEF collateral, payout, fee
<1> HIDE DEF fromPm
<1>8. CanTransfer(usdc, PmAddr, fromPm)
  BY <1>3, <1>5, <1>7 DEF CanTransfer
<1>9. arrived[VaultAddr] = usdc[VaultAddr] + fromPm
  BY <1>5, <1>7, <1>8, TransferMoves
<1> HIDE DEF arrived
<1>10. CanTransfer(arrived, VaultAddr, payout)
  BY <1>4, <1>5, <1>7, <1>9 DEF CanTransfer
<1>11. collateral * leverage \in Nat
  BY <1>3, TimesNat
<1>12. totalAssets - (payout - fromPm) >= 0
  BY <1>4, <1>5, <1>7
<1>13. Settles(fromPm, payout - fromPm, collateral * leverage)
  BY <1>4, <1>6, <1>7, <1>8, <1>10, <1>11, <1>12 DEF Settles, arrived
<1> QED
  BY <1>2, <1>13 DEF collateral, leverage, payout, fee, fromPm

(* And any trade at a live price can be closed, unless the close fee        *)
(* exceeds its collateral or the pool cannot pay the gain.                 *)
THEOREM CloseReady == Spec => []CloseSettlesAtPrice
BY CoveredCloses, CoveredKept, PTL

(* LiquidationAccepted: in the states LiquidationNeverBlocked is about, the *)
(* step to what a settlement leaves is one that liquidate_trade takes:     *)
(* every require and every transfer on its way through the four contracts  *)
(* succeeds, so any keeper's transaction goes through.                     *)
THEOREM LiquidationAccepted ==
    ASSUME Covered, NEW trader \in Holder, NEW i \in PairIndex, NEW n \in Slot,
           Wired, trade[<<trader, i, n>>] # None, trade[<<trader, i, n>>].collateral # 0,
           Quoted(i), Liquidatable(trade[<<trader, i, n>>], i),
           Settled(trader, i, n, trade[<<trader, i, n>>].collateral,
                   -trade[<<trader, i, n>>].collateral)
    PROVE  LiquidateTrade(trader, i, n)
<1> DEFINE k == <<trader, i, n>>
           collateral == trade[k].collateral
<1>1. k \in Key
  BY DEF Key
<1>2. collateral \in Int
  BY <1>1, EachCovered DEF Trade
<1>3. Settles(collateral, -collateral, collateral * trade[k].leverage)
  BY <1>1, CoveredLiquidates DEF LiquidationSettles
<1>4. SettleTrade(trader, i, n, collateral, -collateral)
  <2>1. -collateral \in Int
    BY <1>2
  <2> QED
    BY <1>2, <1>3, <2>1, SettlingSuffices
<1> QED
  BY <1>4 DEF LiquidateTrade

(* CloseAccepted: and in those CloseNeverBlocked is about, the step to what *)
(* a close at the oracle's price leaves is one close_market_trade takes.   *)
THEOREM CloseAccepted ==
    ASSUME Covered, NEW trader \in Holder, NEW i \in PairIndex, NEW n \in Slot,
           NEW t, t = trade[<<trader, i, n>>], NEW paid, paid = Settlement(t, i),
           Wired, t # None, t.collateral > 0, Quoted(i), t.openPrice > 0,
           paid.fee =< t.collateral,
           paid.payout - (t.collateral - paid.fee) =< totalAssets,
           Settled(trader, i, n, t.collateral - paid.fee,
                   paid.payout - (t.collateral - paid.fee))
    PROVE  CloseMarketTrade(trader, i, n)
<1> DEFINE k == <<trader, i, n>>
           fromPm == t.collateral - paid.fee
<1>1. k \in Key /\ k[2] = i
  BY DEF Key
<1>2. /\ Charged(i)
      /\ Settles(fromPm, paid.payout - fromPm, t.collateral * t.leverage)
  BY <1>1, CoveredCloses DEF CloseSettlesAtPrice
<1>3. fromPm \in Int /\ paid.payout - fromPm \in Int
  <2>1. paid.payout \in Nat /\ paid.fee \in Nat
    BY <1>1, <1>2, SettlementTypes DEF Covered
  <2>2. t.collateral \in Nat
    BY <1>1, EachCovered DEF Trade
  <2> QED
    BY <2>1, <2>2
<1>4. SettleTrade(trader, i, n, fromPm, paid.payout - fromPm)
  BY <1>2, <1>3, SettlingSuffices
<1> QED
  BY <1>2, <1>4 DEF CloseMarketTrade, CloseAtMarket
=============================================================================
