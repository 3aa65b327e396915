---------------------------- MODULE EscrowProofs ----------------------------
(***************************************************************************)
(* The composed contracts implement TradeEscrow: each step moves the stake *)
(* of one key, to the last unit, or is a stutter.                          *)
(***************************************************************************)
EXTENDS PositionProofs

(* The stakes of the records stored, as the escrow sees them. *)
StakeMap(store) == [k \in Key |-> IF store[k] = None THEN None ELSE store[k].collateral]

(* An entry point that changes one trader's USDC touches one wallet.        *)
LEMMA WalletMoved ==
    ASSUME NEW h \in Holder, usdc \in [Account -> Nat], usdc' \in [Account -> Nat],
           \A g \in Holder \ {h} : usdc'[g] = usdc[g]
    PROVE  Escrow!OnlyWallet(h) /\ Escrow!Received(h) = usdc'[h] - usdc[h]
BY Accounts DEF Escrow!OnlyWallet, Escrow!Received

(* A record stored where there was none is a stake that appears. *)
LEMMA RecordStaked ==
    ASSUME NEW store, NEW stored, NEW k \in Key, store[k] = None,
           stored[k] # None, stored[k].collateral \in Nat,
           \A j \in Key \ {k} : stored[j] = store[j]
    PROVE  /\ Escrow!Staked(StakeMap(store), StakeMap(stored), k)
           /\ StakeMap(stored)[k] = stored[k].collateral
<1>1. /\ StakeMap(store)[k] = None /\ StakeMap(stored)[k] = stored[k].collateral
      /\ \A j \in Key \ {k} : StakeMap(stored)[j] = StakeMap(store)[j]
  BY DEF StakeMap
<1>2. StakeMap(stored) = [StakeMap(store) EXCEPT ![k] = StakeMap(stored)[k]]
  <2>1. /\ DOMAIN StakeMap(stored) = Key /\ DOMAIN StakeMap(store) = Key
        /\ StakeMap(stored) = [j \in Key |-> StakeMap(stored)[j]]
    BY DEF StakeMap
  <2> QED
    BY <1>1, <2>1
<1> QED
  BY <1>1, <1>2 DEF Escrow!Staked

(* A record removed is a stake that ends. *)
LEMMA RecordEnded ==
    ASSUME NEW store, NEW stored, NEW k \in Key, store[k] # None,
           store[k].collateral \in Nat, stored[k] = None,
           \A j \in Key \ {k} : stored[j] = store[j]
    PROVE  /\ Escrow!Ended(StakeMap(store), StakeMap(stored), k)
           /\ StakeMap(store)[k] = store[k].collateral
<1>1. /\ StakeMap(stored)[k] = None /\ StakeMap(store)[k] = store[k].collateral
      /\ \A j \in Key \ {k} : StakeMap(stored)[j] = StakeMap(store)[j]
  BY DEF StakeMap
<1>2. StakeMap(stored) = [StakeMap(store) EXCEPT ![k] = None]
  <2>1. /\ DOMAIN StakeMap(stored) = Key /\ DOMAIN StakeMap(store) = Key
        /\ StakeMap(stored) = [j \in Key |-> StakeMap(stored)[j]]
    BY DEF StakeMap
  <2> QED
    BY <1>1, <2>1
<1> QED
  BY <1>1, <1>2 DEF Escrow!Ended

(* The fees grow by what the balance gains over the records. *)
LEMMA FeesMoved ==
    ASSUME Ledger, Ledger'
    PROVE  /\ Total(Stakes(trade)) \in Nat /\ Total(Stakes(limitOrder)) \in Nat
           /\ Total(Stakes(trade')) \in Nat /\ Total(Stakes(limitOrder')) \in Nat
           /\ usdc[PmAddr] \in Nat /\ usdc'[PmAddr] \in Nat
           /\ FeesKept = usdc[PmAddr] - Total(Stakes(trade)) - Total(Stakes(limitOrder))
           /\ FeesKept' = usdc'[PmAddr] - Total(Stakes(trade')) - Total(Stakes(limitOrder'))
<1>1. /\ Total(Stakes(trade)) \in Nat /\ Total(Stakes(limitOrder)) \in Nat
      /\ Total(Stakes(trade')) \in Nat /\ Total(Stakes(limitOrder')) \in Nat
  BY StakesTyped DEF Ledger, PmTypeOK
<1>2. usdc[PmAddr] \in Nat /\ usdc'[PmAddr] \in Nat
  BY Addresses DEF Ledger, Books, VaultTypeOK
<1> QED
  BY <1>1, <1>2, BooksOfRecords DEF FeesKept

(* The collateral pulled leaves the trader's wallet and no other. *)
LEMMA PulledFromOne ==
    ASSUME Books, Books', NEW trader \in Holder, NEW collateral \in Nat,
           PullCollateral(trader, collateral)
    PROVE  /\ Escrow!OnlyWallet(trader) /\ Escrow!Received(trader) = -collateral
           /\ usdc'[PmAddr] = usdc[PmAddr] + collateral
<1>1. /\ usdc \in [Account -> Nat] /\ usdc' \in [Account -> Nat]
      /\ trader \in Account /\ Holder \subseteq Account /\ PmAddr \in Account
      /\ PmAddr \notin Holder
      /\ CanTransfer(usdc, trader, collateral)
      /\ usdc' = Transfer(usdc, trader, PmAddr, collateral)
  BY Accounts, Addresses DEF Books, VaultTypeOK, PullCollateral
<1>2. \A a \in Account : usdc'[a] = usdc[a] - (IF a = trader THEN collateral ELSE 0)
                                           + (IF a = PmAddr THEN collateral ELSE 0)
  BY <1>1, TransferMoves
<1>3. /\ usdc'[trader] = usdc[trader] - collateral /\ usdc[trader] \in Nat
      /\ usdc'[PmAddr] = usdc[PmAddr] + collateral
      /\ \A g \in Holder \ {trader} : usdc'[g] = usdc[g]
  BY <1>1, <1>2
<1> QED
  BY <1>1, <1>3, WalletMoved

-----------------------------------------------------------------------------
(* One step per entry point. *)

(* Where a trade is recorded, and at what stake. *)
StakedInASlot(trader, i, effective) ==
    \E n \in Slot :
        /\ Escrow!Staked(StakeMap(trade), StakeMap(trade'), <<trader, i, n>>)
        /\ StakeMap(trade')[<<trader, i, n>>] = effective

LEMMA TradeStaked ==
    ASSUME Ledger, NEW trader \in Holder, NEW i \in PairIndex, NEW isLong \in BOOLEAN,
           NEW leverage \in Nat \ {0}, NEW effective \in Int, NEW tp \in Int, NEW sl \in Int,
           Quoted(i), RecordTrade(trader, i, isLong, leverage, effective, tp, sl)
    PROVE  /\ Total(Stakes(trade')) = Total(Stakes(trade)) + effective
           /\ StakedInASlot(trader, i, effective)
<1> DEFINE new == [isLong |-> isLong, leverage |-> leverage, openPrice |-> PriceOf(i),
                   collateral |-> effective, tpPrice |-> tp, slPrice |-> sl]
<1>1. effective \in Nat /\ Total(Stakes(trade')) = Total(Stakes(trade)) + effective
  BY TradeRecorded DEF Ledger
<1>2. PICK n \in Slot : /\ trade[<<trader, i, n>>] = None
                        /\ trade' = [trade EXCEPT ![<<trader, i, n>>] = new]
  BY DEF RecordTrade, FirstFree
<1>3. new \in Trade /\ new # None /\ new.collateral = effective
  BY <1>1, QuoteTypes, StoreAssumption DEF Trade, Ledger
<1> DEFINE k == <<trader, i, n>>
<1>4. k \in Key /\ trade \in [Key -> Trade \cup {None}] /\ trade[k] = None
  BY <1>2, KeysFinite DEF Ledger, PmTypeOK
<1> HIDE DEF new
<1>5. trade'[k] = new /\ \A j \in Key \ {k} : trade'[j] = trade[j]
  BY <1>2, <1>4
<1>6. /\ Escrow!Staked(StakeMap(trade), StakeMap(trade'), k)
      /\ StakeMap(trade')[k] = effective
  <2> HIDE DEF k
  <2>1. trade'[k] # None /\ trade'[k].collateral \in Nat /\ trade'[k].collateral = effective
    BY <1>1, <1>3, <1>5
  <2> QED
    BY ONLY <1>4, <1>5, <2>1, RecordStaked
<1> QED
  BY <1>1, <1>6 DEF StakedInASlot

(* open_market_trade opens: what the trader pays over the stake is the fee. *)
LEMMA OpenMapped ==
    ASSUME Ledger, Ledger', FeesKept' >= FeesKept,
           NEW trader \in Holder, NEW i \in PairIndex, NEW isLong \in BOOLEAN,
           NEW collateral \in Collateral, NEW leverage \in Leverage,
           NEW tp \in TriggerPrice, NEW sl \in TriggerPrice,
           OpenMarketTrade(trader, i, isLong, collateral, leverage, tp, sl)
    PROVE  Escrow!Next
<1> DEFINE effective == EffectiveCollateral(i, collateral, leverage)
<1>1. /\ collateral \in Nat /\ leverage \in Nat \ {0} /\ tp \in Int /\ sl \in Int
      /\ Quoted(i) /\ Charged(i)
      /\ PullCollateral(trader, collateral)
      /\ RecordTrade(trader, i, isLong, leverage, effective, tp, sl)
      /\ UNCHANGED <<limitOrder, totalAssets>>
  BY PositionAssumption DEF OpenMarketTrade, vaultVars, fund
<1>2. effective \in Int
  BY <1>1, OpenFeeTaken DEF Ledger
<1> HIDE DEF effective
<1>3. /\ Total(Stakes(trade')) = Total(Stakes(trade)) + effective
      /\ StakedInASlot(trader, i, effective)
  <2>1. RecordTrade(trader, i, isLong, leverage, effective, tp, sl) /\ Quoted(i)
    BY <1>1
  <2>2. leverage \in Nat \ {0} /\ tp \in Int /\ sl \in Int
    BY <1>1
  <2> QED
    BY <1>2, <2>1, <2>2, TradeStaked
<1>4. PICK n \in Slot :
          /\ Escrow!Staked(StakeMap(trade), StakeMap(trade'), <<trader, i, n>>)
          /\ StakeMap(trade')[<<trader, i, n>>] = effective
  BY <1>3 DEF StakedInASlot
<1> DEFINE k == <<trader, i, n>>
<1>5. /\ Escrow!OnlyWallet(trader) /\ Escrow!Received(trader) = -collateral
      /\ usdc'[PmAddr] = usdc[PmAddr] + collateral
  BY <1>1, PulledFromOne DEF Ledger
<1>6. FeesKept' - FeesKept = collateral - effective /\ FeesKept' - FeesKept >= 0
  BY <1>1, <1>2, <1>5, <1>3, FeesMoved
<1>7. Escrow!Charged = FeesKept' - FeesKept
  BY DEF Escrow!Charged
<1>8. k \in Key /\ Escrow!OwnerOf(k) = trader
  BY KeysFinite DEF Escrow!OwnerOf
<1>9. -Escrow!Received(trader) = effective + Escrow!Charged /\ Escrow!Charged >= 0
  BY <1>1, <1>2, <1>5, <1>6, <1>7
<1>10. Escrow!Open(k)
  <2> HIDE DEF k
  <2> QED
    BY <1>1, <1>4, <1>5, <1>8, <1>9 DEF Escrow!Open, StakeMap, k
<1> QED
  BY <1>8, <1>10 DEF Escrow!Next, Escrow!Key, Key

(* place_limit_order places: the whole collateral is the stake. *)
LEMMA PlaceMapped ==
    ASSUME Ledger, Ledger',
           NEW trader \in Holder, NEW i \in PairIndex, NEW isLong \in BOOLEAN,
           NEW collateral \in Collateral, NEW leverage \in Leverage,
           NEW limitPrice \in LimitPrice, NEW tp \in TriggerPrice, NEW sl \in TriggerPrice,
           PlaceLimitOrder(trader, i, isLong, collateral, leverage, limitPrice, tp, sl)
    PROVE  Escrow!Next
<1> DEFINE new == [isLong |-> isLong, leverage |-> leverage, collateral |-> collateral,
                   limitPrice |-> limitPrice, tpPrice |-> tp, slPrice |-> sl]
<1>1. /\ collateral \in Nat /\ leverage \in Nat \ {0} /\ tp \in Int /\ sl \in Int
      /\ limitPrice \in Nat
      /\ PullCollateral(trader, collateral)
      /\ UNCHANGED <<trade, totalAssets>>
  BY PositionAssumption DEF PlaceLimitOrder, vaultVars, fund
<1>2. PICK n \in Slot : /\ limitOrder[<<trader, i, n>>] = None
                        /\ limitOrder' = [limitOrder EXCEPT ![<<trader, i, n>>] = new]
  BY DEF PlaceLimitOrder, FirstFree
<1> DEFINE k == <<trader, i, n>>
<1>3. new \in LimitOrder /\ new # None /\ new.collateral = collateral
  BY <1>1, StoreAssumption DEF LimitOrder
<1> HIDE DEF new
<1>4. k \in Key /\ limitOrder \in [Key -> LimitOrder \cup {None}] /\ limitOrder[k] = None
  BY <1>2, KeysFinite DEF Ledger, PmTypeOK
<1>5. limitOrder'[k] = new /\ \A j \in Key \ {k} : limitOrder'[j] = limitOrder[j]
  BY <1>2, <1>4
<1>6. Escrow!OwnerOf(k) = trader
  BY DEF Escrow!OwnerOf
<1>7. Total(Stakes(limitOrder')) = Total(Stakes(limitOrder)) + collateral
  <2>1. Stake(limitOrder[k]) = 0 /\ Stake(new) = collateral
    BY <1>3, <1>4 DEF Stake
  <2>2. Total(Stakes(limitOrder'))
            = Total(Stakes(limitOrder)) - Stake(limitOrder[k]) + Stake(new)
    BY <1>2, <1>3, <1>4, OrderStored DEF Ledger
  <2>3. Total(Stakes(limitOrder)) \in Nat
    BY FeesMoved
  <2> QED
    BY <1>1, <2>1, <2>2, <2>3
<1> HIDE DEF k
<1>8. /\ Escrow!Staked(StakeMap(limitOrder), StakeMap(limitOrder'), k)
      /\ StakeMap(limitOrder')[k] = collateral
  <2>1. limitOrder'[k] # None /\ limitOrder'[k].collateral \in Nat
        /\ limitOrder'[k].collateral = collateral
    BY <1>1, <1>3, <1>5
  <2> QED
    BY ONLY <1>4, <1>5, <2>1, RecordStaked
<1>9. /\ Escrow!OnlyWallet(trader) /\ Escrow!Received(trader) = -collateral
      /\ usdc'[PmAddr] = usdc[PmAddr] + collateral
  BY <1>1, PulledFromOne DEF Ledger
<1>10. FeesKept' = FeesKept
  BY <1>1, <1>7, <1>9, FeesMoved
<1>11. Escrow!Place(k)
  BY <1>1, <1>6, <1>8, <1>9, <1>10 DEF Escrow!Place, StakeMap
<1> QED
  BY <1>4, <1>11 DEF Escrow!Next, Escrow!Key, Key

(* What an order that is executed or cancelled leaves behind. *)
LEMMA OrderEnded ==
    ASSUME Ledger, NEW k \in Key, limitOrder[k] # None,
           limitOrder' = [limitOrder EXCEPT ![k] = None]
    PROVE  /\ limitOrder[k] \in LimitOrder
           /\ Escrow!Ended(StakeMap(limitOrder), StakeMap(limitOrder'), k)
           /\ StakeMap(limitOrder)[k] = limitOrder[k].collateral
           /\ Total(Stakes(limitOrder'))
                = Total(Stakes(limitOrder)) - limitOrder[k].collateral
<1>1. /\ limitOrder \in [Key -> LimitOrder \cup {None}] /\ limitOrder[k] \in LimitOrder
      /\ limitOrder'[k] = None /\ \A j \in Key \ {k} : limitOrder'[j] = limitOrder[j]
  BY DEF Ledger, PmTypeOK
<1>2. limitOrder[k].collateral \in Nat
  BY <1>1 DEF LimitOrder
<1>3. /\ Escrow!Ended(StakeMap(limitOrder), StakeMap(limitOrder'), k)
      /\ StakeMap(limitOrder)[k] = limitOrder[k].collateral
  BY ONLY <1>1, <1>2, limitOrder[k] # None, RecordEnded
<1>4. Stake(limitOrder[k]) = limitOrder[k].collateral /\ Stake(None) = 0
  BY DEF Stake
<1>5. Total(Stakes(limitOrder')) = Total(Stakes(limitOrder)) - Stake(limitOrder[k]) + Stake(None)
  BY OrderStored DEF Ledger
<1>6. Total(Stakes(limitOrder)) \in Nat
  BY StakesTyped DEF Ledger, PmTypeOK
<1> QED
  BY <1>1, <1>2, <1>3, <1>4, <1>5, <1>6

(* execute_limit_order moves the stake on to a trade, less the fee. *)
LEMMA ExecuteMapped ==
    ASSUME Ledger, Ledger', FeesKept' >= FeesKept,
           NEW trader \in Holder, NEW i \in PairIndex, NEW n \in Slot,
           ExecuteLimitOrder(trader, i, n)
    PROVE  Escrow!Next
<1> DEFINE k == <<trader, i, n>>
           order == limitOrder[k]
           effective == EffectiveCollateral(i, order.collateral, order.leverage)
<1>1. /\ order # None /\ Quoted(i) /\ Charged(i)
      /\ RecordTrade(trader, i, order.isLong, order.leverage, effective, order.tpPrice,
                     order.slPrice)
      /\ limitOrder' = [limitOrder EXCEPT ![k] = None]
      /\ UNCHANGED <<usdc, totalAssets>>
  BY DEF ExecuteLimitOrder, vaultVars, fund
<1>2. k \in Key /\ k[1] = trader /\ k[2] = i
  BY KeysFinite
<1>3. /\ order \in LimitOrder
      /\ Escrow!Ended(StakeMap(limitOrder), StakeMap(limitOrder'), k)
      /\ StakeMap(limitOrder)[k] = order.collateral
      /\ Total(Stakes(limitOrder')) = Total(Stakes(limitOrder)) - order.collateral
  BY <1>1, <1>2, OrderEnded
<1> HIDE DEF k, order
<1>4. /\ order.isLong \in BOOLEAN /\ order.leverage \in Nat \ {0}
      /\ order.collateral \in Nat /\ order.tpPrice \in Int /\ order.slPrice \in Int
  BY <1>3 DEF LimitOrder
<1>5. effective \in Int
  BY <1>1, <1>4, OpenFeeTaken DEF Ledger
<1> HIDE DEF effective
<1>6. Total(Stakes(trade')) = Total(Stakes(trade)) + effective
  BY <1>1, <1>4, <1>5, TradeStaked
<1>7. PICK m \in Slot :
          /\ Escrow!Staked(StakeMap(trade), StakeMap(trade'), <<trader, i, m>>)
          /\ StakeMap(trade')[<<trader, i, m>>] = effective
  BY <1>1, <1>4, <1>5, TradeStaked DEF StakedInASlot
<1>8. /\ FeesKept' - FeesKept = order.collateral - effective
      /\ FeesKept' - FeesKept >= 0
  BY <1>1, <1>3, <1>4, <1>5, <1>6, FeesMoved
<1>9. Escrow!Charged = order.collateral - effective /\ Escrow!Charged >= 0
  BY <1>8 DEF Escrow!Charged
<1>10. effective + Escrow!Charged = order.collateral
  BY <1>4, <1>5, <1>9
<1>11. Escrow!Execute(k)
  BY <1>1, <1>2, <1>3, <1>7, <1>9, <1>10 DEF Escrow!Execute, StakeMap
<1> QED
  BY <1>2, <1>11 DEF Escrow!Next, Escrow!Key, Key

(* cancel_limit_order cancels: the stake goes back whole. *)
LEMMA CancelMapped ==
    ASSUME Ledger, Ledger', NEW trader \in Holder, NEW i \in PairIndex, NEW n \in Slot,
           CancelLimitOrder(trader, i, n)
    PROVE  Escrow!Next
<1> DEFINE k == <<trader, i, n>>
           refund == limitOrder[k].collateral
<1>1. /\ limitOrder[k] # None /\ CanTransfer(usdc, PmAddr, refund)
      /\ usdc' = Transfer(usdc, PmAddr, trader, refund)
      /\ limitOrder' = [limitOrder EXCEPT ![k] = None]
      /\ UNCHANGED <<trade, totalAssets>>
  BY DEF CancelLimitOrder, vaultVars, fund
<1>2. k \in Key /\ Escrow!OwnerOf(k) = trader
  BY KeysFinite DEF Escrow!OwnerOf
<1>3. /\ limitOrder[k] \in LimitOrder
      /\ Escrow!Ended(StakeMap(limitOrder), StakeMap(limitOrder'), k)
      /\ StakeMap(limitOrder)[k] = refund
      /\ Total(Stakes(limitOrder')) = Total(Stakes(limitOrder)) - refund
  BY <1>1, <1>2, OrderEnded
<1> HIDE DEF k
<1>4. refund \in Nat
  BY <1>3 DEF LimitOrder
<1> HIDE DEF refund
<1>5. /\ usdc \in [Account -> Nat] /\ usdc' \in [Account -> Nat]
      /\ usdc[trader] \in Nat /\ usdc'[trader] = usdc[trader] + refund
      /\ usdc'[PmAddr] = usdc[PmAddr] - refund
      /\ \A g \in Holder \ {trader} : usdc'[g] = usdc[g]
  <2>1. /\ usdc \in [Account -> Nat] /\ usdc' \in [Account -> Nat]
        /\ trader \in Account /\ Holder \subseteq Account
        /\ PmAddr \in Account /\ PmAddr \notin Holder
    BY Accounts, Addresses DEF Ledger, Books, VaultTypeOK
  <2>2. \A a \in Account : usdc'[a] = usdc[a] - (IF a = PmAddr THEN refund ELSE 0)
                                             + (IF a = trader THEN refund ELSE 0)
    BY <1>1, <1>4, <2>1, TransferMoves
  <2> QED
    BY <1>4, <2>1, <2>2
<1>6. Escrow!OnlyWallet(trader) /\ Escrow!Received(trader) = refund
  BY <1>4, <1>5, WalletMoved
<1>7. FeesKept' = FeesKept
  BY <1>1, <1>3, <1>4, <1>5, FeesMoved
<1>8. Escrow!Cancel(k)
  BY <1>1, <1>2, <1>3, <1>6, <1>7 DEF Escrow!Cancel, StakeMap
<1> QED
  BY <1>2, <1>8 DEF Escrow!Next, Escrow!Key, Key

(* However a trade ends, one stake ends and one wallet is paid; how it is    *)
(* split is what every step conserves.                                      *)
LEMMA SettleMapped ==
    ASSUME Ledger, Kept, NEW trader \in Holder, NEW i \in PairIndex, NEW n \in Slot,
           trade[<<trader, i, n>>] # None,
           NEW fromPm, NEW net, SettleTrade(trader, i, n, fromPm, net)
    PROVE  Escrow!Next
<1> DEFINE k == <<trader, i, n>>
           t == trade[k]
           ledger == Transfer(usdc, PmAddr, VaultAddr, fromPm)
<1>1. /\ k \in Key /\ k[1] = trader /\ Escrow!OwnerOf(k) = trader
      /\ trade \in [Key -> Trade \cup {None}] /\ t \in Trade
  BY KeysFinite DEF Escrow!OwnerOf, Ledger, PmTypeOK
<1>2. /\ trade' = [trade EXCEPT ![k] = None] /\ UNCHANGED limitOrder
      /\ usdc' = IF fromPm + net > 0 THEN Transfer(ledger, VaultAddr, trader, fromPm + net)
                                     ELSE ledger
  BY DEF SettleTrade, Settle, ReturnCollateralWithPnl
<1>3. /\ usdc \in [Account -> Nat] /\ usdc' \in [Account -> Nat] /\ totalAssets' \in Nat
  BY DEF Kept, Ledger, Books, VaultTypeOK
<1>4. \A g \in Holder \ {trader} : usdc'[g] = usdc[g]
  <2>1. Holder \subseteq Account /\ PmAddr \notin Holder /\ VaultAddr \notin Holder
    BY Accounts, Addresses
  <2>2. /\ DOMAIN ledger = Account
        /\ \A g \in Holder : ledger[g] = usdc[g]
    BY <1>3, <2>1 DEF Transfer, Credit
  <2> HIDE DEF ledger
  <2>3. \A x : \A g \in Holder \ {trader} : Transfer(ledger, VaultAddr, trader, x)[g] = ledger[g]
    BY <2>1, <2>2 DEF Transfer, Credit
  <2> QED
    BY <1>2, <2>2, <2>3
<1>5. Escrow!OnlyWallet(trader) /\ Escrow!Received(trader) = usdc'[trader] - usdc[trader]
  BY <1>3, <1>4, WalletMoved
<1>6. t # None /\ trade'[k] = None /\ \A j \in Key \ {k} : trade'[j] = trade[j]
  BY <1>1, <1>2
<1>7. LET paid == usdc'[k[1]] - usdc[k[1]]
          earned == totalAssets' - totalAssets
          fee == FeesKept' - FeesKept
      IN paid + earned + fee = t.collateral /\ paid >= 0 /\ fee >= 0
  BY <1>1, <1>6 DEF Kept, Conserved
<1> HIDE DEF k, ledger
<1>8. /\ Escrow!Ended(StakeMap(trade), StakeMap(trade'), k)
      /\ StakeMap(trade)[k] = t.collateral
  <2>1. t.collateral \in Nat
    BY <1>1 DEF Trade
  <2> QED
    BY ONLY <1>1, <1>6, <2>1, RecordEnded
<1>9. /\ Escrow!Received(trader) + Escrow!Charged + Escrow!Earned = t.collateral
      /\ Escrow!Received(trader) >= 0 /\ Escrow!Charged >= 0
  <2>1. /\ usdc'[trader] - usdc[trader] \in Int /\ totalAssets' - totalAssets \in Int
        /\ FeesKept' - FeesKept \in Int
    <3>1. trader \in Account /\ totalAssets \in Nat
      BY Accounts DEF Ledger, Books, VaultTypeOK
    <3>2. FeesKept \in Int /\ FeesKept' \in Int
      BY FeesTyped DEF Kept
    <3> QED
      BY <1>3, <3>1, <3>2
  <2>2. Escrow!Charged = FeesKept' - FeesKept /\ Escrow!Earned = totalAssets' - totalAssets
    BY DEF Escrow!Charged, Escrow!Earned
  <2> DEFINE paid == usdc'[trader] - usdc[trader]
             earned == totalAssets' - totalAssets
             fee == FeesKept' - FeesKept
  <2>3. /\ paid + earned + fee = t.collateral /\ paid >= 0 /\ fee >= 0
        /\ paid \in Int /\ earned \in Int /\ fee \in Int
    BY <1>1, <1>7, <2>1
  <2>4. Escrow!Received(trader) = paid /\ Escrow!Charged = fee /\ Escrow!Earned = earned
    BY <1>5, <2>2
  <2> HIDE DEF paid, earned, fee, t
  <2> QED
    BY <2>3, <2>4
<1>10. Escrow!End(k)
  BY <1>1, <1>2, <1>3, <1>5, <1>8, <1>9 DEF Escrow!End, StakeMap
<1> QED
  BY <1>1, <1>10 DEF Escrow!Next, Escrow!Key, Key

(* What LPs pay in leaves their wallet for the pool. *)
LEMMA TakeInMapped ==
    ASSUME Ledger, Ledger', UNCHANGED <<trade, limitOrder>>,
           NEW from \in Holder, NEW receiver \in Holder, NEW assets \in Int, NEW shares \in Int,
           TakeIn(from, assets, shares, receiver)
    PROVE  Escrow!Next
<1>1. /\ usdc \in [Account -> Nat] /\ usdc' \in [Account -> Nat] /\ totalAssets \in Nat
      /\ from \in Account /\ VaultAddr \in Account /\ VaultAddr \notin Holder
      /\ PmAddr \in Account /\ PmAddr \notin Holder /\ PmAddr # VaultAddr
      /\ Holder \subseteq Account
  BY Accounts, Addresses DEF Ledger, Books, VaultTypeOK
<1>2. /\ assets \in Nat /\ totalAssets' = totalAssets + assets
      /\ CanTransfer(usdc, from, assets) /\ usdc' = Transfer(usdc, from, VaultAddr, assets)
  BY DEF TakeIn
<1>3. \A a \in Account : usdc'[a] = usdc[a] - (IF a = from THEN assets ELSE 0)
                                           + (IF a = VaultAddr THEN assets ELSE 0)
  BY <1>1, <1>2, TransferMoves
<1>4. /\ usdc'[from] = usdc[from] - assets /\ usdc[from] \in Nat
      /\ usdc'[PmAddr] = usdc[PmAddr]
      /\ \A g \in Holder \ {from} : usdc'[g] = usdc[g]
  BY <1>1, <1>2, <1>3
<1>5. Escrow!OnlyWallet(from) /\ Escrow!Received(from) = -assets
  BY <1>1, <1>2, <1>4, WalletMoved
<1>6. Escrow!Earned = assets
  BY <1>1, <1>2 DEF Escrow!Earned
<1>7. FeesKept' = FeesKept
  BY <1>4, FeesMoved
<1>8. Escrow!Provide(from)
  BY <1>2, <1>5, <1>6, <1>7 DEF Escrow!Provide
<1> QED
  BY <1>8 DEF Escrow!Next

(* What LPs are paid comes out of the pool, whoever receives it. *)
LEMMA PayOutMapped ==
    ASSUME Ledger, Ledger', UNCHANGED <<trade, limitOrder>>,
           NEW owner \in Holder, NEW receiver \in Account, NEW assets \in Int, NEW shares \in Nat,
           PayOut(owner, assets, shares, receiver)
    PROVE  Escrow!Next
<1>1. /\ usdc \in [Account -> Nat] /\ usdc' \in [Account -> Nat] /\ totalAssets \in Nat
      /\ totalAssets' \in Nat
      /\ VaultAddr \in Account /\ VaultAddr \notin Holder
      /\ PmAddr \in Account /\ PmAddr \notin Holder /\ PmAddr # VaultAddr
      /\ Holder \subseteq Account
  BY Accounts, Addresses DEF Ledger, Books, VaultTypeOK
<1>2. /\ assets \in Nat /\ totalAssets' = totalAssets - assets
      /\ CanTransfer(usdc, VaultAddr, assets)
      /\ usdc' = Transfer(usdc, VaultAddr, receiver, assets)
  BY DEF PayOut, CanTransfer
<1>3. \A a \in Account : usdc'[a] = usdc[a] - (IF a = VaultAddr THEN assets ELSE 0)
                                           + (IF a = receiver THEN assets ELSE 0)
  BY <1>1, <1>2, TransferMoves
<1>4. Escrow!Earned = -assets
  BY <1>1, <1>2 DEF Escrow!Earned
<1>5. usdc'[PmAddr] - usdc[PmAddr] = IF receiver = PmAddr THEN assets ELSE 0
  BY <1>1, <1>2, <1>3
<1>6. Escrow!Charged = IF receiver = PmAddr THEN assets ELSE 0
  <2>1. FeesKept' - FeesKept = usdc'[PmAddr] - usdc[PmAddr]
    BY FeesMoved
  <2> QED
    BY <1>5, <2>1 DEF Escrow!Charged
<1>7. PICK h \in Holder : receiver \in Holder => h = receiver
  OBVIOUS
<1>8. /\ \A g \in Holder \ {h} : usdc'[g] = usdc[g]
      /\ usdc'[h] - usdc[h] = IF receiver \in Holder THEN assets ELSE 0
  BY <1>1, <1>2, <1>3, <1>7
<1>9. /\ Escrow!OnlyWallet(h)
      /\ Escrow!Received(h) = IF receiver \in Holder THEN assets ELSE 0
  BY <1>1, <1>8, WalletMoved
<1>10. /\ Escrow!Received(h) + Escrow!Charged <= -Escrow!Earned
       /\ Escrow!Received(h) >= 0 /\ Escrow!Charged >= 0
  BY <1>1, <1>2, <1>4, <1>6, <1>9
<1>11. Escrow!Withdraw(h)
  BY <1>1, <1>9, <1>10 DEF Escrow!Withdraw
<1> QED
  BY <1>11 DEF Escrow!Next

-----------------------------------------------------------------------------
(* The escrow's variables, as the mapping gives them. *)
EscrowState == <<[h \in Holder |-> usdc[h]], StakeMap(limitOrder), StakeMap(trade),
                 totalAssets, FeesKept>>

(* A step that moves no USDC and changes no stake is a stutter. *)
LEMMA StutterMapped ==
    ASSUME UNCHANGED <<usdc, totalAssets>>,
           \A k \in Key : (trade[k] = None) = (trade'[k] = None),
           \A k \in Key : (limitOrder[k] = None) = (limitOrder'[k] = None),
           \A k \in Key : trade[k] # None => trade'[k].collateral = trade[k].collateral,
           \A k \in Key : limitOrder[k] # None =>
                              limitOrder'[k].collateral = limitOrder[k].collateral
    PROVE  UNCHANGED EscrowState
<1>1. StakeMap(trade') = StakeMap(trade) /\ StakeMap(limitOrder') = StakeMap(limitOrder)
  BY DEF StakeMap
<1>2. Stakes(trade') = Stakes(trade) /\ Stakes(limitOrder') = Stakes(limitOrder)
  BY DEF Stakes, Stake
<1>3. FeesKept' = FeesKept
  BY <1>2, BooksOfRecords DEF FeesKept
<1> QED
  BY <1>1, <1>3 DEF EscrowState

(* A step that leaves the stored records alone, and the money. *)
LEMMA RestMapped ==
    ASSUME UNCHANGED <<usdc, totalAssets, trade, limitOrder>>
    PROVE  UNCHANGED EscrowState
BY StutterMapped

(* Editing triggers or a limit price touches no stake. *)
LEMMA EditMapped ==
    ASSUME Ledger, NEW trader \in Holder, NEW i \in PairIndex, NEW n \in Slot,
           NEW tp \in TriggerPrice, NEW sl \in TriggerPrice,
           \/ UpdateTpSl(trader, i, n, tp, sl)
           \/ \E limitPrice \in LimitPrice : UpdateLimitOrder(trader, i, n, limitPrice, tp, sl)
    PROVE  UNCHANGED EscrowState
<1> DEFINE k == <<trader, i, n>>
<1>1. /\ k \in Key /\ tp \in Int /\ sl \in Int /\ LimitPrice \subseteq Int
      /\ trade \in [Key -> Trade \cup {None}]
      /\ limitOrder \in [Key -> LimitOrder \cup {None}]
  BY KeysFinite, PositionAssumption DEF Ledger, PmTypeOK
<1>2. CASE UpdateTpSl(trader, i, n, tp, sl)
  <2> DEFINE t == trade[k]
             updated == [isLong |-> t.isLong, leverage |-> t.leverage,
                         openPrice |-> t.openPrice, collateral |-> t.collateral,
                         tpPrice |-> tp, slPrice |-> sl]
  <2>1. /\ t # None /\ trade' = [trade EXCEPT ![k] = updated]
        /\ UNCHANGED <<usdc, totalAssets, limitOrder>>
    BY <1>2 DEF UpdateTpSl, vaultVars, fund
  <2>2. t \in Trade
    BY <1>1, <2>1
  <2>3. updated \in Trade /\ updated # None /\ updated.collateral = t.collateral
    <3> HIDE DEF t
    <3> QED
      BY <1>1, <2>2, StoreAssumption DEF Trade
  <2> HIDE DEF updated, k
  <2>4. trade'[k] = updated /\ \A j \in Key \ {k} : trade'[j] = trade[j]
    BY <1>1, <2>1
  <2> QED
    BY <1>1, <2>1, <2>3, <2>4, StutterMapped
<1>3. ASSUME NEW limitPrice \in LimitPrice,
             UpdateLimitOrder(trader, i, n, limitPrice, tp, sl)
      PROVE  UNCHANGED EscrowState
  <2> DEFINE order == limitOrder[k]
             updated == [isLong |-> order.isLong, leverage |-> order.leverage,
                         collateral |-> order.collateral, limitPrice |-> limitPrice,
                         tpPrice |-> tp, slPrice |-> sl]
  <2>1. /\ order # None /\ limitPrice > 0 /\ limitOrder' = [limitOrder EXCEPT ![k] = updated]
        /\ UNCHANGED <<usdc, totalAssets, trade>>
    BY <1>3 DEF UpdateLimitOrder, vaultVars, fund
  <2>2. order \in LimitOrder
    BY <1>1, <2>1
  <2>3. updated \in LimitOrder /\ updated # None /\ updated.collateral = order.collateral
    <3> HIDE DEF order
    <3> QED
      BY <1>1, <2>1, <2>2, StoreAssumption DEF LimitOrder
  <2> HIDE DEF updated, k
  <2>4. limitOrder'[k] = updated /\ \A j \in Key \ {k} : limitOrder'[j] = limitOrder[j]
    BY <1>1, <2>1
  <2> QED
    BY <1>1, <2>1, <2>3, <2>4, StutterMapped
<1> QED
  BY <1>2, <1>3

(* A close at market, by the trader or on a trigger, ends the trade. *)
LEMMA CloseMapped ==
    ASSUME Ledger, Kept, NEW trader \in Holder, NEW i \in PairIndex, NEW n \in Slot,
           trade[<<trader, i, n>>] # None, CloseAtMarket(trader, i, n)
    PROVE  Escrow!Next
<1> DEFINE t == trade[<<trader, i, n>>]
           settled == Settlement(t, i)
           fromPm == t.collateral - settled.fee
<1>1. SettleTrade(trader, i, n, fromPm, settled.payout - fromPm)
  BY DEF CloseAtMarket
<1> HIDE DEF settled, fromPm
<1> QED
  BY <1>1, SettleMapped

(* Every entry point a trader calls. *)
LEMMA TraderMapped ==
    ASSUME Ledger, Kept, TraderStep
    PROVE  Escrow!Next \/ UNCHANGED EscrowState
<1>1. Ledger' /\ FeesKept' >= FeesKept
  BY DEF Kept
<1>2. PICK trader \in Holder, i \in PairIndex :
        \/ \E isLong \in BOOLEAN, collateral \in Collateral, leverage \in Leverage,
              tp, sl \in TriggerPrice :
            \/ OpenMarketTrade(trader, i, isLong, collateral, leverage, tp, sl)
            \/ \E limitPrice \in LimitPrice :
                PlaceLimitOrder(trader, i, isLong, collateral, leverage, limitPrice, tp, sl)
        \/ \E n \in Slot :
            \/ CloseMarketTrade(trader, i, n)
            \/ CancelLimitOrder(trader, i, n)
            \/ \E tp, sl \in TriggerPrice :
                \/ UpdateTpSl(trader, i, n, tp, sl)
                \/ \E limitPrice \in LimitPrice :
                    UpdateLimitOrder(trader, i, n, limitPrice, tp, sl)
  BY DEF TraderStep
<1>3. ASSUME NEW isLong \in BOOLEAN, NEW collateral \in Collateral, NEW leverage \in Leverage,
             NEW tp \in TriggerPrice, NEW sl \in TriggerPrice,
             \/ OpenMarketTrade(trader, i, isLong, collateral, leverage, tp, sl)
             \/ \E limitPrice \in LimitPrice :
                 PlaceLimitOrder(trader, i, isLong, collateral, leverage, limitPrice, tp, sl)
      PROVE  Escrow!Next
  BY <1>1, <1>3, OpenMapped, PlaceMapped
<1>4. ASSUME NEW n \in Slot, CloseMarketTrade(trader, i, n) \/ CancelLimitOrder(trader, i, n)
      PROVE  Escrow!Next
  BY <1>1, <1>4, CloseMapped, CancelMapped DEF CloseMarketTrade
<1>5. ASSUME NEW n \in Slot, NEW tp \in TriggerPrice, NEW sl \in TriggerPrice,
             \/ UpdateTpSl(trader, i, n, tp, sl)
             \/ \E limitPrice \in LimitPrice :
                 UpdateLimitOrder(trader, i, n, limitPrice, tp, sl)
      PROVE  UNCHANGED EscrowState
  BY <1>5, EditMapped
<1> QED
  BY <1>2, <1>3, <1>4, <1>5

(* Every entry point a keeper calls. *)
LEMMA KeeperMapped ==
    ASSUME Ledger, Kept, KeeperStep
    PROVE  Escrow!Next
<1>1. Ledger' /\ FeesKept' >= FeesKept
  BY DEF Kept
<1>2. PICK trader \in Holder, i \in PairIndex, n \in Slot :
          ExecuteLimitOrder(trader, i, n) \/ LiquidateTrade(trader, i, n)
            \/ ExecuteTpSl(trader, i, n)
  BY DEF KeeperStep
<1>3. CASE ExecuteTpSl(trader, i, n)
  BY <1>3, CloseMapped DEF ExecuteTpSl
<1>4. CASE LiquidateTrade(trader, i, n)
  BY <1>4, SettleMapped DEF LiquidateTrade
<1> QED
  BY <1>1, <1>2, <1>3, <1>4, ExecuteMapped

(* LPs provide and withdraw; the rest of the vault, the admins and the      *)
(* oracle touch no stake.                                                  *)
LEMMA OthersMapped ==
    ASSUME Ledger, Kept, PoolStep \/ AdminStep \/ OracleStep
    PROVE  Escrow!Next \/ UNCHANGED EscrowState
<1>1. Ledger'
  BY DEF Kept
<1>2. CASE PoolStep /\ LpStep
  <2>1. UNCHANGED <<trade, limitOrder>>
    BY <1>2 DEF PoolStep, pmVars
  <2>2. PICK from \in Holder, amount \in Amount, r \in Account :
            \/ r \in Holder /\ (Deposit(from, amount, r) \/ Mint(from, amount, r))
            \/ Redeem(from, amount, r) \/ Withdraw(from, amount, r)
    BY <1>2, Accounts DEF LpStep
  <2>3. /\ amount \in Int
        /\ AssetsToShares(amount, totalAssets, totalShares) \in Int
        /\ SharesToAssets(amount, totalAssets, totalShares) \in Int
        /\ amount > 0 => SharesToBurn(amount, totalAssets, totalShares) \in Nat
    BY AmountAssumption, ConversionTypes DEF Ledger, Books, VaultTypeOK
  <2>4. CASE r \in Holder /\ (Deposit(from, amount, r) \/ Mint(from, amount, r))
    BY <1>1, <2>1, <2>3, <2>4, TakeInMapped DEF Deposit, Mint
  <2>5. CASE Redeem(from, amount, r) \/ Withdraw(from, amount, r)
    <3>1. amount \in Nat
      BY <2>3, <2>5 DEF Redeem, Withdraw
    <3> QED
      BY <1>1, <2>1, <2>3, <2>5, <3>1, PayOutMapped DEF Redeem, Withdraw
  <2> QED
    BY <2>2, <2>4, <2>5
<1>3. CASE PoolStep /\ ~LpStep
  <2>1. ShareTokenStep \/ VaultAdminStep \/ CloseLedger
    BY <1>3 DEF PoolStep
  <2>2. UNCHANGED <<usdc, totalAssets>>
    BY <2>1 DEF ShareTokenStep, Approve, TransferShares, TransferFrom, Burn, BurnFrom,
       VaultAdminStep, SetWithdrawLock, SetPositionManager, Pause, Unpause, CloseLedger,
       vaultVars, fund
  <2>3. UNCHANGED <<trade, limitOrder>>
    BY <1>3 DEF PoolStep, pmVars
  <2> QED
    BY <2>2, <2>3, RestMapped
<1>4. CASE AdminStep \/ OracleStep
  <2>1. UNCHANGED <<usdc, totalAssets, trade, limitOrder>>
    BY <1>4 DEF AdminStep, SetMaxTradesPerPair, OracleStep, MovePrice, SetReflectorContract,
       pmVars, vaultVars, fund
  <2> QED
    BY <2>1, RestMapped
<1> QED
  BY <1>2, <1>3, <1>4

(* A fresh deployment has no stake; the PositionManager may hold money.     *)
LEMMA InitEscrow == Init => Escrow!Init
<1> SUFFICES ASSUME Init PROVE Escrow!Init
  OBVIOUS
<1>1. Ledger /\ FeesKept >= 0
  BY InitLedger
<1>2. FeesKept \in Nat
  BY <1>1, FeesTyped
<1>3. [h \in Holder |-> usdc[h]] \in [Holder -> Nat]
  BY <1>1, Accounts DEF Ledger, Books, VaultTypeOK
<1>4. totalAssets = 0 /\ \A k \in Key : trade[k] = None /\ limitOrder[k] = None
  BY DEF Init, VaultInit
<1> QED
  BY <1>2, <1>3, <1>4 DEF Escrow!Init, Escrow!Key, Key

(* The composed contracts are an escrow: every stake is one trader's, and   *)
(* goes where it goes to the last unit, for any number of traders, pairs,  *)
(* orders and trades.                                                       *)
THEOREM EscrowTheorem == Spec => EscrowImplemented
<1>1. Ledger /\ [Next]_vars => [Escrow!Next]_EscrowState
  <2> SUFFICES ASSUME Ledger, [Next]_vars, ~(UNCHANGED EscrowState) PROVE Escrow!Next
    OBVIOUS
  <2>1. Kept
    BY StepKeeps
  <2>2. CASE UNCHANGED vars
    BY <2>2, RestMapped DEF vars, pmVars, vaultVars, fund
  <2> QED
    BY <2>1, <2>2, TraderMapped, KeeperMapped, OthersMapped DEF Next
<1>2. [Escrow!Next]_EscrowState =>
          [Escrow!Next]_<<[h \in Holder |-> usdc[h]],
                          [k \in Key |-> IF limitOrder[k] = None
                                           THEN None ELSE limitOrder[k].collateral],
                          [k \in Key |-> IF trade[k] = None THEN None ELSE trade[k].collateral],
                          totalAssets, FeesKept>>
  BY DEF EscrowState, StakeMap
<1> QED
  BY <1>1, <1>2, InitEscrow, LedgerKept, PTL DEF Spec, EscrowImplemented, Escrow!Spec
=============================================================================
