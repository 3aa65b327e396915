---------------------------- MODULE PairRegistry ----------------------------
(***************************************************************************)
(* contracts/pair-registry: the pairs that can be traded, their fee        *)
(* groups, the rollover and funding accumulators and the open interest.    *)
(*                                                                         *)
(* Of PairInfo and Group the fields that some contract reads are kept;     *)
(* spread_p, min_lev_pos_usdc, max_oi_usdc, max_neg_pnl_p and              *)
(* max_collateral_usdc are stored and validated but never read.            *)
(***************************************************************************)
EXTENDS LedgerSequence, FeeMath, TradeMath

CONSTANTS
    GroupIndex,     \* indices groups are stored under
    Asset,          \* reflector assets
    PairConfig,     \* PairInfo values the admin passes
    GroupConfig,    \* Group values the admin passes
    FeeRate,        \* open and close fee rates the admin passes
    LedgerRate,     \* rollover and funding rates the admin passes
    Depth,          \* one-percent depths the admin passes
    MaxPos,         \* max_pos_usdc values the admin passes
    OiDelta,        \* open-interest changes the PositionManager passes
    MaxOi,          \* bound: stands for i128::MAX in add_oi
    None,           \* absent from storage
    TradeMeta       \* positions callers of the trade views describe

ASSUME RegistryAssumption ==
    /\ FeeRate \subseteq Int /\ LedgerRate \subseteq Int /\ Depth \subseteq Int
    /\ MaxPos \subseteq Int /\ OiDelta \subseteq Int /\ MaxOi \in Nat

(* The views fail for a position of no collateral or leverage.             *)
ASSUME TradeMetaAssumption ==
    TradeMeta \subseteq [isLong : BOOLEAN, leverage : Nat \ {0}, openPrice : Nat,
                        collateral : Nat \ {0}, accRolloverOpen : Int, accFundingOpen : Int]

VARIABLES
    pair,              \* DataKey::Pair(i)
    group,             \* DataKey::Group(i)
    rollover,          \* DataKey::Rollover(i)
    funding,           \* DataKey::Funding(i)
    openInterest,      \* DataKey::OI(i)
    depth,             \* DataKey::Depth(i)
    pairsCount,        \* DataKey::PairsCount
    maxPosUsdc,        \* DataKey::MaxPosUsdc
    registryManager    \* DataKey::PositionManager

accumulators == <<rollover, funding>>
registryVars == <<pair, group, accumulators, openInterest, depth, pairsCount, maxPosUsdc,
                  registryManager>>

PairInfo == [asset : Asset, groupIndex : GroupIndex, minLeverage : Nat, maxLeverage : Nat,
             liqThresholdP : Nat, maxGainP : Nat, disabled : BOOLEAN]
Group == [openFeeP : Nat, closeFeeP : Nat]
RolloverState == [acc : Nat, rate : Nat, last : Nat]
FundingState == [long : Int, short : Int, rate : Nat, last : Nat]
PairOi == [long : Nat, short : Nat]

ASSUME ConfigAssumption ==
    /\ PairConfig \subseteq PairInfo
    /\ GroupConfig \subseteq [openFeeP : Int, closeFeeP : Int]
    /\ None \notin PairInfo /\ None \notin Group

RegistryTypeOK ==
    /\ pair \in [PairIndex -> PairInfo \cup {None}]
    /\ group \in [GroupIndex -> Group \cup {None}]
    /\ rollover \in [PairIndex -> RolloverState]
    /\ funding \in [PairIndex -> FundingState]
    /\ openInterest \in [PairIndex -> PairOi]
    /\ depth \in [PairIndex -> Nat]
    /\ pairsCount \in Nat
    /\ maxPosUsdc \in Nat
    /\ registryManager \in Manager

(* The state init leaves behind; the RolloverState, FundingState and PairOi *)
(* of an index that was never written read as their defaults.              *)
RegistryInit ==
    /\ sequence = FirstLedger
    /\ pair = [i \in PairIndex |-> None]
    /\ group = [g \in GroupIndex |-> None]
    /\ rollover = [i \in PairIndex |-> [acc |-> 0, rate |-> 0, last |-> 0]]
    /\ funding = [i \in PairIndex |-> [long |-> 0, short |-> 0, rate |-> 0, last |-> 0]]
    /\ openInterest = [i \in PairIndex |-> [long |-> 0, short |-> 0]]
    /\ depth = [i \in PairIndex |-> 0]
    /\ pairsCount = 0
    /\ maxPosUsdc \in {m \in MaxPos : m >= 0}
    /\ registryManager \in Manager

-----------------------------------------------------------------------------
HasPair(i) == pair[i] # None
HasGroup(g) == group[g] # None

ValidPairInfo(info) ==
    /\ info.minLeverage # 0 /\ info.maxLeverage # 0
    /\ info.maxLeverage >= info.minLeverage
    /\ info.liqThresholdP # 0 /\ info.liqThresholdP =< 100
    /\ info.maxGainP # 0

ValidGroup(g) == g.openFeeP >= 0 /\ g.closeFeeP >= 0

-----------------------------------------------------------------------------
(* The admin's entry points. *)

(* Mutant: the group is not looked up. *)
AddPairWithoutGroup(i, info) ==
    /\ ValidPairInfo(info)
    /\ ~HasPair(i)
    /\ pair' = [pair EXCEPT ![i] = info]
    /\ rollover' = [rollover EXCEPT ![i] = [acc |-> 0, rate |-> 0, last |-> sequence]]
    /\ funding' = [funding EXCEPT ![i] =
                      [long |-> 0, short |-> 0, rate |-> 0, last |-> sequence]]
    /\ pairsCount' = pairsCount + 1
    /\ UNCHANGED <<group, openInterest, depth, maxPosUsdc, registryManager>>

(* Mutant: a pair can be added over itself. *)
AddPairAgain(i, info) ==
    /\ ValidPairInfo(info)
    /\ HasGroup(info.groupIndex)
    /\ pair' = [pair EXCEPT ![i] = info]
    /\ rollover' = [rollover EXCEPT ![i] = [acc |-> 0, rate |-> 0, last |-> sequence]]
    /\ funding' = [funding EXCEPT ![i] =
                      [long |-> 0, short |-> 0, rate |-> 0, last |-> sequence]]
    /\ pairsCount' = pairsCount + 1
    /\ UNCHANGED <<group, openInterest, depth, maxPosUsdc, registryManager>>

AddPair(i, info) ==
    /\ ValidPairInfo(info)
    /\ ~HasPair(i)
    /\ HasGroup(info.groupIndex)
    /\ pair' = [pair EXCEPT ![i] = info]
    /\ rollover' = [rollover EXCEPT ![i] = [acc |-> 0, rate |-> 0, last |-> sequence]]
    /\ funding' = [funding EXCEPT ![i] =
                      [long |-> 0, short |-> 0, rate |-> 0, last |-> sequence]]
    /\ pairsCount' = pairsCount + 1
    /\ UNCHANGED <<group, openInterest, depth, maxPosUsdc, registryManager>>

UpdatePair(i, info) ==
    /\ ValidPairInfo(info)
    /\ HasPair(i)
    /\ HasGroup(info.groupIndex)
    /\ pair' = [pair EXCEPT ![i] = info]
    /\ UNCHANGED <<group, accumulators, openInterest, depth, pairsCount, maxPosUsdc,
                   registryManager>>

DisablePair(i) ==
    /\ HasPair(i)
    /\ pair' = [pair EXCEPT ![i].disabled = TRUE]
    /\ UNCHANGED <<group, accumulators, openInterest, depth, pairsCount, maxPosUsdc,
                   registryManager>>

(* Mutant: a negative rate is accepted. *)
SetRolloverRatePUnchecked(i, rate) ==
    /\ HasPair(i)
    /\ rollover' = [rollover EXCEPT ![i].rate = rate]
    /\ UNCHANGED <<pair, group, funding, openInterest, depth, pairsCount, maxPosUsdc,
                   registryManager>>

(* The new rate also applies to the ledgers since the last commit.         *)
SetRolloverRateP(i, rate) ==
    /\ rate >= 0
    /\ HasPair(i)
    /\ rollover' = [rollover EXCEPT ![i].rate = rate]
    /\ UNCHANGED <<pair, group, funding, openInterest, depth, pairsCount, maxPosUsdc,
                   registryManager>>

SetFundingRateP(i, rate) ==
    /\ rate >= 0
    /\ HasPair(i)
    /\ funding' = [funding EXCEPT ![i].rate = rate]
    /\ UNCHANGED <<pair, group, rollover, openInterest, depth, pairsCount, maxPosUsdc,
                   registryManager>>

SetOnePercentDepth(i, usdcDepth) ==
    /\ usdcDepth >= 0
    /\ HasPair(i)
    /\ depth' = [depth EXCEPT ![i] = usdcDepth]
    /\ UNCHANGED <<pair, group, accumulators, openInterest, pairsCount, maxPosUsdc,
                   registryManager>>

AddGroup(g, info) ==
    /\ ValidGroup(info)
    /\ ~HasGroup(g)
    /\ group' = [group EXCEPT ![g] = info]
    /\ UNCHANGED <<pair, accumulators, openInterest, depth, pairsCount, maxPosUsdc,
                   registryManager>>

UpdateGroup(g, info) ==
    /\ ValidGroup(info)
    /\ HasGroup(g)
    /\ group' = [group EXCEPT ![g] = info]
    /\ UNCHANGED <<pair, accumulators, openInterest, depth, pairsCount, maxPosUsdc,
                   registryManager>>

SetGroupOpenFeeP(g, fee) ==
    /\ fee >= 0
    /\ HasGroup(g)
    /\ group' = [group EXCEPT ![g].openFeeP = fee]
    /\ UNCHANGED <<pair, accumulators, openInterest, depth, pairsCount, maxPosUsdc,
                   registryManager>>

SetGroupCloseFeeP(g, fee) ==
    /\ fee >= 0
    /\ HasGroup(g)
    /\ group' = [group EXCEPT ![g].closeFeeP = fee]
    /\ UNCHANGED <<pair, accumulators, openInterest, depth, pairsCount, maxPosUsdc,
                   registryManager>>

SetRegistryManager(manager) ==
    /\ registryManager' = manager
    /\ UNCHANGED <<pair, group, accumulators, openInterest, depth, pairsCount, maxPosUsdc>>

SetMaxPosUsdc(value) ==
    /\ value >= 0
    /\ maxPosUsdc' = value
    /\ UNCHANGED <<pair, group, accumulators, openInterest, depth, pairsCount,
                   registryManager>>

-----------------------------------------------------------------------------
(* The PositionManager's entry points.  The ledger a commit is made at is   *)
(* the caller's argument: it may not lie before the last commit, but       *)
(* nothing compares it with the current ledger.                            *)

(* Mutant: the ledger committed at is not recorded. *)
CommitAccRolloverUndated(manager, i, atLedger) ==
    LET state == rollover[i]
        delta == atLedger - state.last
    IN /\ manager = registryManager
       /\ HasPair(i)
       /\ delta >= 0
       /\ rollover' = [rollover EXCEPT ![i].acc =
                            PendingAccRollover(state.acc, delta, state.rate)]
       /\ UNCHANGED <<pair, group, funding, openInterest, depth, pairsCount, maxPosUsdc,
                      registryManager>>

(* Mutant: the funding rate is charged. *)
CommitAccRolloverAtFundingRate(manager, i, atLedger) ==
    LET state == rollover[i]
        delta == atLedger - state.last
    IN /\ manager = registryManager
       /\ HasPair(i)
       /\ delta >= 0
       /\ rollover' = [rollover EXCEPT ![i].acc =
                            PendingAccRollover(state.acc, delta, funding[i].rate),
                                       ![i].last = atLedger]
       /\ UNCHANGED <<pair, group, funding, openInterest, depth, pairsCount, maxPosUsdc,
                      registryManager>>

CommitAccRollover(manager, i, atLedger) ==
    LET state == rollover[i]
        delta == atLedger - state.last
    IN /\ manager = registryManager
       /\ HasPair(i)
       /\ delta >= 0
       /\ rollover' = IF delta = 0 THEN rollover
                      ELSE [rollover EXCEPT ![i].acc =
                                PendingAccRollover(state.acc, delta, state.rate),
                                            ![i].last = atLedger]
       /\ UNCHANGED <<pair, group, funding, openInterest, depth, pairsCount, maxPosUsdc,
                      registryManager>>

CommitAccFunding(manager, i, atLedger) ==
    LET state == funding[i]
        delta == atLedger - state.last
        pending == PendingAccFunding(state.long, state.short, openInterest[i], delta,
                                     state.rate)
    IN /\ manager = registryManager
       /\ HasPair(i)
       /\ delta >= 0
       /\ funding' = IF delta = 0 THEN funding
                     ELSE [funding EXCEPT ![i] = [long |-> pending.long,
                                                  short |-> pending.short,
                                                  rate |-> state.rate, last |-> atLedger]]
       /\ UNCHANGED <<pair, group, rollover, openInterest, depth, pairsCount, maxPosUsdc,
                      registryManager>>

SideOf(oi, isLong) == IF isLong THEN oi.long ELSE oi.short

WithSide(oi, isLong, amount) ==
    IF isLong THEN [long |-> amount, short |-> oi.short]
              ELSE [long |-> oi.long, short |-> amount]

(* Neither entry point asks whether the pair exists, and max_oi_usdc is     *)
(* not consulted.                                                          *)
AddOi(manager, i, isLong, delta) ==
    LET grown == SideOf(openInterest[i], isLong) + delta
    IN /\ manager = registryManager
       /\ delta >= 0
       /\ grown =< MaxOi
       /\ openInterest' = [openInterest EXCEPT ![i] = WithSide(@, isLong, grown)]
       /\ UNCHANGED <<pair, group, accumulators, depth, pairsCount, maxPosUsdc,
                      registryManager>>

SubOi(manager, i, isLong, delta) ==
    LET left == FloorAtZero(SideOf(openInterest[i], isLong) - delta)
    IN /\ manager = registryManager
       /\ delta >= 0
       /\ openInterest' = [openInterest EXCEPT ![i] = WithSide(@, isLong, left)]
       /\ UNCHANGED <<pair, group, accumulators, depth, pairsCount, maxPosUsdc,
                      registryManager>>

-----------------------------------------------------------------------------
(* Views. *)

(* A projection to a ledger before the last commit is the committed value.  *)
PendingAccRolloverView(i, atLedger) ==
    LET state == rollover[i]
    IN IF atLedger =< state.last THEN state.acc
       ELSE PendingAccRollover(state.acc, atLedger - state.last, state.rate)

PendingAccFundingView(i, atLedger) ==
    LET state == funding[i]
    IN IF atLedger =< state.last THEN [long |-> state.long, short |-> state.short]
       ELSE PendingAccFunding(state.long, state.short, openInterest[i],
                              atLedger - state.last, state.rate)

(* A position is given as the callers of the trade views describe it. *)

(* Mutant: each side is charged the other side's funding. *)
TradeLiquidationPriceOtherSide(i, meta, atLedger) ==
    LET acc == PendingAccFundingView(i, atLedger)
    IN LiquidationPrice(meta.openPrice, meta.isLong, meta.collateral, meta.leverage,
                        RolloverFeeForTrade(meta.accRolloverOpen,
                                            PendingAccRolloverView(i, atLedger),
                                            meta.collateral),
                        FundingFeeForTrade(meta.accFundingOpen, SideOf(acc, ~meta.isLong),
                                           meta.collateral, meta.leverage),
                        pair[i].liqThresholdP)

(* get_trade_liquidation_price, for a pair that exists; is_liquidatable_view *)
(* compares an observed price with it.                                     *)
TradeLiquidationPriceView(i, meta, atLedger) ==
    LET acc == PendingAccFundingView(i, atLedger)
    IN LiquidationPrice(meta.openPrice, meta.isLong, meta.collateral, meta.leverage,
                        RolloverFeeForTrade(meta.accRolloverOpen,
                                            PendingAccRolloverView(i, atLedger),
                                            meta.collateral),
                        FundingFeeForTrade(meta.accFundingOpen, SideOf(acc, meta.isLong),
                                           meta.collateral, meta.leverage),
                        pair[i].liqThresholdP)

-----------------------------------------------------------------------------
RegistryAdminStep ==
    \/ \E i \in PairIndex, info \in PairConfig : AddPair(i, info) \/ UpdatePair(i, info)
    \/ \E i \in PairIndex :
        \/ DisablePair(i)
        \/ \E rate \in LedgerRate : SetRolloverRateP(i, rate) \/ SetFundingRateP(i, rate)
        \/ \E usdcDepth \in Depth : SetOnePercentDepth(i, usdcDepth)
    \/ \E g \in GroupIndex :
        \/ \E info \in GroupConfig : AddGroup(g, info) \/ UpdateGroup(g, info)
        \/ \E fee \in FeeRate : SetGroupOpenFeeP(g, fee) \/ SetGroupCloseFeeP(g, fee)
    \/ \E manager \in Manager : SetRegistryManager(manager)
    \/ \E value \in MaxPos : SetMaxPosUsdc(value)

RegistryManagerStep ==
    \E manager \in Manager, i \in PairIndex :
        \/ \E atLedger \in FirstLedger .. LastLedger :
            CommitAccRollover(manager, i, atLedger) \/ CommitAccFunding(manager, i, atLedger)
        \/ \E isLong \in BOOLEAN, delta \in OiDelta :
            AddOi(manager, i, isLong, delta) \/ SubOi(manager, i, isLong, delta)

RegistryNext ==
    \/ (RegistryAdminStep \/ RegistryManagerStep) /\ UNCHANGED sequence
    \/ AdvanceSequence /\ UNCHANGED registryVars

RegistrySpec == RegistryInit /\ [][RegistryNext]_<<sequence, registryVars>>

-----------------------------------------------------------------------------
(* Properties. *)

(* PairsUsable: whatever the admin adds and updates in whatever order,      *)
(* every stored pair has parameters the formulas accept and a group to     *)
(* read its fees from, so get_group cannot trap in a trader's close.       *)
PairsUsable ==
    \A i \in PairIndex :
        HasPair(i) => ValidPairInfo(pair[i]) /\ HasGroup(pair[i].groupIndex)

(* NoLedgerBilledTwice: the committed rollover never exceeds what the       *)
(* highest rate makes of the ledgers up to the last commit, in however     *)
(* many commits, at whatever ledgers, and with rate changes in between.    *)
NoLedgerBilledTwice ==
    \A i \in PairIndex : \E rate \in LedgerRate \cup {0} :
        HasPair(i) => rollover[i].acc * P_SCALE * 100
                        =< (rollover[i].last - FirstLedger) * rate * USDC_SCALE

(* RolloverNeverRefunds: fees.rs:14 calls the rollover accumulator          *)
(* monotonically increasing.  No commit, rate change or re-configuration   *)
(* of a pair takes it, or the ledger it stands at, back.                   *)
RolloverNeverRefunds ==
    [][\A i \in PairIndex : HasPair(i) =>
        rollover'[i].acc >= rollover[i].acc /\ rollover'[i].last >= rollover[i].last]_rollover

(* CommitKeepsProjection: when a commit is made changes nothing for anybody *)
(* looking further ahead: the view projects the same rollover before and   *)
(* after it, short of at most one unit lost in rounding, and never gained. *)
CommitKeepsProjection ==
    [][\A i \in PairIndex : HasPair(i) /\ rollover'[i].last > rollover[i].last =>
        \A at \in rollover'[i].last .. LastLedger :
            /\ PendingAccRolloverView(i, at)' =< PendingAccRolloverView(i, at)
            /\ PendingAccRolloverView(i, at) =< PendingAccRolloverView(i, at)' + 1]_rollover

(* HeavierSidePressed: while a side has no less open interest than the      *)
(* other, each ledger brings the liquidation price of its positions closer *)
(* to where they were opened, however commits, rate changes and trades     *)
(* came before.  The view composes four floored formulas, two of signed    *)
(* amounts: a slip in one sign or side would have positions drift away     *)
(* from liquidation on the side that should be paying.                     *)
HeavierSidePressed ==
    \A i \in PairIndex, meta \in TradeMeta, at \in FirstLedger .. LastLedger - 1 :
        LET next == TradeLiquidationPriceView(i, meta, at + 1)
            now == TradeLiquidationPriceView(i, meta, at)
        IN HasPair(i) /\ SideOf(openInterest[i], meta.isLong)
                            >= SideOf(openInterest[i], ~meta.isLong)
               => IF meta.isLong THEN next >= now ELSE next =< now

(* FundingBalances: when both sides of a pair are open, a funding commit    *)
(* gives one side what it takes from the other; rounding favours neither   *)
(* by as much as one unit of the accumulator on its open interest.         *)
FundingBalances ==
    [][\A i \in PairIndex :
        LET long == openInterest[i].long
            short == openInterest[i].short
            paidByLongs == long * (funding'[i].long - funding[i].long)
            paidByShorts == short * (funding'[i].short - funding[i].short)
        IN long > 0 /\ short > 0 =>
            /\ -long < paidByLongs + paidByShorts
            /\ paidByLongs + paidByShorts < short]_funding
=============================================================================
