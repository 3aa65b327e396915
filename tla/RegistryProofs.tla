--------------------------- MODULE RegistryProofs ---------------------------
(***************************************************************************)
(* PairRegistry bills every ledger once and moves funding between sides    *)
(* without making any: for all pairs, groups, rates and ledgers.           *)
(***************************************************************************)
EXTENDS PairRegistry, MathProofs

Denominator == P_SCALE * 100

LEMMA DenominatorPositive == Denominator \in Nat /\ Denominator > 0 /\ USDC_SCALE \in Nat
BY ScaleAssumption DEF Denominator

(* A rollover accumulator brought forward grows by a natural number.        *)
LEMMA RolloverGrows ==
    ASSUME NEW acc \in Nat, NEW delta \in Nat, NEW rateP \in Nat
    PROVE  /\ PendingAccRollover(acc, delta, rateP) \in Nat
           /\ PendingAccRollover(acc, delta, rateP) >= acc
<1>1. delta * (rateP * USDC_SCALE) \in Nat
  BY DenominatorPositive, TimesNat
<1>2. (delta * (rateP * USDC_SCALE)) \div Denominator \in Nat
  BY ONLY <1>1, DenominatorPositive, DivNat
<1> QED
  BY <1>2 DEF PendingAccRollover, MulDivFloor, Denominator

(* A funding accumulator stays an integer. *)
LEMMA FundingTypes ==
    ASSUME NEW accLong \in Int, NEW accShort \in Int, NEW oi \in PairOi, NEW delta \in Int,
           NEW rateP \in Int
    PROVE  /\ PaidByLongs(oi, delta, rateP) \in Int
           /\ PendingAccFunding(accLong, accShort, oi, delta, rateP).long \in Int
           /\ PendingAccFunding(accLong, accShort, oi, delta, rateP).short \in Int
<1> DEFINE paid == PaidByLongs(oi, delta, rateP)
<1>1. oi.long \in Nat /\ oi.short \in Nat
  BY DEF PairOi
<1>2. ((oi.long - oi.short) * delta) * rateP \in Int
  BY <1>1
<1>3. paid \in Int
  BY ONLY <1>2, DenominatorPositive, FloorDivision DEF PaidByLongs, MulDivFloor, Denominator
<1> HIDE DEF paid
<1>4. paid * USDC_SCALE \in Int
  BY <1>3, DenominatorPositive
<1>5. /\ oi.long > 0 => (paid * USDC_SCALE) \div oi.long \in Int
      /\ oi.short > 0 => (paid * USDC_SCALE) \div oi.short \in Int
  BY <1>1, <1>4, FloorDivision
<1> QED
  BY <1>3, <1>5 DEF PendingAccFunding, MulDivFloor, paid

-----------------------------------------------------------------------------
(* What the records are; stated so that the steps need not expand them. *)

Clock == sequence \in Nat /\ sequence >= FirstLedger

LEMMA InitTypes == RegistryInit => RegistryTypeOK /\ Clock
BY RegistryAssumption, LedgerAssumption
   DEF RegistryInit, RegistryTypeOK, Clock, RolloverState, FundingState, PairOi

LEMMA AddPairTypes ==
    ASSUME RegistryTypeOK, Clock, NEW i \in PairIndex, NEW info \in PairConfig,
           AddPair(i, info)
    PROVE  RegistryTypeOK'
BY ConfigAssumption DEF RegistryTypeOK, Clock, AddPair, RolloverState, FundingState

LEMMA UpdatePairTypes ==
    ASSUME RegistryTypeOK, NEW i \in PairIndex,
           (\E info \in PairConfig : UpdatePair(i, info)) \/ DisablePair(i)
    PROVE  RegistryTypeOK'
<1> DEFINE halted == [pair[i] EXCEPT !.disabled = TRUE]
<1>1. pair[i] \in PairInfo
  BY DEF RegistryTypeOK, UpdatePair, DisablePair, HasPair
<1>2. halted \in PairInfo
  BY <1>1 DEF PairInfo
<1>3. \/ \E info \in PairConfig : pair' = [pair EXCEPT ![i] = info]
      \/ pair' = [pair EXCEPT ![i] = halted]
  BY DEF UpdatePair, DisablePair
<1> HIDE DEF halted
<1>4. pair' \in [PairIndex -> PairInfo \cup {None}]
  BY <1>2, <1>3, ConfigAssumption DEF RegistryTypeOK
<1> QED
  BY <1>4 DEF RegistryTypeOK, UpdatePair, DisablePair, accumulators

LEMMA RateTypes ==
    ASSUME RegistryTypeOK, NEW i \in PairIndex, NEW rate \in LedgerRate,
           SetRolloverRateP(i, rate) \/ SetFundingRateP(i, rate)
    PROVE  RegistryTypeOK'
<1> DEFINE rolled == [rollover[i] EXCEPT !.rate = rate]
           funded == [funding[i] EXCEPT !.rate = rate]
<1>1. rate \in Nat
  BY RegistryAssumption DEF SetRolloverRateP, SetFundingRateP
<1>2. rolled \in RolloverState /\ funded \in FundingState
  BY <1>1 DEF RegistryTypeOK, RolloverState, FundingState
<1>3. \/ rollover' = [rollover EXCEPT ![i] = rolled] /\ UNCHANGED funding
      \/ funding' = [funding EXCEPT ![i] = funded] /\ UNCHANGED rollover
  BY DEF SetRolloverRateP, SetFundingRateP
<1> HIDE DEF rolled, funded
<1>4. rollover' \in [PairIndex -> RolloverState] /\ funding' \in [PairIndex -> FundingState]
  BY <1>2, <1>3 DEF RegistryTypeOK
<1> QED
  BY <1>4 DEF RegistryTypeOK, SetRolloverRateP, SetFundingRateP

LEMMA GroupConfigTypes ==
    ASSUME RegistryTypeOK, NEW g \in GroupIndex, NEW info \in GroupConfig,
           AddGroup(g, info) \/ UpdateGroup(g, info)
    PROVE  RegistryTypeOK' /\ group'[g] \in Group
<1>1. info \in Group
  BY ConfigAssumption DEF AddGroup, UpdateGroup, ValidGroup, Group
<1> QED
  BY <1>1 DEF RegistryTypeOK, AddGroup, UpdateGroup, accumulators

LEMMA GroupFeeTypes ==
    ASSUME RegistryTypeOK, NEW g \in GroupIndex, NEW fee \in FeeRate,
           SetGroupOpenFeeP(g, fee) \/ SetGroupCloseFeeP(g, fee)
    PROVE  RegistryTypeOK' /\ group'[g] \in Group
<1>1. fee \in Nat /\ group[g] \in Group
  BY RegistryAssumption DEF RegistryTypeOK, SetGroupOpenFeeP, SetGroupCloseFeeP, HasGroup
<1>2. \E info \in Group : group' = [group EXCEPT ![g] = info]
  BY <1>1 DEF SetGroupOpenFeeP, SetGroupCloseFeeP, Group
<1> QED
  BY <1>2 DEF RegistryTypeOK, SetGroupOpenFeeP, SetGroupCloseFeeP, accumulators

(* A commit brings the accumulator forward, or, in the ledger of the commit *)
(* before it, leaves it.                                                   *)
LEMMA RolloverCommitted ==
    ASSUME RegistryTypeOK, NEW manager, NEW i \in PairIndex,
           NEW atLedger \in FirstLedger .. LastLedger,
           CommitAccRollover(manager, i, atLedger)
    PROVE  /\ atLedger >= rollover[i].last /\ rollover[i] \in RolloverState
           /\ \A j \in PairIndex \ {i} : rollover'[j] = rollover[j]
           /\ rollover' \in [PairIndex -> RolloverState]
           /\ rollover'[i].rate = rollover[i].rate /\ rollover'[i].last = atLedger
           /\ \/ rollover'[i].acc = rollover[i].acc /\ atLedger = rollover[i].last
              \/ rollover'[i].acc = PendingAccRollover(rollover[i].acc,
                                        atLedger - rollover[i].last, rollover[i].rate)
<1> DEFINE state == rollover[i]
           delta == atLedger - state.last
           acc == PendingAccRollover(state.acc, delta, state.rate)
           next == [state EXCEPT !.acc = acc, !.last = atLedger]
<1>1. state \in RolloverState /\ atLedger \in Nat
  BY LedgerAssumption DEF RegistryTypeOK
<1>2. delta \in Nat /\ atLedger >= state.last
  BY <1>1 DEF CommitAccRollover, RolloverState
<1>3. acc \in Nat
  BY <1>1, <1>2, RolloverGrows DEF RolloverState
<1>4. rollover' = IF delta = 0 THEN rollover ELSE [rollover EXCEPT ![i] = next]
  BY DEF CommitAccRollover
<1> HIDE DEF acc
<1>5. /\ next \in RolloverState
      /\ next.acc = acc /\ next.last = atLedger /\ next.rate = state.rate
  BY <1>1, <1>3 DEF RolloverState
<1> HIDE DEF next
<1>6. delta = 0 <=> atLedger = state.last
  BY <1>1, <1>2 DEF RolloverState
<1>7. CASE delta = 0
  BY <1>1, <1>2, <1>4, <1>6, <1>7 DEF RegistryTypeOK
<1>8. CASE delta # 0
  BY <1>1, <1>2, <1>4, <1>5, <1>8 DEF RegistryTypeOK, acc
<1> QED
  BY <1>7, <1>8

LEMMA FundingCommitted ==
    ASSUME RegistryTypeOK, NEW manager, NEW i \in PairIndex,
           NEW atLedger \in FirstLedger .. LastLedger,
           CommitAccFunding(manager, i, atLedger)
    PROVE  /\ \A j \in PairIndex \ {i} : funding'[j] = funding[j]
           /\ funding' \in [PairIndex -> FundingState]
           /\ \/ funding' = funding
              \/ LET pending == PendingAccFunding(funding[i].long, funding[i].short,
                                    openInterest[i], atLedger - funding[i].last,
                                    funding[i].rate)
                 IN /\ funding'[i].long = pending.long
                    /\ funding'[i].short = pending.short
<1> DEFINE state == funding[i]
           delta == atLedger - state.last
           pending == PendingAccFunding(state.long, state.short, openInterest[i], delta,
                                        state.rate)
           next == [long |-> pending.long, short |-> pending.short, rate |-> state.rate,
                    last |-> atLedger]
<1>1. /\ state.long \in Int /\ state.short \in Int /\ state.rate \in Nat
      /\ state.last \in Nat /\ openInterest[i] \in PairOi /\ atLedger \in Nat
  BY LedgerAssumption DEF RegistryTypeOK, FundingState
<1>2. delta \in Int
  BY <1>1
<1>3. pending.long \in Int /\ pending.short \in Int
  BY <1>1, <1>2, FundingTypes
<1>4. funding' = IF delta = 0 THEN funding ELSE [funding EXCEPT ![i] = next]
  BY DEF CommitAccFunding
<1> HIDE DEF pending
<1>5. next \in FundingState /\ next.long = pending.long /\ next.short = pending.short
  BY <1>1, <1>3 DEF FundingState
<1> HIDE DEF next
<1>6. CASE delta = 0
  BY <1>4, <1>6 DEF RegistryTypeOK
<1>7. CASE delta # 0
  BY <1>4, <1>5, <1>7 DEF RegistryTypeOK, pending
<1> QED
  BY <1>6, <1>7

LEMMA OiTypes ==
    ASSUME RegistryTypeOK, NEW manager, NEW i \in PairIndex, NEW isLong \in BOOLEAN,
           NEW delta \in OiDelta,
           AddOi(manager, i, isLong, delta) \/ SubOi(manager, i, isLong, delta)
    PROVE  RegistryTypeOK'
<1> DEFINE grown == SideOf(openInterest[i], isLong) + delta
           left == FloorAtZero(SideOf(openInterest[i], isLong) - delta)
<1>1. delta \in Nat
  BY RegistryAssumption DEF AddOi, SubOi
<1>2. openInterest[i] \in PairOi
  BY DEF RegistryTypeOK
<1>3. grown \in Nat /\ left \in Nat
  BY <1>1, <1>2 DEF SideOf, FloorAtZero, PairOi
<1>4. \E amount \in {grown, left} :
          openInterest' = [openInterest EXCEPT ![i] = WithSide(@, isLong, amount)]
  BY DEF AddOi, SubOi
<1> HIDE DEF grown, left
<1>5. \A amount \in Nat : WithSide(openInterest[i], isLong, amount) \in PairOi
  BY <1>2 DEF WithSide, PairOi
<1>6. openInterest' \in [PairIndex -> PairOi]
  BY <1>3, <1>4, <1>5 DEF RegistryTypeOK
<1> QED
  BY <1>6 DEF RegistryTypeOK, AddOi, SubOi, accumulators

-----------------------------------------------------------------------------
(* The inductive invariant.  A pair that was not added yet has accumulated  *)
(* nothing, though its open interest may have been moved already: without  *)
(* this, adding it could change what funding its sides owe each other.     *)
Listed ==
    \A i \in PairIndex :
        IF HasPair(i) THEN rollover[i].last >= FirstLedger
                      ELSE funding[i].long = 0 /\ funding[i].short = 0

RegistryBooks == RegistryTypeOK /\ Clock /\ PairsUsable /\ Listed

LEMMA InitRegistryBooks == RegistryInit => RegistryBooks
BY InitTypes DEF RegistryInit, RegistryBooks, PairsUsable, Listed, HasPair

(* The steps that move an accumulator. *)
Moved ==
    \/ \E i \in PairIndex, info \in PairConfig : AddPair(i, info)
    \/ \E i \in PairIndex, rate \in LedgerRate :
            SetRolloverRateP(i, rate) \/ SetFundingRateP(i, rate)
    \/ \E manager \in Manager, i \in PairIndex, atLedger \in FirstLedger .. LastLedger :
            CommitAccRollover(manager, i, atLedger) \/ CommitAccFunding(manager, i, atLedger)

(* Every other step leaves the accumulators alone. *)
LEMMA StepMoves ==
    ASSUME [RegistryNext]_<<sequence, registryVars>>
    PROVE  Moved \/ UNCHANGED <<rollover, funding>>
<1>1. CASE RegistryAdminStep
  BY <1>1 DEF RegistryAdminStep, Moved, UpdatePair, DisablePair, SetOnePercentDepth, AddGroup,
     UpdateGroup, SetGroupOpenFeeP, SetGroupCloseFeeP, SetRegistryManager, SetMaxPosUsdc,
     accumulators
<1>2. CASE RegistryManagerStep
  BY <1>2 DEF RegistryManagerStep, Moved, AddOi, SubOi, accumulators
<1>3. CASE UNCHANGED registryVars
  BY <1>3 DEF registryVars, accumulators
<1> QED
  BY <1>1, <1>2, <1>3 DEF RegistryNext

LEMMA TypesStep ==
    ASSUME RegistryTypeOK, Clock, RegistryNext
    PROVE  RegistryTypeOK' /\ Clock'
<1>1. RegistryTypeOK /\ Clock
  OBVIOUS
<1>2. CASE RegistryAdminStep /\ UNCHANGED sequence
  <2>1. ASSUME NEW i \in PairIndex,
               \/ \E info \in PairConfig : AddPair(i, info) \/ UpdatePair(i, info)
               \/ DisablePair(i)
        PROVE  RegistryTypeOK'
    BY <1>1, <2>1, AddPairTypes, UpdatePairTypes
  <2>2. ASSUME NEW g \in GroupIndex, NEW info \in GroupConfig,
               AddGroup(g, info) \/ UpdateGroup(g, info)
        PROVE  RegistryTypeOK'
    BY <1>1, <2>2, GroupConfigTypes
  <2>3. ASSUME NEW g \in GroupIndex, NEW fee \in FeeRate,
               SetGroupOpenFeeP(g, fee) \/ SetGroupCloseFeeP(g, fee)
        PROVE  RegistryTypeOK'
    BY <1>1, <2>3, GroupFeeTypes
  <2>4. ASSUME NEW i \in PairIndex, NEW rate \in LedgerRate,
               SetRolloverRateP(i, rate) \/ SetFundingRateP(i, rate)
        PROVE  RegistryTypeOK'
    BY <1>1, <2>4, RateTypes
  <2>5. ASSUME \/ \E i \in PairIndex, usdcDepth \in Depth : SetOnePercentDepth(i, usdcDepth)
               \/ \E manager \in Manager : SetRegistryManager(manager)
               \/ \E value \in MaxPos : SetMaxPosUsdc(value)
        PROVE  RegistryTypeOK'
    BY <1>1, <2>5, RegistryAssumption
       DEF RegistryTypeOK, SetOnePercentDepth, SetMaxPosUsdc, SetRegistryManager, accumulators
  <2>6. RegistryTypeOK'
    BY <1>2, <2>1, <2>2, <2>3, <2>4, <2>5 DEF RegistryAdminStep
  <2> QED
    BY <1>1, <1>2, <2>6 DEF Clock
<1>3. CASE RegistryManagerStep /\ UNCHANGED sequence
  <2> SUFFICES RegistryTypeOK'
    BY <1>1, <1>3 DEF Clock
  <2>1. PICK manager \in Manager, i \in PairIndex :
            \/ \E atLedger \in FirstLedger .. LastLedger :
                CommitAccRollover(manager, i, atLedger) \/ CommitAccFunding(manager, i, atLedger)
            \/ \E isLong \in BOOLEAN, delta \in OiDelta :
                AddOi(manager, i, isLong, delta) \/ SubOi(manager, i, isLong, delta)
    BY <1>3 DEF RegistryManagerStep
  <2>2. ASSUME NEW atLedger \in FirstLedger .. LastLedger,
               CommitAccRollover(manager, i, atLedger)
        PROVE  RegistryTypeOK'
    BY <1>1, <2>2, RolloverCommitted DEF RegistryTypeOK, CommitAccRollover
  <2>3. ASSUME NEW atLedger \in FirstLedger .. LastLedger,
               CommitAccFunding(manager, i, atLedger)
        PROVE  RegistryTypeOK'
    BY <1>1, <2>3, FundingCommitted DEF RegistryTypeOK, CommitAccFunding
  <2> QED
    BY <1>1, <2>1, <2>2, <2>3, OiTypes
<1>4. CASE AdvanceSequence /\ UNCHANGED registryVars
  BY <1>1, <1>4, LedgerAssumption
     DEF RegistryTypeOK, Clock, AdvanceSequence, registryVars, accumulators
<1> QED
  BY <1>2, <1>3, <1>4 DEF RegistryNext

(* What each call of the admin does to the configuration.                   *)
LEMMA AdminTouches ==
    ASSUME RegistryAdminStep
    PROVE  \/ UNCHANGED <<pair, group>>
           \/ \E i \in PairIndex, info \in PairConfig : AddPair(i, info) \/ UpdatePair(i, info)
           \/ \E i \in PairIndex : DisablePair(i)
           \/ /\ \E g \in GroupIndex :
                    \/ \E info \in GroupConfig : AddGroup(g, info) \/ UpdateGroup(g, info)
                    \/ \E fee \in FeeRate : SetGroupOpenFeeP(g, fee) \/ SetGroupCloseFeeP(g, fee)
              /\ UNCHANGED pair
<1>1. \A i, rate : SetRolloverRateP(i, rate) \/ SetFundingRateP(i, rate)
                     => UNCHANGED <<pair, group>>
  BY DEF SetRolloverRateP, SetFundingRateP
<1>2. \A i, usdcDepth : SetOnePercentDepth(i, usdcDepth) => UNCHANGED <<pair, group>>
  BY DEF SetOnePercentDepth
<1>3. /\ \A manager : SetRegistryManager(manager) => UNCHANGED <<pair, group>>
      /\ \A value : SetMaxPosUsdc(value) => UNCHANGED <<pair, group>>
  BY DEF SetRegistryManager, SetMaxPosUsdc
<1>4. \A g, info : AddGroup(g, info) \/ UpdateGroup(g, info) => UNCHANGED pair
  BY DEF AddGroup, UpdateGroup
<1>5. \A g, fee : SetGroupOpenFeeP(g, fee) \/ SetGroupCloseFeeP(g, fee) => UNCHANGED pair
  BY DEF SetGroupOpenFeeP, SetGroupCloseFeeP
<1> QED
  BY <1>1, <1>2, <1>3, <1>4, <1>5 DEF RegistryAdminStep

(* The manager's calls change none of it.                                   *)
LEMMA ManagerTouchesNothing == RegistryManagerStep => UNCHANGED <<pair, group>>
<1>1. \A m, i, atLedger : CommitAccRollover(m, i, atLedger) => UNCHANGED <<pair, group>>
  BY DEF CommitAccRollover
<1>2. \A m, i, atLedger : CommitAccFunding(m, i, atLedger) => UNCHANGED <<pair, group>>
  BY DEF CommitAccFunding
<1>3. \A m, i, isLong, delta : AddOi(m, i, isLong, delta) => UNCHANGED <<pair, group>>
  BY DEF AddOi
<1>4. \A m, i, isLong, delta : SubOi(m, i, isLong, delta) => UNCHANGED <<pair, group>>
  BY DEF SubOi
<1> QED
  BY <1>1, <1>2, <1>3, <1>4 DEF RegistryManagerStep

(* No order of configuration calls leaves a pair unusable.                  *)
LEMMA UsableStep ==
    ASSUME RegistryTypeOK, Clock, PairsUsable, RegistryNext
    PROVE  PairsUsable'
<1>1. RegistryTypeOK /\ RegistryTypeOK' /\ PairsUsable
  BY TypesStep
<1>2. CASE UNCHANGED <<pair, group>>
  BY <1>1, <1>2 DEF PairsUsable, HasPair, HasGroup
<1>3. ASSUME NEW i \in PairIndex, NEW info \in PairConfig,
             AddPair(i, info) \/ UpdatePair(i, info)
      PROVE  PairsUsable'
  BY <1>1, <1>3 DEF RegistryTypeOK, PairsUsable, AddPair, UpdatePair, HasPair, HasGroup
<1>4. ASSUME NEW i \in PairIndex, DisablePair(i)
      PROVE  PairsUsable'
  <2>1. pair[i] \in PairInfo /\ ValidPairInfo(pair[i]) /\ HasGroup(pair[i].groupIndex)
    BY <1>1, <1>4 DEF RegistryTypeOK, PairsUsable, DisablePair, HasPair
  <2> DEFINE halted == [pair[i] EXCEPT !.disabled = TRUE]
  <2>2. ValidPairInfo(halted) /\ halted.groupIndex = pair[i].groupIndex
    BY <2>1 DEF ValidPairInfo, PairInfo
  <2>3. pair' = [pair EXCEPT ![i] = halted] /\ group' = group
    BY <1>4 DEF DisablePair
  <2> HIDE DEF halted
  <2> QED
    BY <1>1, <2>1, <2>2, <2>3 DEF RegistryTypeOK, PairsUsable, HasPair, HasGroup
<1>5. ASSUME NEW g \in GroupIndex, group'[g] \in Group,
             \A other \in GroupIndex \ {g} : group'[other] = group[other], pair' = pair
      PROVE  PairsUsable'
  <2> SUFFICES ASSUME NEW i \in PairIndex, HasPair(i)
               PROVE  HasGroup(pair[i].groupIndex)'
    BY <1>1, <1>5 DEF PairsUsable, HasPair
  <2>1. pair[i].groupIndex \in GroupIndex /\ HasGroup(pair[i].groupIndex)
    BY <1>1 DEF RegistryTypeOK, PairsUsable, HasPair, PairInfo
  <2> QED
    BY <1>5, <2>1, ConfigAssumption DEF HasGroup
<1>6. ASSUME NEW g \in GroupIndex,
             \/ \E info \in GroupConfig : AddGroup(g, info) \/ UpdateGroup(g, info)
             \/ \E fee \in FeeRate : SetGroupOpenFeeP(g, fee) \/ SetGroupCloseFeeP(g, fee)
      PROVE  PairsUsable'
  <2>1. group'[g] \in Group
    BY <1>1, <1>6, GroupConfigTypes, GroupFeeTypes
  <2>2. pair' = pair /\ \A other \in GroupIndex \ {g} : group'[other] = group[other]
    BY <1>1, <1>6
       DEF RegistryTypeOK, AddGroup, UpdateGroup, SetGroupOpenFeeP, SetGroupCloseFeeP
  <2> QED
    BY <1>5, <2>1, <2>2
<1>7. CASE RegistryAdminStep
  BY <1>2, <1>3, <1>4, <1>6, <1>7, AdminTouches
<1>8. CASE RegistryManagerStep
  BY <1>2, <1>8, ManagerTouchesNothing
<1> QED
  BY <1>2, <1>7, <1>8 DEF RegistryNext, registryVars

(* Pairs are added, by add_pair alone, and never removed. *)
LEMMA PairsStay ==
    ASSUME RegistryTypeOK, RegistryNext, NEW i \in PairIndex
    PROVE  /\ HasPair(i) => HasPair(i)'
           /\ ~HasPair(i) /\ HasPair(i)' => \E info \in PairConfig : AddPair(i, info)
<1>1. RegistryTypeOK
  OBVIOUS
<1>2. CASE UNCHANGED pair
  BY <1>2 DEF HasPair
<1>3. CASE \E j \in PairIndex, info \in PairConfig : AddPair(j, info) \/ UpdatePair(j, info)
  <2>1. PICK j \in PairIndex, info \in PairConfig : AddPair(j, info) \/ UpdatePair(j, info)
    BY <1>3
  <2>2. pair'[j] = info /\ info # None /\ (j # i => pair'[i] = pair[i])
    BY <1>1, <2>1, ConfigAssumption DEF RegistryTypeOK, AddPair, UpdatePair
  <2>3. UpdatePair(j, info) => HasPair(j)
    BY DEF UpdatePair
  <2> QED
    BY <2>1, <2>2, <2>3 DEF HasPair
<1>4. CASE \E j \in PairIndex : DisablePair(j)
  <2>1. PICK j \in PairIndex : DisablePair(j)
    BY <1>4
  <2>2. pair[j] \in PairInfo
    BY <1>1, <2>1 DEF RegistryTypeOK, DisablePair, HasPair
  <2>3. [pair[j] EXCEPT !.disabled = TRUE] \in PairInfo
    BY <2>2 DEF PairInfo
  <2>4. pair'[j] # None /\ HasPair(j) /\ (j # i => pair'[i] = pair[i])
    BY <1>1, <2>1, <2>3, ConfigAssumption DEF RegistryTypeOK, DisablePair
  <2> QED
    BY <2>4 DEF HasPair
<1>5. CASE RegistryAdminStep
  BY <1>2, <1>3, <1>4, <1>5, AdminTouches
<1>6. CASE RegistryManagerStep
  BY <1>2, <1>6, ManagerTouchesNothing
<1>7. CASE AdvanceSequence /\ UNCHANGED registryVars
  BY <1>2, <1>7 DEF registryVars
<1> QED
  BY <1>5, <1>6, <1>7 DEF RegistryNext

(* What the steps that move an accumulator do to one pair's.                *)
Rolled(i) ==
    \/ rollover'[i].acc = rollover[i].acc /\ rollover'[i].last = rollover[i].last
    \/ \E atLedger \in FirstLedger .. LastLedger :
        /\ HasPair(i)
        /\ atLedger >= rollover[i].last
        /\ rollover'[i].last = atLedger /\ rollover'[i].rate = rollover[i].rate
        /\ rollover'[i].acc = PendingAccRollover(rollover[i].acc,
                                  atLedger - rollover[i].last, rollover[i].rate)

Funded(i) ==
    \/ funding'[i].long = funding[i].long /\ funding'[i].short = funding[i].short
    \/ \E delta \in Int, rateP \in Nat :
        LET pending == PendingAccFunding(funding[i].long, funding[i].short,
                                         openInterest[i], delta, rateP)
        IN /\ HasPair(i)
           /\ funding'[i].long = pending.long /\ funding'[i].short = pending.short

LEMMA AccumulatorStep ==
    ASSUME RegistryBooks, [RegistryNext]_<<sequence, registryVars>>, NEW i \in PairIndex
    PROVE  /\ Rolled(i) \/ (~HasPair(i) /\ rollover'[i].acc = 0 /\ rollover'[i].last = sequence)
           /\ Funded(i)
<1>1. RegistryTypeOK /\ (~HasPair(i) => funding[i].long = 0 /\ funding[i].short = 0)
  BY DEF RegistryBooks, Listed
<1>2. CASE UNCHANGED <<rollover, funding>>
  BY <1>2 DEF Rolled, Funded
<1>3. ASSUME NEW j \in PairIndex, NEW info \in PairConfig, AddPair(j, info)
      PROVE  /\ \/ Rolled(i)
                \/ ~HasPair(i) /\ rollover'[i].acc = 0 /\ rollover'[i].last = sequence
             /\ Funded(i)
  BY <1>1, <1>3 DEF AddPair, Rolled, Funded, RegistryTypeOK
<1>4. ASSUME NEW j \in PairIndex, NEW rate \in LedgerRate,
             SetRolloverRateP(j, rate) \/ SetFundingRateP(j, rate)
      PROVE  Rolled(i) /\ Funded(i)
  <2> DEFINE rolled == [rollover[j] EXCEPT !.rate = rate]
             funded == [funding[j] EXCEPT !.rate = rate]
  <2>1. /\ rolled.acc = rollover[j].acc /\ rolled.last = rollover[j].last
        /\ funded.long = funding[j].long /\ funded.short = funding[j].short
    BY <1>1 DEF RegistryTypeOK, RolloverState, FundingState
  <2>2. \/ rollover' = [rollover EXCEPT ![j] = rolled] /\ funding' = funding
        \/ funding' = [funding EXCEPT ![j] = funded] /\ rollover' = rollover
    BY <1>4 DEF SetRolloverRateP, SetFundingRateP
  <2> HIDE DEF rolled, funded
  <2>3. /\ rollover'[i].acc = rollover[i].acc /\ rollover'[i].last = rollover[i].last
        /\ funding'[i].long = funding[i].long /\ funding'[i].short = funding[i].short
    <3>1. CASE i = j
      BY <1>1, <2>1, <2>2, <3>1 DEF RegistryTypeOK
    <3>2. CASE i # j
      BY <1>1, <2>2, <3>2 DEF RegistryTypeOK
    <3> QED
      BY <3>1, <3>2
  <2> QED
    BY <2>3 DEF Rolled, Funded
<1>5. ASSUME NEW manager \in Manager, NEW j \in PairIndex,
             NEW atLedger \in FirstLedger .. LastLedger,
             CommitAccRollover(manager, j, atLedger)
      PROVE  Rolled(i) /\ Funded(i)
  <2>1. funding' = funding /\ HasPair(j)
    BY <1>5 DEF CommitAccRollover
  <2>2. CASE i = j
    BY <1>1, <1>5, <2>1, <2>2, RolloverCommitted DEF Rolled, Funded
  <2>3. CASE i # j
    BY <1>1, <1>5, <2>1, <2>3, RolloverCommitted DEF Rolled, Funded
  <2> QED
    BY <2>2, <2>3
<1>6. ASSUME NEW manager \in Manager, NEW j \in PairIndex,
             NEW atLedger \in FirstLedger .. LastLedger,
             CommitAccFunding(manager, j, atLedger)
      PROVE  Rolled(i) /\ Funded(i)
  <2>1. rollover' = rollover /\ HasPair(j)
    BY <1>6 DEF CommitAccFunding
  <2>2. CASE i # j
    BY <1>1, <1>6, <2>1, <2>2, FundingCommitted DEF Rolled, Funded
  <2>3. CASE i = j
    <3>1. atLedger - funding[i].last \in Int /\ funding[i].rate \in Nat
      BY <1>1, LedgerAssumption DEF RegistryTypeOK, FundingState
    <3> QED
      BY <1>1, <1>6, <2>1, <2>3, <3>1, FundingCommitted DEF Rolled, Funded
  <2> QED
    BY <2>2, <2>3
<1> QED
  BY <1>2, <1>3, <1>4, <1>5, <1>6, StepMoves DEF Moved

LEMMA ListedStep ==
    ASSUME RegistryBooks, RegistryNext
    PROVE  Listed'
<1> SUFFICES ASSUME NEW i \in PairIndex
             PROVE  IF HasPair(i)' THEN rollover'[i].last >= FirstLedger
                    ELSE funding'[i].long = 0 /\ funding'[i].short = 0
  BY DEF Listed, HasPair
<1>1. /\ RegistryTypeOK /\ Clock
      /\ IF HasPair(i) THEN rollover[i].last >= FirstLedger
                       ELSE funding[i].long = 0 /\ funding[i].short = 0
  BY DEF RegistryBooks, Listed
<1>2. /\ Rolled(i) \/ (~HasPair(i) /\ rollover'[i].acc = 0 /\ rollover'[i].last = sequence)
      /\ Funded(i)
  BY AccumulatorStep
<1>3. /\ HasPair(i) => HasPair(i)'
      /\ ~HasPair(i) /\ HasPair(i)' => rollover'[i].last = sequence
  BY <1>1, PairsStay DEF AddPair, RegistryTypeOK
<1> QED
  BY <1>1, <1>2, <1>3, LedgerAssumption DEF Clock, Rolled, Funded

LEMMA RegistryBooksInductive ==
    RegistryBooks /\ [RegistryNext]_<<sequence, registryVars>> => RegistryBooks'
<1> SUFFICES ASSUME RegistryBooks, [RegistryNext]_<<sequence, registryVars>>
             PROVE  RegistryBooks'
  OBVIOUS
<1>1. CASE RegistryNext
  BY <1>1, TypesStep, UsableStep, ListedStep DEF RegistryBooks
<1>2. CASE UNCHANGED <<sequence, registryVars>>
  BY <1>2 DEF RegistryBooks, RegistryTypeOK, Clock, PairsUsable, Listed, HasPair, HasGroup,
     registryVars, accumulators
<1> QED
  BY <1>1, <1>2

LEMMA RegistryBooksKept == RegistrySpec => []RegistryBooks
BY InitRegistryBooks, RegistryBooksInductive, PTL DEF RegistrySpec

(* The registry's storage stays well typed: no rate, fee, limit or open     *)
(* interest goes negative, whatever the admin passes.                      *)
THEOREM RegistryTypes == RegistrySpec => []RegistryTypeOK
BY RegistryBooksKept, PTL DEF RegistryBooks

(* Every pair ever added keeps parameters the formulas accept and a group.  *)
THEOREM PairsUsableTheorem == RegistrySpec => []PairsUsable
BY RegistryBooksKept, PTL DEF RegistryBooks

(* The rollover accumulator of a listed pair only grows, and its ledger     *)
(* only advances, through every commit, rate change and re-configuration.  *)
THEOREM RolloverNeverRefundsTheorem == RegistrySpec => RolloverNeverRefunds
<1> DEFINE Grows ==
        \A i \in PairIndex : HasPair(i) =>
            rollover'[i].acc >= rollover[i].acc /\ rollover'[i].last >= rollover[i].last
<1>1. RegistryBooks /\ [RegistryNext]_<<sequence, registryVars>> => Grows
  <2> SUFFICES ASSUME RegistryBooks, [RegistryNext]_<<sequence, registryVars>>,
                      NEW i \in PairIndex, HasPair(i)
               PROVE  rollover'[i].acc >= rollover[i].acc /\ rollover'[i].last >= rollover[i].last
    OBVIOUS
  <2>1. /\ rollover[i].acc \in Nat /\ rollover[i].last \in Nat /\ rollover[i].rate \in Nat
    BY DEF RegistryBooks, RegistryTypeOK, RolloverState
  <2>2. Rolled(i)
    BY AccumulatorStep
  <2>3. CASE rollover'[i].acc = rollover[i].acc /\ rollover'[i].last = rollover[i].last
    BY <2>1, <2>3
  <2>4. ASSUME NEW atLedger \in FirstLedger .. LastLedger,
               atLedger >= rollover[i].last, rollover'[i].last = atLedger,
               rollover'[i].acc = PendingAccRollover(rollover[i].acc,
                                      atLedger - rollover[i].last, rollover[i].rate)
        PROVE  rollover'[i].acc >= rollover[i].acc /\ rollover'[i].last >= rollover[i].last
    <3>1. atLedger - rollover[i].last \in Nat
      BY <2>1, <2>4, LedgerAssumption
    <3>2. PendingAccRollover(rollover[i].acc, atLedger - rollover[i].last, rollover[i].rate)
              >= rollover[i].acc
      BY <2>1, <3>1, RolloverGrows
    <3> QED
      BY <2>4, <3>2
  <2> QED
    BY <2>2, <2>3, <2>4 DEF Rolled
<1>2. RegistrySpec => [][Grows]_rollover
  <2>1. RegistryBooks /\ [RegistryNext]_<<sequence, registryVars>> => [Grows]_rollover
    BY <1>1
  <2> QED
    BY <2>1, RegistryBooksKept, PTL DEF RegistrySpec
<1> QED
  BY <1>2 DEF RolloverNeverRefunds

(* Both sides of a pair being open, what a division loses is bounded by the *)
(* open interest it divides by.                                            *)
LEMMA DeltasBalance ==
    ASSUME NEW long \in Nat, NEW short \in Nat, NEW owed \in Int, long > 0, short > 0
    PROVE  /\ -long < long * (owed \div long) + short * (-(owed \div short))
           /\ long * (owed \div long) + short * (-(owed \div short)) < short
<1> DEFINE perLong == owed \div long
           perShort == owed \div short
<1>1. perLong \in Int /\ long * perLong <= owed /\ owed < long * perLong + long
  BY FloorDivision
<1>2. perShort \in Int /\ short * perShort <= owed /\ owed < short * perShort + short
  BY FloorDivision
<1> HIDE DEF perLong, perShort
<1>3. short * (-perShort) = -(short * perShort)
  BY <1>2
<1>4. long * perLong \in Int /\ short * perShort \in Int
  BY <1>1, <1>2
<1>5. /\ -long < long * perLong + short * (-perShort)
      /\ long * perLong + short * (-perShort) < short
  BY <1>1, <1>2, <1>3, <1>4
<1> QED
  BY <1>5 DEF perLong, perShort

(* Funding moves between the sides of a pair; rounding makes and loses less *)
(* than one unit of the accumulator on the open interest of a side.        *)
THEOREM FundingBalancesTheorem == RegistrySpec => FundingBalances
<1> DEFINE Balanced(i) ==
        LET long == openInterest[i].long
            short == openInterest[i].short
            paidByLongs == long * (funding'[i].long - funding[i].long)
            paidByShorts == short * (funding'[i].short - funding[i].short)
        IN long > 0 /\ short > 0 =>
            /\ -long < paidByLongs + paidByShorts
            /\ paidByLongs + paidByShorts < short
<1>1. RegistryBooks /\ [RegistryNext]_<<sequence, registryVars>>
        => \A i \in PairIndex : Balanced(i)
  <2> SUFFICES ASSUME RegistryBooks, [RegistryNext]_<<sequence, registryVars>>,
                      NEW i \in PairIndex,
                      openInterest[i].long > 0, openInterest[i].short > 0
               PROVE  Balanced(i)
    OBVIOUS
  <2> DEFINE long == openInterest[i].long
             short == openInterest[i].short
  <2>1. /\ funding[i].long \in Int /\ funding[i].short \in Int
        /\ openInterest[i] \in PairOi /\ long \in Nat /\ short \in Nat
        /\ long > 0 /\ short > 0
    BY DEF RegistryBooks, RegistryTypeOK, FundingState, PairOi
  <2>2. CASE funding'[i].long = funding[i].long /\ funding'[i].short = funding[i].short
    <3>1. funding'[i].long - funding[i].long = 0 /\ funding'[i].short - funding[i].short = 0
      BY <2>1, <2>2
    <3> QED
      BY <2>1, <3>1
  <2>3. ASSUME NEW delta \in Int, NEW rateP \in Nat,
               LET pending == PendingAccFunding(funding[i].long, funding[i].short,
                                                openInterest[i], delta, rateP)
               IN funding'[i].long = pending.long /\ funding'[i].short = pending.short
        PROVE  Balanced(i)
    <3> DEFINE paid == PaidByLongs(openInterest[i], delta, rateP)
               owed == paid * USDC_SCALE
    <3>1. owed \in Int
      <4>1. rateP \in Int
        OBVIOUS
      <4>2. paid \in Int
        BY <2>1, <4>1, FundingTypes
      <4> HIDE DEF paid
      <4> QED
        BY <4>2, DenominatorPositive
    <3>2. /\ funding'[i].long = funding[i].long + owed \div long
          /\ funding'[i].short = funding[i].short - owed \div short
      BY <2>3 DEF PendingAccFunding, MulDivFloor
    <3> HIDE DEF owed
    <3>3. owed \div long \in Int /\ owed \div short \in Int
      <4> HIDE DEF long, short
      <4> QED
        BY <2>1, <3>1, FloorDivision
    <3>4. /\ funding'[i].long - funding[i].long = owed \div long
          /\ funding'[i].short - funding[i].short = -(owed \div short)
      BY <2>1, <3>2, <3>3
    <3> QED
      BY <2>1, <3>1, <3>4, DeltasBalance
  <2> QED
    BY <2>2, <2>3, AccumulatorStep DEF Funded
<1>2. RegistrySpec => [][\A i \in PairIndex : Balanced(i)]_funding
  <2>1. RegistryBooks /\ [RegistryNext]_<<sequence, registryVars>>
          => [\A i \in PairIndex : Balanced(i)]_funding
    BY <1>1
  <2> QED
    BY <2>1, RegistryBooksKept, PTL DEF RegistrySpec
<1> QED
  BY <1>2 DEF FundingBalances

(* Billing an interval of ledgers in two parts loses at most one unit.      *)
LEMMA RolloverSplit ==
    ASSUME NEW acc \in Nat, NEW first \in Nat, NEW rest \in Nat, NEW rateP \in Nat
    PROVE  LET whole == PendingAccRollover(acc, first + rest, rateP)
               parts == PendingAccRollover(PendingAccRollover(acc, first, rateP), rest, rateP)
           IN parts <= whole /\ whole <= parts + 1
<1> DEFINE perLedger == rateP * USDC_SCALE
<1>1. perLedger \in Nat
  BY DenominatorPositive, TimesNat
<1> HIDE DEF perLedger
<1>2. /\ first * perLedger \in Int /\ rest * perLedger \in Int
      /\ (first + rest) * perLedger = first * perLedger + rest * perLedger
  BY <1>1
<1> DEFINE a == first * perLedger
           b == rest * perLedger
<1>3. /\ a \in Int /\ b \in Int
      /\ PendingAccRollover(acc, first + rest, rateP) = acc + (a + b) \div Denominator
      /\ PendingAccRollover(PendingAccRollover(acc, first, rateP), rest, rateP)
            = (acc + a \div Denominator) + b \div Denominator
  BY <1>2 DEF PendingAccRollover, MulDivFloor, Denominator, perLedger
<1> HIDE DEF a, b
<1>4. /\ a \div Denominator \in Int /\ b \div Denominator \in Int
      /\ (a + b) \div Denominator \in Int
      /\ a \div Denominator + b \div Denominator <= (a + b) \div Denominator
      /\ (a + b) \div Denominator <= a \div Denominator + b \div Denominator + 1
  BY ONLY <1>3, DenominatorPositive, DivSplit, FloorDivision
<1> QED
  BY <1>3, <1>4

(* When a commit is made does not change what the view projects beyond it,  *)
(* but for one unit that rounding may lose and never makes.                *)
THEOREM CommitKeepsProjectionTheorem == RegistrySpec => CommitKeepsProjection
<1> DEFINE Keeps(i, at) ==
        /\ PendingAccRolloverView(i, at)' <= PendingAccRolloverView(i, at)
        /\ PendingAccRolloverView(i, at) <= PendingAccRolloverView(i, at)' + 1
<1>1. ASSUME RegistryBooks, [RegistryNext]_<<sequence, registryVars>>,
             NEW i \in PairIndex, HasPair(i), rollover'[i].last > rollover[i].last,
             NEW at \in rollover'[i].last .. LastLedger
      PROVE  Keeps(i, at)
  <2>1. PICK atLedger \in FirstLedger .. LastLedger :
            /\ rollover'[i].last = atLedger /\ rollover'[i].rate = rollover[i].rate
            /\ rollover'[i].acc = PendingAccRollover(rollover[i].acc,
                                      atLedger - rollover[i].last, rollover[i].rate)
    <3>1. rollover[i].last \in Nat
      BY <1>1 DEF RegistryBooks, RegistryTypeOK, RolloverState
    <3> QED
      BY <1>1, <3>1, AccumulatorStep DEF Rolled
  <2> DEFINE acc == rollover[i].acc
             last == rollover[i].last
             rateP == rollover[i].rate
             first == atLedger - last
             rest == at - atLedger
  <2>2. acc \in Nat /\ last \in Nat /\ rateP \in Nat
    BY <1>1 DEF RegistryBooks, RegistryTypeOK, RolloverState
  <2>3. atLedger \in Nat /\ at \in Int /\ at >= atLedger /\ atLedger > last
    BY <1>1, <2>1, LedgerAssumption
  <2>4. first \in Nat /\ rest \in Nat /\ first + rest = at - last /\ ~(at <= last)
    BY <2>2, <2>3
  <2>5. PendingAccRollover(acc, first, rateP) \in Nat
    BY <2>2, <2>4, RolloverGrows
  <2>6. PendingAccRolloverView(i, at) = PendingAccRollover(acc, first + rest, rateP)
    BY <2>4 DEF PendingAccRolloverView
  <2>7. PendingAccRollover(PendingAccRollover(acc, first, rateP), 0, rateP)
          = PendingAccRollover(acc, first, rateP)
    <3>1. rateP * USDC_SCALE \in Nat
      BY <2>2, DenominatorPositive, TimesNat
    <3>2. (0 * (rateP * USDC_SCALE)) \div Denominator = 0
      BY ONLY <3>1, DenominatorPositive
    <3> QED
      BY <2>5, <3>2 DEF PendingAccRollover, MulDivFloor, Denominator
  <2>8. PendingAccRolloverView(i, at)'
          = PendingAccRollover(PendingAccRollover(acc, first, rateP), rest, rateP)
    BY <2>1, <2>3, <2>4, <2>7 DEF PendingAccRolloverView
  <2> HIDE DEF acc, rateP, first, rest
  <2> QED
    BY <2>2, <2>4, <2>6, <2>8, RolloverSplit
<1>2. RegistrySpec => [][\A i \in PairIndex : HasPair(i) /\ rollover'[i].last > rollover[i].last =>
                          \A at \in rollover'[i].last .. LastLedger : Keeps(i, at)]_rollover
  <2>1. RegistryBooks /\ [RegistryNext]_<<sequence, registryVars>>
          => [\A i \in PairIndex : HasPair(i) /\ rollover'[i].last > rollover[i].last =>
                \A at \in rollover'[i].last .. LastLedger : Keeps(i, at)]_rollover
    BY <1>1
  <2> QED
    BY <2>1, RegistryBooksKept, PTL DEF RegistrySpec
<1> QED
  BY <1>2 DEF CommitKeepsProjection

-----------------------------------------------------------------------------
(* The rate a pair accumulates at is one the admin set, or none.            *)
Rated == \A i \in PairIndex : rollover[i].rate \in LedgerRate \cup {0}

LEMMA RatedStep ==
    ASSUME RegistryBooks, Rated, [RegistryNext]_<<sequence, registryVars>>
    PROVE  Rated'
<1> SUFFICES ASSUME NEW i \in PairIndex
             PROVE  rollover'[i].rate \in LedgerRate \cup {0}
  BY DEF Rated
<1>1. RegistryTypeOK /\ rollover[i].rate \in LedgerRate \cup {0}
  BY DEF RegistryBooks, Rated
<1>2. CASE UNCHANGED rollover
  BY <1>1, <1>2
<1>3. ASSUME NEW j \in PairIndex, NEW info \in PairConfig, AddPair(j, info)
      PROVE  rollover'[i].rate \in LedgerRate \cup {0}
  BY <1>1, <1>3 DEF AddPair, RegistryTypeOK
<1>4. ASSUME NEW j \in PairIndex, NEW rate \in LedgerRate, SetRolloverRateP(j, rate)
      PROVE  rollover'[i].rate \in LedgerRate \cup {0}
  <2> DEFINE rolled == [rollover[j] EXCEPT !.rate = rate]
  <2>1. rolled.rate = rate
    BY <1>1 DEF RegistryTypeOK, RolloverState
  <2>2. rollover' = [rollover EXCEPT ![j] = rolled]
    BY <1>4 DEF SetRolloverRateP
  <2> HIDE DEF rolled
  <2> QED
    BY <1>1, <2>1, <2>2 DEF RegistryTypeOK
<1>5. ASSUME NEW manager \in Manager, NEW j \in PairIndex,
             NEW atLedger \in FirstLedger .. LastLedger,
             CommitAccRollover(manager, j, atLedger)
      PROVE  rollover'[i].rate \in LedgerRate \cup {0}
  BY <1>1, <1>5, RolloverCommitted
<1> QED
  BY <1>2, <1>3, <1>4, <1>5, StepMoves
     DEF Moved, SetFundingRateP, CommitAccFunding

(* Ledgers billed at one rate, then more of them at another, cost no more   *)
(* than all of them at the higher of the two.                              *)
LEMMA BilledAtHigher ==
    ASSUME NEW acc \in Nat, NEW before \in Nat, NEW delta \in Nat,
           NEW high \in Nat, NEW rateP \in Nat, rateP <= high,
           acc * P_SCALE * 100 <= before * high * USDC_SCALE
    PROVE  PendingAccRollover(acc, delta, rateP) * P_SCALE * 100
             <= (before + delta) * high * USDC_SCALE
<1> DEFINE grown == (delta * (rateP * USDC_SCALE)) \div Denominator
           owed == delta * (rateP * USDC_SCALE)
<1>1. rateP * USDC_SCALE \in Nat /\ owed \in Nat
  BY DenominatorPositive, TimesNat
<1>2. grown \in Int /\ Denominator * grown <= owed
  <2> HIDE DEF owed
  <2>1. owed \div Denominator \in Int /\ Denominator * (owed \div Denominator) <= owed
    BY ONLY <1>1, DenominatorPositive, FloorDivision
  <2> QED
    BY <2>1 DEF owed
<1>3. owed <= delta * (high * USDC_SCALE)
  <2>1. \E more \in Nat : high = rateP + more
    <3>1. high - rateP \in Nat /\ high = rateP + (high - rateP)
      OBVIOUS
    <3> QED
      BY <3>1
  <2>2. PICK more \in Nat : high = rateP + more
    BY <2>1
  <2>3. more * USDC_SCALE \in Nat /\ delta * (more * USDC_SCALE) \in Nat
    BY DenominatorPositive, TimesNat
  <2>4. delta * (high * USDC_SCALE)
          = delta * (rateP * USDC_SCALE) + delta * (more * USDC_SCALE)
    BY <2>2, DenominatorPositive
  <2> QED
    BY <1>1, <2>3, <2>4
<1>4. (before + delta) * high * USDC_SCALE
        = before * high * USDC_SCALE + delta * (high * USDC_SCALE)
  BY DenominatorPositive
<1>5. (acc + grown) * P_SCALE * 100 = acc * P_SCALE * 100 + Denominator * grown
  <2> HIDE DEF grown
  <2> QED
    BY <1>2, ScaleAssumption DEF Denominator
<1>6. PendingAccRollover(acc, delta, rateP) = acc + grown
  BY DEF PendingAccRollover, MulDivFloor, Denominator
<1> HIDE DEF grown, owed
<1>7. /\ acc * P_SCALE * 100 \in Int /\ Denominator * grown \in Int
      /\ before * high * USDC_SCALE \in Int /\ delta * (high * USDC_SCALE) \in Int
  BY <1>2, DenominatorPositive, ScaleAssumption
<1> QED
  BY <1>1, <1>2, <1>3, <1>4, <1>5, <1>6, <1>7

(* Billing more ledgers at the same rate needs no higher a bound: the       *)
(* witness of the bill so far, raised to a rate at least as high.          *)
LEMMA BillRaised ==
    ASSUME NEW acc \in Nat, NEW before \in Nat, NEW low \in Int, NEW high \in Nat,
           low <= high, acc * P_SCALE * 100 <= before * low * USDC_SCALE
    PROVE  acc * P_SCALE * 100 <= before * high * USDC_SCALE
<1>1. PICK more \in Nat : high = low + more
  <2>1. high - low \in Nat /\ high = low + (high - low)
    OBVIOUS
  <2> QED
    BY <2>1
<1>2. before * more \in Nat /\ (before * more) * USDC_SCALE \in Nat
  BY DenominatorPositive, TimesNat
<1>3. before * high * USDC_SCALE = before * low * USDC_SCALE + (before * more) * USDC_SCALE
  BY <1>1, DenominatorPositive
<1>4. before * low * USDC_SCALE \in Int /\ acc * P_SCALE * 100 \in Int
  BY DenominatorPositive, ScaleAssumption
<1> QED
  BY <1>2, <1>3, <1>4

LEMMA BilledStep ==
    ASSUME RegistryBooks, Rated, NoLedgerBilledTwice,
           [RegistryNext]_<<sequence, registryVars>>
    PROVE  NoLedgerBilledTwice'
<1> SUFFICES ASSUME NEW i \in PairIndex, HasPair(i)'
             PROVE  \E rate \in LedgerRate \cup {0} :
                        rollover'[i].acc * P_SCALE * 100
                          <= (rollover'[i].last - FirstLedger) * rate * USDC_SCALE
  BY DEF NoLedgerBilledTwice
<1>1. /\ RegistryTypeOK /\ rollover[i].rate \in LedgerRate \cup {0}
      /\ rollover[i].acc \in Nat /\ rollover[i].last \in Nat /\ rollover[i].rate \in Nat
  BY DEF RegistryBooks, RegistryTypeOK, RolloverState, Rated
<1>2. CASE ~HasPair(i) /\ rollover'[i].acc = 0 /\ rollover'[i].last = sequence
  <2>1. sequence - FirstLedger \in Int
    BY LedgerAssumption DEF RegistryBooks, Clock
  <2>2. 0 * P_SCALE * 100 <= (sequence - FirstLedger) * 0 * USDC_SCALE
    BY <2>1, ScaleAssumption
  <2> QED
    BY <1>2, <2>2
<1>3. ASSUME HasPair(i), Rolled(i)
      PROVE  \E rate \in LedgerRate \cup {0} :
                 rollover'[i].acc * P_SCALE * 100
                   <= (rollover'[i].last - FirstLedger) * rate * USDC_SCALE
  <2> DEFINE acc == rollover[i].acc
             last == rollover[i].last
             rateP == rollover[i].rate
             before == last - FirstLedger
  <2>1. PICK low \in LedgerRate \cup {0} :
            acc * P_SCALE * 100 <= before * low * USDC_SCALE
    BY <1>3 DEF NoLedgerBilledTwice
  <2>2. low \in Int /\ before \in Nat /\ acc \in Nat /\ rateP \in Nat
    BY <1>1, <1>3, LedgerAssumption, RegistryAssumption DEF RegistryBooks, Listed
  <2>3. PICK high \in LedgerRate \cup {0} : low <= high /\ rateP <= high /\ high \in Nat
    <3>1. CASE low <= rateP
      BY <1>1, <3>1
    <3>2. CASE rateP <= low
      BY <1>1, <2>2, <3>2
    <3> QED
      BY <1>1, <2>2, <3>1, <3>2
  <2>4. acc * P_SCALE * 100 <= before * high * USDC_SCALE
    BY <1>1, <2>1, <2>2, <2>3, BillRaised
  <2>5. CASE rollover'[i].acc = acc /\ rollover'[i].last = last
    BY <2>3, <2>4, <2>5
  <2>6. ASSUME NEW atLedger \in FirstLedger .. LastLedger, atLedger >= last,
               rollover'[i].last = atLedger,
               rollover'[i].acc = PendingAccRollover(acc, atLedger - last, rateP)
        PROVE  rollover'[i].acc * P_SCALE * 100
                 <= (rollover'[i].last - FirstLedger) * high * USDC_SCALE
    <3> DEFINE delta == atLedger - last
    <3>1. delta \in Nat /\ before + delta = atLedger - FirstLedger
      BY <1>1, <2>6, LedgerAssumption
    <3>2. PendingAccRollover(acc, delta, rateP) * P_SCALE * 100
            <= (before + delta) * high * USDC_SCALE
      <4> HIDE DEF delta, before, acc, rateP
      <4> QED
        BY ONLY <2>2, <2>3, <2>4, <3>1, BilledAtHigher, ZenonT(30)
    <3> QED
      BY <2>6, <3>1, <3>2
  <2> QED
    BY <1>3, <2>3, <2>5, <2>6 DEF Rolled
<1>4. ~HasPair(i) => rollover'[i].acc = 0 /\ rollover'[i].last = sequence
  <2>1. ASSUME ~HasPair(i), RegistryNext
        PROVE  rollover'[i].acc = 0 /\ rollover'[i].last = sequence
    BY <1>1, <2>1, PairsStay DEF AddPair, RegistryTypeOK
  <2>2. UNCHANGED <<sequence, registryVars>> => (HasPair(i)' <=> HasPair(i))
    BY DEF registryVars, HasPair
  <2> QED
    BY <2>1, <2>2
<1> QED
  BY <1>2, <1>3, <1>4, AccumulatorStep

(* However often the rollover is committed, at whatever ledgers and rates,  *)
(* a pair is billed no ledger twice.                                       *)
THEOREM NoLedgerBilledTwiceTheorem == RegistrySpec => []NoLedgerBilledTwice
<1>1. RegistryInit => Rated /\ NoLedgerBilledTwice
  BY DEF RegistryInit, Rated, NoLedgerBilledTwice, HasPair
<1>2. RegistryBooks /\ Rated /\ NoLedgerBilledTwice
        /\ [RegistryNext]_<<sequence, registryVars>> => (Rated /\ NoLedgerBilledTwice)'
  BY RatedStep, BilledStep
<1> QED
  BY <1>1, <1>2, RegistryBooksKept, PTL DEF RegistrySpec

-----------------------------------------------------------------------------
(* How the views move from one ledger to the next. *)

(* The rollover projected to a later ledger is no less.                     *)
LEMMA RolloverViewGrows ==
    ASSUME RegistryTypeOK, NEW i \in PairIndex, NEW at \in Nat
    PROVE  /\ PendingAccRolloverView(i, at) \in Nat /\ PendingAccRolloverView(i, at + 1) \in Nat
           /\ PendingAccRolloverView(i, at) <= PendingAccRolloverView(i, at + 1)
<1> DEFINE acc == rollover[i].acc
           last == rollover[i].last
           rateP == rollover[i].rate
<1>1. acc \in Nat /\ last \in Nat /\ rateP \in Nat
  BY DEF RegistryTypeOK, RolloverState
<1>2. CASE at + 1 <= last
  BY <1>1, <1>2 DEF PendingAccRolloverView
<1>3. CASE at = last
  <2>1. /\ PendingAccRolloverView(i, at) = acc
        /\ PendingAccRolloverView(i, at + 1) = PendingAccRollover(acc, at + 1 - last, rateP)
    BY <1>1, <1>3 DEF PendingAccRolloverView
  <2> HIDE DEF acc, last, rateP
  <2> QED
    BY <1>1, <1>3, <2>1, RolloverGrows
<1>4. CASE at > last
  <2> DEFINE before == (at - last) * (rateP * USDC_SCALE)
             after == (at + 1 - last) * (rateP * USDC_SCALE)
  <2>1. /\ PendingAccRolloverView(i, at) = acc + before \div Denominator
        /\ PendingAccRolloverView(i, at + 1) = acc + after \div Denominator
    BY <1>1, <1>4 DEF PendingAccRolloverView, PendingAccRollover, MulDivFloor, Denominator
  <2> HIDE DEF acc, last, rateP
  <2>2. rateP * USDC_SCALE \in Nat /\ at - last \in Nat /\ at + 1 - last \in Nat
    BY <1>1, <1>4, DenominatorPositive, TimesNat
  <2>3. before \in Nat /\ after \in Nat /\ before <= after
    BY <1>1, <2>2, TimesOrder, TimesNat
  <2> HIDE DEF before, after
  <2>4. /\ before \div Denominator \in Nat /\ after \div Denominator \in Nat
        /\ before \div Denominator <= after \div Denominator
    BY <2>3, DenominatorPositive, DivMonotone, DivNat
  <2> QED
    BY <1>1, <2>1, <2>4
<1> QED
  BY <1>1, <1>2, <1>3, <1>4

(* What a unit of open interest is charged when its side owes x hundredths  *)
(* of a percent of the imbalance: a larger debt charges no less.           *)
Charge(x, oi) == ((x \div Denominator) * USDC_SCALE) \div oi

LEMMA ChargeMonotone ==
    ASSUME NEW x \in Int, NEW y \in Int, x <= y, NEW oi \in Nat, oi > 0
    PROVE  /\ Charge(x, oi) \in Int /\ Charge(y, oi) \in Int /\ Charge(x, oi) <= Charge(y, oi)
           /\ Charge(0, oi) = 0
<1> DEFINE p == x \div Denominator
           q == y \div Denominator
<1>1. p \in Int /\ q \in Int /\ p <= q
  BY DenominatorPositive, DivMonotone, FloorDivision
<1> HIDE DEF p, q
<1>2. p * USDC_SCALE \in Int /\ q * USDC_SCALE \in Int /\ p * USDC_SCALE <= q * USDC_SCALE
  BY <1>1, DenominatorPositive, TimesOrder
<1>3. /\ (p * USDC_SCALE) \div oi \in Int /\ (q * USDC_SCALE) \div oi \in Int
      /\ (p * USDC_SCALE) \div oi <= (q * USDC_SCALE) \div oi
  BY <1>2, DivMonotone, FloorDivision
<1>4. Charge(0, oi) = 0
  <2>1. 0 \div Denominator = 0 /\ 0 * USDC_SCALE = 0 /\ 0 \div oi = 0
    BY DenominatorPositive
  <2> QED
    BY <2>1 DEF Charge
<1> QED
  BY <1>3, <1>4 DEF Charge, p, q

(* The funding charged to the side with no less open interest grows; the    *)
(* debt of the longs may be negative, and both of its divisions round down. *)
LEMMA FundingViewGrows ==
    ASSUME RegistryTypeOK, NEW i \in PairIndex, NEW at \in Nat, NEW isLong \in BOOLEAN,
           SideOf(openInterest[i], isLong) >= SideOf(openInterest[i], ~isLong)
    PROVE  /\ SideOf(PendingAccFundingView(i, at), isLong) \in Int
           /\ SideOf(PendingAccFundingView(i, at + 1), isLong) \in Int
           /\ SideOf(PendingAccFundingView(i, at), isLong)
                <= SideOf(PendingAccFundingView(i, at + 1), isLong)
<1> DEFINE long == openInterest[i].long
           short == openInterest[i].short
           accLong == funding[i].long
           accShort == funding[i].short
           rateP == funding[i].rate
           last == funding[i].last
           Debt(d) == ((long - short) * d) * rateP
<1>1. /\ long \in Nat /\ short \in Nat /\ accLong \in Int /\ accShort \in Int
      /\ rateP \in Nat /\ last \in Nat
  BY DEF RegistryTypeOK, FundingState, PairOi
<1>2. IF isLong THEN long >= short ELSE short >= long
  BY DEF SideOf
<1>3. ASSUME NEW ledger \in Nat
      PROVE  SideOf(PendingAccFundingView(i, ledger), isLong) =
               IF ledger =< last THEN IF isLong THEN accLong ELSE accShort
               ELSE IF isLong
                    THEN IF long > 0 THEN accLong + Charge(Debt(ledger - last), long)
                         ELSE accLong
                    ELSE IF short > 0 THEN accShort - Charge(Debt(ledger - last), short)
                         ELSE accShort
  BY DEF PendingAccFundingView, PendingAccFunding, PaidByLongs, MulDivFloor, SideOf, Charge,
         Denominator
<1>4. ASSUME NEW d \in Nat
      PROVE  /\ Debt(d) \in Int /\ Debt(d + 1) \in Int
             /\ isLong => 0 <= Debt(d) /\ Debt(d) <= Debt(d + 1)
             /\ ~isLong => Debt(d) <= 0 /\ Debt(d + 1) <= Debt(d)
  <2> HIDE DEF long, short, rateP
  <2>1. CASE isLong
    <3> DEFINE surplus == long - short
    <3>1. surplus \in Nat
      BY <1>1, <1>2, <2>1
    <3> HIDE DEF surplus
    <3>2. /\ surplus * d \in Nat /\ surplus * (d + 1) \in Nat
          /\ surplus * (d + 1) = surplus * d + surplus
      BY <3>1, TimesNat
    <3>3. /\ (surplus * d) * rateP \in Nat /\ (surplus * (d + 1)) * rateP \in Nat
          /\ (surplus * d) * rateP <= (surplus * (d + 1)) * rateP
      BY <1>1, <3>1, <3>2, TimesOrder, TimesNat
    <3> QED
      BY <2>1, <3>3 DEF surplus
  <2>2. CASE ~isLong
    <3> DEFINE surplus == short - long
    <3>1. surplus \in Nat /\ long - short = -surplus
      BY <1>1, <1>2, <2>2
    <3> HIDE DEF surplus
    <3>2. /\ surplus * d \in Nat /\ surplus * (d + 1) \in Nat
          /\ surplus * (d + 1) = surplus * d + surplus
      BY <3>1, TimesNat
    <3>3. /\ (surplus * d) * rateP \in Nat /\ (surplus * (d + 1)) * rateP \in Nat
          /\ (surplus * d) * rateP <= (surplus * (d + 1)) * rateP
      BY <1>1, <3>1, <3>2, TimesOrder, TimesNat
    <3>4. /\ Debt(d) = -((surplus * d) * rateP)
          /\ Debt(d + 1) = -((surplus * (d + 1)) * rateP)
      BY <1>1, <3>1
    <3> QED
      BY <2>2, <3>3, <3>4
  <2> QED
    BY <2>1, <2>2
<1> HIDE DEF long, short, accLong, accShort, rateP, last, Debt
<1>5. CASE at + 1 <= last
  <2>1. at \in Nat /\ at + 1 \in Nat /\ at <= last
    BY <1>1, <1>5
  <2> QED
    BY <1>1, <1>3, <1>5, <2>1
<1>6. CASE ~(at + 1 <= last)
  <2>1. /\ at + 1 - last \in Nat /\ at >= last
    BY <1>1, <1>6
  <2> DEFINE later == Debt(at + 1 - last)
             sooner == IF at = last THEN 0 ELSE Debt(at - last)
  <2>2. /\ later \in Int /\ sooner \in Int
        /\ isLong => sooner <= later
        /\ ~isLong => later <= sooner
    <3>1. CASE at = last
      <4>1. 0 \in Nat /\ at + 1 - last = 0 + 1
        BY <1>1, <3>1
      <4>2. /\ Debt(0) \in Int /\ Debt(0 + 1) \in Int
            /\ isLong => 0 <= Debt(0) /\ Debt(0) <= Debt(0 + 1)
            /\ ~isLong => Debt(0) <= 0 /\ Debt(0 + 1) <= Debt(0)
        BY <1>4
      <4> QED
        BY <3>1, <4>1, <4>2
    <3>2. CASE at # last
      <4>1. at - last \in Nat /\ at + 1 - last = (at - last) + 1
        BY <1>1, <2>1
      <4> DEFINE d == at - last
      <4>2. /\ Debt(d) \in Int /\ Debt(d + 1) \in Int
            /\ isLong => 0 <= Debt(d) /\ Debt(d) <= Debt(d + 1)
            /\ ~isLong => Debt(d) <= 0 /\ Debt(d + 1) <= Debt(d)
        BY <1>4, <4>1
      <4> QED
        BY <3>2, <4>1, <4>2
    <3> QED
      BY <3>1, <3>2
  <2>3. at \in Nat /\ at + 1 \in Nat /\ (at <= last <=> at = last)
    BY <1>1, <2>1
  <2>4. SideOf(PendingAccFundingView(i, at + 1), isLong) =
          IF isLong THEN IF long > 0 THEN accLong + Charge(later, long) ELSE accLong
          ELSE IF short > 0 THEN accShort - Charge(later, short) ELSE accShort
    <3>1. at + 1 \in Nat /\ ~(at + 1 =< last)
      BY <1>6
    <3> QED
      BY ONLY <1>1, <1>3, <3>1, at \in Nat DEF later
  <2>5. at # last => SideOf(PendingAccFundingView(i, at), isLong) =
          IF isLong THEN IF long > 0 THEN accLong + Charge(Debt(at - last), long) ELSE accLong
          ELSE IF short > 0 THEN accShort - Charge(Debt(at - last), short) ELSE accShort
    BY ONLY <1>3, <2>3, at \in Nat
  <2>6. at = last => SideOf(PendingAccFundingView(i, at), isLong) =
                       IF isLong THEN accLong ELSE accShort
    BY ONLY <1>3, <2>3, at \in Nat
  <2>7. \A x \in Int, y \in Int :
          /\ long > 0 /\ x <= y => /\ Charge(x, long) \in Int /\ Charge(y, long) \in Int
                                   /\ Charge(x, long) <= Charge(y, long)
                                   /\ Charge(0, long) = 0
          /\ short > 0 /\ x <= y => /\ Charge(x, short) \in Int /\ Charge(y, short) \in Int
                                    /\ Charge(x, short) <= Charge(y, short)
                                    /\ Charge(0, short) = 0
    BY <1>1, ChargeMonotone
  <2>8. SideOf(PendingAccFundingView(i, at), isLong) =
          IF isLong THEN IF long > 0 THEN accLong + Charge(sooner, long) ELSE accLong
          ELSE IF short > 0 THEN accShort - Charge(sooner, short) ELSE accShort
    <3>1. CASE at = last
      <4>1. sooner = 0 /\ 0 \in Int
        BY <3>1
      <4>2. /\ long > 0 => accLong + Charge(sooner, long) = accLong
            /\ short > 0 => accShort - Charge(sooner, short) = accShort
        BY <1>1, <2>7, <4>1
      <4> HIDE DEF sooner
      <4> QED
        BY <2>6, <3>1, <4>2
    <3>2. CASE at # last
      BY <2>5, <3>2
    <3> QED
      BY <3>1, <3>2
  <2> HIDE DEF sooner, later
  <2>9. /\ isLong /\ long > 0 =>
             /\ Charge(sooner, long) \in Int /\ Charge(later, long) \in Int
             /\ Charge(sooner, long) <= Charge(later, long)
        /\ ~isLong /\ short > 0 =>
             /\ Charge(sooner, short) \in Int /\ Charge(later, short) \in Int
             /\ Charge(later, short) <= Charge(sooner, short)
    BY <2>2, <2>7
  <2> QED
    BY <1>1, <2>4, <2>8, <2>9
<1> QED
  BY <1>5, <1>6

(* The more fees a position owes, the closer its liquidation price is to    *)
(* its opening price.                                                      *)
LEMMA FeesPress ==
    ASSUME NEW open \in Nat, NEW isLong \in BOOLEAN, NEW collateral \in Nat \ {0},
           NEW leverage \in Nat \ {0}, NEW threshold \in Nat,
           NEW rolloverNow \in Int, NEW rolloverNext \in Int, rolloverNow <= rolloverNext,
           NEW fundingNow \in Int, NEW fundingNext \in Int, fundingNow <= fundingNext
    PROVE  LET now == LiquidationPrice(open, isLong, collateral, leverage, rolloverNow,
                                       fundingNow, threshold)
               next == LiquidationPrice(open, isLong, collateral, leverage, rolloverNext,
                                        fundingNext, threshold)
           IN IF isLong THEN next >= now ELSE next =< now
<1> DEFINE bearable == DivTrunc(collateral * threshold, 100)
           less == bearable - rolloverNext - fundingNext
           more == bearable - rolloverNow - fundingNow
<1>1. bearable \in Int
  <2>1. collateral * threshold \in Nat
    BY TimesNat
  <2> QED
    BY <2>1, TruncMonotone
<1> HIDE DEF bearable
<1>2. less \in Int /\ more \in Int /\ less <= more
  BY <1>1
<1> HIDE DEF less, more
<1>3. open * less \in Int /\ open * more \in Int /\ open * less <= open * more
  <2>1. open * less = less * open /\ open * more = more * open
    BY <1>2
  <2> QED
    BY <1>2, <2>1, TimesOrder
<1> DEFINE lower == (open * less) \div collateral
           upper == (open * more) \div collateral
<1>4. lower \in Int /\ upper \in Int /\ lower <= upper
  BY <1>3, DivMonotone, FloorDivision
<1> HIDE DEF lower, upper
<1>5. /\ DivTrunc(lower, leverage) \in Int /\ DivTrunc(upper, leverage) \in Int
      /\ DivTrunc(lower, leverage) <= DivTrunc(upper, leverage)
  BY <1>4, TruncMonotone
<1>6. /\ LiquidationPrice(open, isLong, collateral, leverage, rolloverNext, fundingNext, threshold)
           = FloorAtZero(IF isLong THEN open - DivTrunc(lower, leverage)
                         ELSE open + DivTrunc(lower, leverage))
      /\ LiquidationPrice(open, isLong, collateral, leverage, rolloverNow, fundingNow, threshold)
           = FloorAtZero(IF isLong THEN open - DivTrunc(upper, leverage)
                         ELSE open + DivTrunc(upper, leverage))
  BY DEF LiquidationPrice, MulDivFloor, bearable, less, more, lower, upper
<1> QED
  BY <1>5, <1>6 DEF FloorAtZero

(* The side that should be paying is pressed towards liquidation by every   *)
(* ledger, whatever was committed, traded and configured before.           *)
THEOREM HeavierSideTheorem == RegistrySpec => []HeavierSidePressed
<1>1. RegistryTypeOK => HeavierSidePressed
  <2> SUFFICES ASSUME RegistryTypeOK, NEW i \in PairIndex, NEW meta \in TradeMeta,
                      NEW at \in FirstLedger .. LastLedger - 1, HasPair(i),
                      SideOf(openInterest[i], meta.isLong)
                        >= SideOf(openInterest[i], ~meta.isLong)
               PROVE  LET next == TradeLiquidationPriceView(i, meta, at + 1)
                          now == TradeLiquidationPriceView(i, meta, at)
                      IN IF meta.isLong THEN next >= now ELSE next =< now
    BY DEF HeavierSidePressed
  <2>1. /\ meta.isLong \in BOOLEAN /\ meta.leverage \in Nat \ {0} /\ meta.openPrice \in Nat
        /\ meta.collateral \in Nat \ {0} /\ meta.accRolloverOpen \in Int
        /\ meta.accFundingOpen \in Int
    BY TradeMetaAssumption
  <2>2. at \in Nat /\ pair[i].liqThresholdP \in Nat
    BY LedgerAssumption DEF RegistryTypeOK, HasPair, PairInfo
  <2> DEFINE RolloverSince(ledger) == PendingAccRolloverView(i, ledger) - meta.accRolloverOpen
             FundingSince(ledger) == SideOf(PendingAccFundingView(i, ledger), meta.isLong)
                                       - meta.accFundingOpen
             RolloverFee(ledger) == RolloverFeeForTrade(meta.accRolloverOpen,
                                        PendingAccRolloverView(i, ledger), meta.collateral)
             FundingFee(ledger) == FundingFeeForTrade(meta.accFundingOpen,
                                       SideOf(PendingAccFundingView(i, ledger), meta.isLong),
                                       meta.collateral, meta.leverage)
  <2>3. /\ RolloverSince(at) \in Int /\ RolloverSince(at + 1) \in Int
        /\ RolloverSince(at) <= RolloverSince(at + 1)
    <3>1. /\ PendingAccRolloverView(i, at) \in Nat /\ PendingAccRolloverView(i, at + 1) \in Nat
          /\ PendingAccRolloverView(i, at) <= PendingAccRolloverView(i, at + 1)
      BY ONLY <2>2, i \in PairIndex, RegistryTypeOK, RolloverViewGrows
    <3> QED
      BY <2>1, <3>1
  <2>4. /\ FundingSince(at) \in Int /\ FundingSince(at + 1) \in Int
        /\ FundingSince(at) <= FundingSince(at + 1)
    BY <2>1, <2>2, FundingViewGrows
  <2>5. ASSUME NEW x \in Int, NEW y \in Int, x <= y
        PROVE  /\ (x * meta.collateral) \div USDC_SCALE \in Int
               /\ (y * meta.collateral) \div USDC_SCALE \in Int
               /\ (x * meta.collateral) \div USDC_SCALE <= (y * meta.collateral) \div USDC_SCALE
    <3>1. /\ x * meta.collateral \in Int /\ y * meta.collateral \in Int
          /\ x * meta.collateral <= y * meta.collateral
      BY <2>1, <2>5, TimesOrder
    <3> QED
      BY <3>1, ScaleAssumption, DivMonotone, FloorDivision
  <2>6. /\ RolloverFee(at) \in Int /\ RolloverFee(at + 1) \in Int
        /\ RolloverFee(at) <= RolloverFee(at + 1)
    BY <2>3, <2>5 DEF RolloverFeeForTrade, MulDivFloor
  <2>7. /\ FundingFee(at) \in Int /\ FundingFee(at + 1) \in Int
        /\ FundingFee(at) <= FundingFee(at + 1)
    <3> DEFINE u == (FundingSince(at) * meta.collateral) \div USDC_SCALE
               v == (FundingSince(at + 1) * meta.collateral) \div USDC_SCALE
    <3>1. u \in Int /\ v \in Int /\ u <= v
      BY <2>4, <2>5
    <3>2. FundingFee(at) = u * meta.leverage /\ FundingFee(at + 1) = v * meta.leverage
      BY DEF FundingFeeForTrade, MulDivFloor
    <3> HIDE DEF u, v
    <3> QED
      BY <2>1, <3>1, <3>2, TimesOrder
  <2>8. /\ TradeLiquidationPriceView(i, meta, at)
             = LiquidationPrice(meta.openPrice, meta.isLong, meta.collateral, meta.leverage,
                                RolloverFee(at), FundingFee(at), pair[i].liqThresholdP)
        /\ TradeLiquidationPriceView(i, meta, at + 1)
             = LiquidationPrice(meta.openPrice, meta.isLong, meta.collateral, meta.leverage,
                                RolloverFee(at + 1), FundingFee(at + 1),
                                pair[i].liqThresholdP)
    BY DEF TradeLiquidationPriceView
  <2> DEFINE threshold == pair[i].liqThresholdP
             Price(rolloverFee, fundingFee) ==
                 LiquidationPrice(meta.openPrice, meta.isLong, meta.collateral, meta.leverage,
                                  rolloverFee, fundingFee, threshold)
  <2>9. ASSUME NEW r \in Int, NEW s \in Int, r <= s, NEW f \in Int, NEW g \in Int, f <= g
        PROVE  IF meta.isLong THEN Price(s, g) >= Price(r, f) ELSE Price(s, g) =< Price(r, f)
    <3>1. threshold \in Nat
      BY <2>2
    <3> HIDE DEF threshold
    <3> QED
      BY ONLY <2>1, <2>9, <3>1, FeesPress
  <2>10. /\ TradeLiquidationPriceView(i, meta, at) = Price(RolloverFee(at), FundingFee(at))
         /\ TradeLiquidationPriceView(i, meta, at + 1)
              = Price(RolloverFee(at + 1), FundingFee(at + 1))
    BY <2>8
  <2> HIDE DEF RolloverFee, FundingFee, Price
  <2>11. IF meta.isLong
         THEN Price(RolloverFee(at + 1), FundingFee(at + 1)) >= Price(RolloverFee(at), FundingFee(at))
         ELSE Price(RolloverFee(at + 1), FundingFee(at + 1)) =< Price(RolloverFee(at), FundingFee(at))
    BY <2>6, <2>7, <2>9
  <2> QED
    BY <2>10, <2>11
<1> QED
  BY <1>1, RegistryTypes, PTL
=============================================================================
