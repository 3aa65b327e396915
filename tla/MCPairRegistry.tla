---------------------------- MODULE MCPairRegistry ----------------------------
(* Instances of PairRegistry for TLC: see the .cfg files. *)
EXTENDS PairRegistry, TLC

CONSTANTS xlm, crypto, forex

Info(groupIndex, minLeverage) ==
    [asset |-> xlm, groupIndex |-> groupIndex, minLeverage |-> minLeverage,
     maxLeverage |-> 2, liqThresholdP |-> 80, maxGainP |-> 100, disabled |-> FALSE]

(* The second has a group of its own, the third is refused by validation.  *)
MCPairConfig == {Info(crypto, 1), Info(forex, 1), Info(crypto, 3)}
MCRates == {-1, 0, 71}
MCGroupConfig == {[openFeeP |-> 1, closeFeeP |-> 1]}

(* Positions of either side, opened at different values of the accumulators. *)
MCTradeMeta ==
    {[isLong |-> isLong, leverage |-> leverage, openPrice |-> 100, collateral |-> 7,
      accRolloverOpen |-> acc, accFundingOpen |-> acc] :
        isLong \in BOOLEAN, leverage \in {1, 3}, acc \in {0, 30}}
=============================================================================
