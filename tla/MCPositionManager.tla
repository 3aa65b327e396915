-------------------------- MODULE MCPositionManager --------------------------
(* Instances of PositionManager for TLC: see the .cfg files. *)
EXTENDS PositionManager, TLC

CONSTANTS lp, alice, xlm, crypto, btc

(* Pairs of one asset and one group, with leverage 1 or 2; liquidation at   *)
(* 80 percent of the collateral lost, gains capped at 50 or 100 percent.   *)
Market(maxLeverage, maxGainP, disabled) ==
    [asset |-> xlm, groupIndex |-> crypto, minLeverage |-> 1, maxLeverage |-> maxLeverage,
     liqThresholdP |-> 80, maxGainP |-> maxGainP, disabled |-> disabled]

MCMarket == {Market(2, 100, FALSE)}
MCReconfigured == {Market(2, 100, FALSE), Market(1, 50, FALSE)}

(* Fees at P_SCALE = 10: ten percent, or twenty.                           *)
MCFees == {[openFeeP |-> 1, closeFeeP |-> 1]}
MCDearFees == {[openFeeP |-> 2, closeFeeP |-> 2]}

NoPnl == {}

MCHolder == {lp, alice}
HolderSymmetry == Permutations(MCHolder)
=============================================================================
