----------------------------- MODULE MCKeeperBot -----------------------------
(* Instance of KeeperBot for TLC: see the .cfg file. *)
EXTENDS KeeperBot

CONSTANTS alice, xlm, crypto, btc

(* One pair at leverage 2, liquidated at 80 percent, without fees.  A long  *)
(* opened at 10 is due at 6 and below, a short opened at 6 at 8 and above. *)
MCMarket ==
    {[asset |-> xlm, groupIndex |-> crypto, minLeverage |-> 2, maxLeverage |-> 2,
      liqThresholdP |-> 80, maxGainP |-> 100, disabled |-> FALSE]}
MCFees == {[openFeeP |-> 0, closeFeeP |-> 0]}
NoPnl == {}
=============================================================================
