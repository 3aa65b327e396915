------------------------------- MODULE FeeMath -------------------------------
(***************************************************************************)
(* crates/math/src/fees.rs: the rollover and funding accumulators of a     *)
(* pair, brought forward by a number of ledgers, and what they charge a    *)
(* trade that was opened at earlier values of them.                        *)
(***************************************************************************)
EXTENDS Scale

PendingAccRollover(acc, delta, rateP) ==
    acc + MulDivFloor(delta, rateP * USDC_SCALE, P_SCALE * 100)

(* What the longs pay the shorts over delta ledgers; negative if the       *)
(* shorts pay.                                                             *)
PaidByLongs(oi, delta, rateP) ==
    MulDivFloor((oi.long - oi.short) * delta, rateP, P_SCALE * 100)

(* Mutant: both sides are divided by the long open interest. *)
PendingAccFundingByLongs(accLong, accShort, oi, delta, rateP) ==
    LET paid == PaidByLongs(oi, delta, rateP)
    IN IF oi.long > 0 THEN [long  |-> accLong + MulDivFloor(paid, USDC_SCALE, oi.long),
                            short |-> accShort - MulDivFloor(paid, USDC_SCALE, oi.long)]
       ELSE [long |-> accLong, short |-> accShort]

(* A side without open interest neither pays nor receives.                 *)
PendingAccFunding(accLong, accShort, oi, delta, rateP) ==
    LET paid == PaidByLongs(oi, delta, rateP)
    IN [long  |-> IF oi.long > 0 THEN accLong + MulDivFloor(paid, USDC_SCALE, oi.long)
                                 ELSE accLong,
        short |-> IF oi.short > 0 THEN accShort - MulDivFloor(paid, USDC_SCALE, oi.short)
                                  ELSE accShort]

(* The fees of one trade between two values of an accumulator.  A negative *)
(* funding fee is paid to the trader.                                      *)
RolloverFeeForTrade(accOpen, accNow, collateral) ==
    MulDivFloor(accNow - accOpen, collateral, USDC_SCALE)

FundingFeeForTrade(accOpen, accNow, collateral, leverage) ==
    MulDivFloor(accNow - accOpen, collateral, USDC_SCALE) * leverage
=============================================================================
