-------------------------- MODULE ReflectorAdapter --------------------------
(***************************************************************************)
(* crates/reflector-adapter: an oracle answers with decimals of its own,   *)
(* and read_price brings the answer to the project's PRICE_SCALE.  Its     *)
(* subscription clients are called by no contract.                         *)
(***************************************************************************)
EXTENDS FixedPoint

CONSTANTS
    PRICE_EXP,    \* decimals of PRICE_SCALE: 10 in the code
    Decimals      \* decimals that oracles report

pow10(exp) == 10 ^ exp

(* The pulse oracle reports 14 decimals, so prices are usually divided, and *)
(* a price below one unit of PRICE_SCALE becomes zero.  An overflow, which  *)
(* read_price turns into no answer, is left out.                           *)
RescaleToPriceScale(oraclePrice, oracleDecimals) ==
    IF oracleDecimals >= PRICE_EXP
    THEN DivTrunc(oraclePrice, pow10(oracleDecimals - PRICE_EXP))
    ELSE oraclePrice * pow10(PRICE_EXP - oracleDecimals)

ASSUME DecimalsAssumption ==
    /\ PRICE_EXP \in Nat /\ Decimals \subseteq Nat
    /\ \A d \in Decimals :
        /\ d >= PRICE_EXP => pow10(d - PRICE_EXP) \in Nat \ {0}
        /\ d < PRICE_EXP => pow10(PRICE_EXP - d) \in Nat \ {0}
=============================================================================
