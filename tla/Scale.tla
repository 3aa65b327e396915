-------------------------------- MODULE Scale --------------------------------
(* The fixed-point scales of crates/math/src/scale.rs.  They are 1e10 and   *)
(* 1e7 in the code; the instances checked by TLC take small ones.          *)
EXTENDS FixedPoint

CONSTANTS
    P_SCALE,      \* one, for rates, percentages and prices
    USDC_SCALE    \* one USDC

ASSUME ScaleAssumption == P_SCALE \in Nat \ {0} /\ USDC_SCALE \in Nat \ {0}
=============================================================================
