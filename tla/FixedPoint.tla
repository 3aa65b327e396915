----------------------------- MODULE FixedPoint -----------------------------
(***************************************************************************)
(* The two integer divisions the contracts compute with: mul_div_floor of  *)
(* the shared math crate, and Rust's own `/' on i128, which truncates.     *)
(***************************************************************************)
EXTENDS Integers

(* (a * b) / denom rounded towards minus infinity, for denom > 0.  Every   *)
(* denominator the contracts pass is positive where the call is reached;   *)
(* the Err branches for denom = 0 are guards of the callers here.          *)
MulDivFloor(a, b, denom) == (a * b) \div denom

(* Rust's a / b for b > 0: rounded towards zero. *)
DivTrunc(a, b) == IF a >= 0 THEN a \div b ELSE -((-a) \div b)

(* i128::max(0, x), as the contracts spell it with `if x > 0 { x } else { 0 }'. *)
FloorAtZero(x) == IF x > 0 THEN x ELSE 0
=============================================================================
