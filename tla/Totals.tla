------------------------------- MODULE Totals -------------------------------
(***************************************************************************)
(* The total of a function with values in Nat.  It is the size of the set  *)
(* of its units - f[x] numbered units for each x - rather than a fold, so  *)
(* that what an update does to it follows from the theorems on finite sets *)
(* and needs no induction over the domain: see MathProofs.               *)
(***************************************************************************)
EXTENDS Integers, FiniteSets

UnitsOf(f, x) == {x} \X (1 .. f[x])

Units(f) == UNION {UnitsOf(f, x) : x \in DOMAIN f}

Total(f) == Cardinality(Units(f))
=============================================================================
