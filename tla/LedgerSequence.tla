--------- MODULE LedgerSequence ---------
(***************************************************************************)
(* What the vault and the registry are both given from outside: the number *)
(* env.ledger().sequence() returns, which dates deposits, allowances and   *)
(* accumulators, and who may call and what may be traded.                  *)
(***************************************************************************)
EXTENDS Integers

VARIABLE sequence

(* The contracts are deployed at FirstLedger; LastLedger bounds the model.  *)
CONSTANTS FirstLedger, LastLedger

ASSUME LedgerAssumption == {FirstLedger, LastLedger} \subseteq Nat

(* A transaction sees the ledger it is in, and the next may see a later one. *)
AdvanceSequence == sequence < LastLedger /\ sequence' = sequence + 1

(* The addresses that are, were or may become the vault's and the           *)
(* registry's position manager.                                            *)
CONSTANT Manager

(* The indices pairs are, or may be, stored under.                          *)
CONSTANT PairIndex
====
