------------------------------ MODULE UsdcToken ------------------------------
(***************************************************************************)
(* The USDC Stellar Asset Contract, as the contracts use it: TokenClient's *)
(* transfer.  It is external code; what is modelled is what its callers    *)
(* rely on.  A transfer of a negative amount, or of more than the payer    *)
(* has, traps, and the trap undoes the whole transaction, so a caller's    *)
(* action is enabled only when every transfer in it can be made.           *)
(*                                                                         *)
(* The ledger is a value: a function from accounts to amounts, so that a   *)
(* transaction which moves money twice applies Transfer twice.             *)
(***************************************************************************)
EXTENDS Integers

CanTransfer(ledger, from, amount) == amount >= 0 /\ ledger[from] >= amount

Credit(ledger, account, amount) ==
    [a \in DOMAIN ledger |-> IF a = account THEN ledger[a] + amount ELSE ledger[a]]

Transfer(ledger, from, to, amount) == Credit(Credit(ledger, from, -amount), to, amount)
=============================================================================
