--------------------------- MODULE ApprovalHistory ---------------------------
(***************************************************************************)
(* The vault with two history variables: what an owner last approved a     *)
(* spender for, and what the spender has moved since.  The vault itself    *)
(* keeps neither: it overwrites the allowance with what is left of it.     *)
(***************************************************************************)
EXTENDS Vault

CONSTANT Approvals   \* bound: the pairs of owner and spender that use allowances

ASSUME ApprovalsAssumption == Approvals \subseteq Holder \X Holder

VARIABLES
    granted,         \* the last approval of each pair
    spent            \* what was moved under it

history == <<granted, spent>>

BudgetInit ==
    /\ VaultInit
    /\ granted = [p \in Holder \X Holder |-> NoAllowance]
    /\ spent = [p \in Holder \X Holder |-> 0]

Granted(from, spender) ==
    \E amount \in 0 .. MaxAllowance, expiration \in FirstLedger .. LastLedger :
        /\ Approve(from, spender, amount, expiration)
        /\ granted' = [granted EXCEPT ![<<from, spender>>] =
                          [amount |-> amount, expiration |-> expiration]]
        /\ spent' = [spent EXCEPT ![<<from, spender>>] = 0]

Spent(from, spender) ==
    \E amount \in Amount :
        /\ BurnFrom(spender, from, amount)
              \/ \E to \in Holder : TransferFrom(spender, from, to, amount)
        /\ spent' = [spent EXCEPT ![<<from, spender>>] = @ + amount]
        /\ UNCHANGED granted

(* Every step of the vault, with the history of the steps on allowances.    *)
BudgetNext ==
    /\ VaultNext
    /\ \/ allowance' = allowance /\ UNCHANGED history
       \/ \E p \in Approvals : Granted(p[1], p[2]) \/ Spent(p[1], p[2])

BudgetSpec == BudgetInit /\ [][BudgetNext]_<<vaultState, history>>

-----------------------------------------------------------------------------
(* Properties. *)

(* SpenderWithinBudget: over any sequence of transfer_from and burn_from    *)
(* calls, across expiry and in any order with the owner's own transfers,   *)
(* a spender moves no more of the owner's shares than the last approval.   *)
SpenderWithinBudget ==
    \A p \in Holder \X Holder : spent[p] =< granted[p].amount

(* NothingSpentAfterExpiry: and only up to the ledger the approval names;   *)
(* spending it down must not stretch its life.                             *)
NothingSpentAfterExpiry ==
    [][\A p \in Holder \X Holder :
        spent'[p] > spent[p] => sequence =< granted[p].expiration]_spent
=============================================================================
