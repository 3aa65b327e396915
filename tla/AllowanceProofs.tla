--------------------------- MODULE AllowanceProofs ---------------------------
(***************************************************************************)
(* An allowance is a budget with a deadline: for all owners, spenders,     *)
(* amounts and ledgers.                                                    *)
(***************************************************************************)
EXTENDS ApprovalHistory, VaultProofs

(***************************************************************************)
(* The inductive invariant.  The vault keeps only what is left, so what    *)
(* bounds the spending is that the rest and the spent part never exceed    *)
(* the approval together; and what bounds its life is that writing the     *)
(* rest back never moves the expiration past the one approved.             *)
(***************************************************************************)
HistoryTypeOK ==
    /\ granted \in [Holder \X Holder -> [amount : Nat, expiration : Nat]]
    /\ spent \in [Holder \X Holder -> Nat]

WithinGrant ==
    \A p \in Holder \X Holder :
        /\ allowance[p].amount + spent[p] =< granted[p].amount
        /\ allowance[p].expiration =< granted[p].expiration

Budget == Books /\ HistoryTypeOK /\ WithinGrant

(* The fields of the records that the arithmetic is about. *)
LEMMA BudgetTypes ==
    ASSUME Budget, NEW p \in Holder \X Holder
    PROVE  /\ allowance[p].amount \in Nat /\ allowance[p].expiration \in Nat
           /\ granted[p].amount \in Nat /\ granted[p].expiration \in Nat
           /\ spent[p] \in Nat /\ sequence \in Nat
BY DEF Budget, Books, VaultTypeOK, HistoryTypeOK

LEMMA InitBudget == BudgetInit => Budget
<1> SUFFICES ASSUME BudgetInit PROVE Budget
  OBVIOUS
<1>1. Books
  BY InitBooks DEF BudgetInit
<1>2. NoAllowance \in [amount : Nat, expiration : Nat]
  BY DEF NoAllowance
<1>3. HistoryTypeOK
  BY <1>2 DEF BudgetInit, HistoryTypeOK
<1>4. WithinGrant
  BY DEF BudgetInit, VaultInit, WithinGrant, NoAllowance
<1> QED
  BY <1>1, <1>3, <1>4 DEF Budget

(* An approval starts a new budget. *)
LEMMA GrantKeeps ==
    ASSUME Budget, Books', NEW from \in Holder, NEW spender \in Holder, Granted(from, spender)
    PROVE  Budget'
<1> DEFINE p == <<from, spender>>
<1>1. PICK amount \in 0 .. MaxAllowance, expiration \in FirstLedger .. LastLedger :
        /\ Approve(from, spender, amount, expiration)
        /\ granted' = [granted EXCEPT ![p] = [amount |-> amount, expiration |-> expiration]]
        /\ spent' = [spent EXCEPT ![p] = 0]
  BY DEF Granted
<1>2. p \in Holder \X Holder /\ amount \in Nat /\ expiration \in Nat
  BY AmountAssumption, LedgerAssumption
<1>3. allowance' = [allowance EXCEPT ![p] = [amount |-> amount, expiration |-> expiration]]
  BY <1>1 DEF Approve
<1> HIDE DEF p
<1>4. HistoryTypeOK'
  BY <1>1, <1>2 DEF Budget, HistoryTypeOK
<1>5. WithinGrant'
  <2> SUFFICES ASSUME NEW q \in Holder \X Holder
               PROVE  /\ allowance'[q].amount + spent'[q] =< granted'[q].amount
                      /\ allowance'[q].expiration =< granted'[q].expiration
    BY DEF WithinGrant
  <2>1. CASE q = p
    BY <1>1, <1>2, <1>3, <2>1 DEF Budget, Books, VaultTypeOK, HistoryTypeOK
  <2>2. CASE q # p
    BY <1>1, <1>2, <1>3, <2>2 DEF Budget, Books, VaultTypeOK, HistoryTypeOK, WithinGrant
  <2> QED
    BY <2>1, <2>2
<1> QED
  BY <1>4, <1>5 DEF Budget

(* Spending takes from the rest what it adds to the spent part, and is not  *)
(* possible in a ledger after the one approved.                            *)
LEMMA SpendKeeps ==
    ASSUME Budget, Books', NEW from \in Holder, NEW spender \in Holder, Spent(from, spender)
    PROVE  /\ Budget'
           /\ \A q \in Holder \X Holder :
                spent'[q] > spent[q] => sequence =< granted[q].expiration
<1> DEFINE p == <<from, spender>>
           live == LiveAllowance(from, spender)
<1>1. PICK amount \in Amount :
        /\ amount >= 0 /\ SpendAllowance(from, spender, amount)
        /\ spent' = [spent EXCEPT ![p] = @ + amount]
        /\ UNCHANGED granted
  BY DEF Spent, BurnFrom, TransferFrom, MoveShares
<1>2. p \in Holder \X Holder /\ amount \in Nat
  BY <1>1, AmountAssumption
<1>3. /\ live.amount >= amount
      /\ allowance' = [allowance EXCEPT ![p] = [amount |-> live.amount - amount,
                                                expiration |-> live.expiration]]
  BY <1>1 DEF SpendAllowance
<1>4. live = IF allowance[p].expiration >= sequence THEN allowance[p]
             ELSE [amount |-> 0, expiration |-> 0]
  BY DEF LiveAllowance, NoAllowance
<1> HIDE DEF p, live
<1>5. /\ allowance[p].amount \in Nat /\ allowance[p].expiration \in Nat
      /\ granted[p].amount \in Nat /\ granted[p].expiration \in Nat
      /\ spent[p] \in Nat /\ sequence \in Nat
  BY <1>2, BudgetTypes
<1>6. /\ allowance[p].amount + spent[p] =< granted[p].amount
      /\ allowance[p].expiration =< granted[p].expiration
  BY <1>2 DEF Budget, WithinGrant
<1>7. /\ live.amount \in Nat /\ live.amount =< allowance[p].amount
      /\ live.expiration \in Nat /\ live.expiration =< allowance[p].expiration
      /\ live.amount > 0 => allowance[p].expiration >= sequence
  BY <1>4, <1>5
<1>8. HistoryTypeOK'
  BY <1>1, <1>2, <1>5 DEF Budget, HistoryTypeOK
<1>9. WithinGrant'
  <2> SUFFICES ASSUME NEW q \in Holder \X Holder
               PROVE  /\ allowance'[q].amount + spent'[q] =< granted'[q].amount
                      /\ allowance'[q].expiration =< granted'[q].expiration
    BY DEF WithinGrant
  <2>1. CASE q = p
    <3>1. /\ allowance'[q].amount = live.amount - amount
          /\ allowance'[q].expiration = live.expiration
          /\ spent'[q] = spent[p] + amount /\ granted'[q] = granted[p]
      BY <1>1, <1>2, <1>3, <2>1 DEF Budget, Books, VaultTypeOK, HistoryTypeOK
    <3> QED
      BY <1>2, <1>5, <1>6, <1>7, <3>1
  <2>2. CASE q # p
    BY <1>1, <1>2, <1>3, <2>2 DEF Budget, Books, VaultTypeOK, HistoryTypeOK, WithinGrant
  <2> QED
    BY <2>1, <2>2
<1>10. ASSUME NEW q \in Holder \X Holder, spent'[q] > spent[q]
       PROVE  sequence =< granted[q].expiration
  <2>1. q = p /\ amount > 0
    <3>1. spent \in [Holder \X Holder -> Nat]
      BY DEF Budget, HistoryTypeOK
    <3>2. spent[q] \in Nat
      BY <3>1
    <3>3. q = p
      BY <1>1, <1>10, <3>1, <3>2
    <3>4. spent'[q] = spent[q] + amount
      BY <1>1, <1>2, <3>1, <3>3
    <3> QED
      BY <1>2, <1>10, <3>2, <3>3, <3>4
  <2> QED
    BY <1>2, <1>3, <1>5, <1>6, <1>7, <2>1
<1> QED
  BY <1>8, <1>9, <1>10 DEF Budget

(* No other step of the vault touches an allowance. *)
LEMMA BudgetStep ==
    Budget /\ [BudgetNext]_<<vaultState, history>>
        => /\ Budget'
           /\ \A q \in Holder \X Holder :
                spent'[q] > spent[q] => sequence =< granted[q].expiration
<1> SUFFICES ASSUME Budget, [BudgetNext]_<<vaultState, history>>
             PROVE  /\ Budget'
                    /\ \A q \in Holder \X Holder :
                         spent'[q] > spent[q] => sequence =< granted[q].expiration
  OBVIOUS
<1>1. Books'
  BY BooksInductive DEF Budget, BudgetNext
<1>2. CASE UNCHANGED <<allowance, history>>
  <2>1. \A q \in Holder \X Holder : ~(spent'[q] > spent[q])
    BY <1>2 DEF Budget, HistoryTypeOK, history
  <2> QED
    BY <1>1, <1>2, <2>1 DEF Budget, HistoryTypeOK, WithinGrant, history
<1>3. CASE \E p \in Approvals : Granted(p[1], p[2])
  <2>1. PICK p \in Approvals : Granted(p[1], p[2])
    BY <1>3
  <2>2. p[1] \in Holder /\ p[2] \in Holder
    BY ApprovalsAssumption
  <2>3. Budget'
    BY <1>1, <2>1, <2>2, GrantKeeps
  <2>4. \A q \in Holder \X Holder : ~(spent'[q] > spent[q])
    BY <2>1 DEF Granted, Budget, HistoryTypeOK
  <2> QED
    BY <2>3, <2>4
<1>4. CASE \E p \in Approvals : Spent(p[1], p[2])
  BY <1>1, <1>4, ApprovalsAssumption, SpendKeeps
<1> QED
  BY <1>2, <1>3, <1>4 DEF BudgetNext, vaultState, vaultVars

LEMMA BudgetKept == BudgetSpec => []Budget
BY InitBudget, BudgetStep, PTL DEF BudgetSpec

(* However an owner's approvals and a spender's calls interleave with each  *)
(* other and with everything else that happens to the shares, no more is   *)
(* moved than was last approved.                                           *)
THEOREM BudgetTheorem == BudgetSpec => []SpenderWithinBudget
<1>1. Budget => SpenderWithinBudget
  <2> SUFFICES ASSUME Budget, NEW p \in Holder \X Holder
               PROVE  spent[p] =< granted[p].amount
    BY DEF SpenderWithinBudget
  <2> QED
    BY BudgetTypes DEF Budget, WithinGrant
<1> QED
  BY <1>1, BudgetKept, PTL

(* And none of it in a ledger after the one the last approval names.        *)
THEOREM ExpiryTheorem == BudgetSpec => NothingSpentAfterExpiry
<1> DEFINE InTime == \A p \in Holder \X Holder :
                        spent'[p] > spent[p] => sequence =< granted[p].expiration
<1>1. Budget /\ [BudgetNext]_<<vaultState, history>> => [InTime]_spent
  BY BudgetStep
<1>2. BudgetSpec => [][InTime]_spent
  BY <1>1, BudgetKept, PTL DEF BudgetSpec
<1> QED
  BY <1>2 DEF NothingSpentAfterExpiry
=============================================================================
