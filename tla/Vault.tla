-------------------------------- MODULE Vault --------------------------------
(***************************************************************************)
(* contracts/vault: the pool of LP money, and the share token (gToken) it  *)
(* hands out for it.                                                       *)
(*                                                                         *)
(* Every action is one successful contract call.  A call that returns an   *)
(* error or traps leaves the ledger as it was, so it is not a step; the    *)
(* error conditions are the guards.  An account that must authorise a call *)
(* is the account the action is about.                                     *)
(***************************************************************************)
EXTENDS LedgerSequence, FixedPoint, UsdcToken, Totals

CONSTANTS
    Holder,          \* accounts that may hold shares and USDC: LPs and traders
    VaultAddr,       \* the vault's own address
    Amount,          \* asset and share amounts callers pass
    Pnl,             \* signed results a PositionManager settles with
    LockLedgers,     \* values the admin gives withdraw_lock_ledgers
    Funds,           \* USDC every holder starts with
    ManagerFunds,    \* USDC every manager address starts with
    MaxShares,       \* bound: stands for i128::MAX in the checked additions of
                     \* shares and of bad debt
    MaxAllowance     \* bound on the amounts approved

Account == Holder \cup Manager \cup {VaultAddr}

ASSUME HolderAssumption ==
    /\ VaultAddr \notin Holder \cup Manager
    /\ Holder \cap Manager = {}
    /\ IsFiniteSet(Holder)

ASSUME AmountAssumption ==
    /\ Amount \subseteq Int /\ Pnl \subseteq Int
    /\ LockLedgers \subseteq Nat
    /\ Funds \in Nat /\ ManagerFunds \in Nat
    /\ MaxShares \in Nat /\ MaxAllowance \in Nat

VARIABLES
    usdc,             \* the USDC token's balances
    totalAssets,      \* DataKey::TotalAssets
    totalShares,      \* DataKey::TotalShares
    balance,          \* DataKey::Balance(holder)
    allowance,        \* DataKey::Allowance(from, spender)
    lastDeposit,      \* DataKey::LastDepositLedger(holder)
    badDebtPool,      \* DataKey::BadDebtPool(pair)
    withdrawLock,     \* DataKey::WithdrawLockLedgers
    paused,           \* DataKey::Paused
    positionManager   \* DataKey::PositionManager

fund   == <<totalAssets, totalShares, balance>>
vaultConfig == <<withdrawLock, paused, positionManager>>
vaultVars == <<fund, allowance, lastDeposit, badDebtPool, vaultConfig>>
vaultState == <<usdc, sequence, vaultVars>>

NoAllowance == [amount |-> 0, expiration |-> 0]

VaultTypeOK ==
    /\ usdc \in [Account -> Nat]
    /\ sequence \in Nat
    /\ totalAssets \in Nat /\ totalShares \in Nat
    /\ balance \in [Holder -> Nat]
    /\ allowance \in [Holder \X Holder -> [amount : Nat, expiration : Nat]]
    /\ lastDeposit \in [Holder -> Nat]
    /\ badDebtPool \in [PairIndex -> Nat]
    /\ withdrawLock \in Nat
    /\ paused \in BOOLEAN
    /\ positionManager \in Manager

(* The state init leaves behind; storage that was never written reads as 0. *)
VaultInit ==
    /\ usdc = [a \in Account |-> IF a \in Holder THEN Funds
                                 ELSE IF a \in Manager THEN ManagerFunds ELSE 0]
    /\ sequence = FirstLedger
    /\ totalAssets = 0 /\ totalShares = 0
    /\ balance = [h \in Holder |-> 0]
    /\ allowance = [p \in Holder \X Holder |-> NoAllowance]
    /\ lastDeposit = [h \in Holder |-> 0]
    /\ badDebtPool = [i \in PairIndex |-> 0]
    /\ withdrawLock \in LockLedgers
    /\ paused = FALSE
    /\ positionManager \in Manager

-----------------------------------------------------------------------------
(* Share price arithmetic. *)

(* Mutant: rounds in the depositor's favour. *)
AssetsToSharesRoundedUp(assets, total, supply) ==
    IF supply = 0 \/ total = 0 THEN assets ELSE -MulDivFloor(-assets, supply, total)

AssetsToShares(assets, total, supply) ==
    IF supply = 0 \/ total = 0 THEN assets ELSE MulDivFloor(assets, supply, total)

SharesToAssets(shares, total, supply) ==
    IF supply = 0 THEN shares ELSE MulDivFloor(shares, total, supply)

(* Mutant: withdraw rounds down as deposit does. *)
SharesToBurnRoundedDown(assets, total, supply) == AssetsToShares(assets, total, supply)

(* What withdraw burns for an exact amount of assets. *)
SharesToBurn(assets, total, supply) ==
    LET floored == AssetsToShares(assets, total, supply)
    IN IF SharesToAssets(floored, total, supply) < assets THEN floored + 1 ELSE floored

-----------------------------------------------------------------------------
(* Storage helpers. *)

MintShares(to, amount) ==
    /\ totalShares + amount =< MaxShares
    /\ balance' = [balance EXCEPT ![to] = @ + amount]
    /\ totalShares' = totalShares + amount

(* Mutant: the balance is not checked. *)
BurnSharesUnchecked(from, amount) ==
    /\ balance' = [balance EXCEPT ![from] = @ - amount]
    /\ totalShares' = totalShares - amount

BurnShares(from, amount) ==
    /\ balance[from] >= amount
    /\ balance' = [balance EXCEPT ![from] = @ - amount]
    /\ totalShares' = totalShares - amount

(* Mutant: the recipient's balance is read before the debit is written. *)
MoveSharesReadEarly(from, to, amount) ==
    /\ amount >= 0
    /\ balance[from] >= amount
    /\ balance' = [h \in Holder |-> IF h = to THEN balance[to] + amount
                                   ELSE IF h = from THEN balance[from] - amount
                                   ELSE balance[h]]

(* The debit is written before the recipient's balance is read, so a      *)
(* transfer to oneself changes nothing.                                    *)
MoveShares(from, to, amount) ==
    /\ amount >= 0
    /\ balance[from] >= amount
    /\ balance' = Transfer(balance, from, to, amount)

(* Mutant: an expired allowance is still honoured. *)
StoredAllowance(from, spender) == allowance[<<from, spender>>]

(* A missing or expired allowance reads as zero. *)
LiveAllowance(from, spender) ==
    LET stored == allowance[<<from, spender>>]
    IN IF stored.expiration >= sequence THEN stored ELSE NoAllowance

(* Mutant: the allowance is checked but not written back. *)
SpendAllowanceUnwritten(from, spender, amount) ==
    LiveAllowance(from, spender).amount >= amount /\ UNCHANGED allowance

SpendAllowance(from, spender, amount) ==
    LET live == LiveAllowance(from, spender)
    IN /\ live.amount >= amount
       /\ allowance' = [allowance EXCEPT ![<<from, spender>>] =
                            [amount |-> live.amount - amount, expiration |-> live.expiration]]

WithdrawUnlocked(owner) ==
    withdrawLock = 0 \/ sequence >= lastDeposit[owner] + withdrawLock

-----------------------------------------------------------------------------
(* The share token. *)

Approve(from, spender, amount, expiration) ==
    /\ amount >= 0
    /\ allowance' = [allowance EXCEPT ![<<from, spender>>] =
                        [amount |-> amount, expiration |-> expiration]]
    /\ UNCHANGED <<usdc, sequence, fund, lastDeposit, badDebtPool, vaultConfig>>

TransferShares(from, to, amount) ==
    /\ MoveShares(from, to, amount)
    /\ UNCHANGED <<usdc, sequence, totalAssets, totalShares, allowance, lastDeposit,
                   badDebtPool, vaultConfig>>

TransferFrom(spender, from, to, amount) ==
    /\ SpendAllowance(from, spender, amount)
    /\ MoveShares(from, to, amount)
    /\ UNCHANGED <<usdc, sequence, totalAssets, totalShares, lastDeposit, badDebtPool,
                   vaultConfig>>

Burn(from, amount) ==
    /\ amount >= 0
    /\ BurnShares(from, amount)
    /\ UNCHANGED <<usdc, sequence, totalAssets, allowance, lastDeposit, badDebtPool,
                   vaultConfig>>

BurnFrom(spender, from, amount) ==
    /\ amount >= 0
    /\ SpendAllowance(from, spender, amount)
    /\ BurnShares(from, amount)
    /\ UNCHANGED <<usdc, sequence, totalAssets, lastDeposit, badDebtPool, vaultConfig>>

-----------------------------------------------------------------------------
(* LP operations. *)

(* The common tail of deposit and mint: pull the assets, credit the pool,  *)
(* mint, and restart the receiver's withdraw lock.                         *)
TakeIn(from, assets, shares, receiver) ==
    /\ assets > 0 /\ shares > 0
    /\ CanTransfer(usdc, from, assets)
    /\ usdc' = Transfer(usdc, from, VaultAddr, assets)
    /\ totalAssets' = totalAssets + assets
    /\ MintShares(receiver, shares)
    /\ lastDeposit' = [lastDeposit EXCEPT ![receiver] = sequence]
    /\ UNCHANGED <<sequence, allowance, badDebtPool, vaultConfig>>

Deposit(from, assets, receiver) ==
    /\ ~paused
    /\ TakeIn(from, assets, AssetsToShares(assets, totalAssets, totalShares), receiver)

Mint(from, shares, receiver) ==
    /\ ~paused
    /\ TakeIn(from, SharesToAssets(shares, totalAssets, totalShares), shares, receiver)

(* The common tail of redeem and withdraw: burn, debit the pool, pay. *)
PayOut(owner, assets, shares, receiver) ==
    /\ ~paused
    /\ WithdrawUnlocked(owner)
    /\ assets =< totalAssets
    /\ BurnShares(owner, shares)
    /\ totalAssets' = totalAssets - assets
    /\ CanTransfer(usdc, VaultAddr, assets)
    /\ usdc' = Transfer(usdc, VaultAddr, receiver, assets)
    /\ UNCHANGED <<sequence, allowance, lastDeposit, badDebtPool, vaultConfig>>

Redeem(owner, shares, receiver) ==
    /\ shares > 0
    /\ PayOut(owner, SharesToAssets(shares, totalAssets, totalShares), shares, receiver)

Withdraw(owner, assets, receiver) ==
    /\ assets > 0
    /\ PayOut(owner, assets, SharesToBurn(assets, totalAssets, totalShares), receiver)

-----------------------------------------------------------------------------
(* The PositionManager's entry points. *)

TakeCollateral(manager, amount) ==
    /\ manager = positionManager
    /\ 0 < amount /\ amount =< totalAssets
    /\ totalAssets' = totalAssets - amount
    /\ CanTransfer(usdc, VaultAddr, amount)
    /\ usdc' = Transfer(usdc, VaultAddr, manager, amount)
    /\ UNCHANGED <<sequence, totalShares, balance, allowance, lastDeposit, badDebtPool,
                   vaultConfig>>

(* Mutant: a paused vault refuses settlements too. *)
ReturnUnlessPaused(manager, trader, collateral, net, ledger) ==
    LET payout == collateral + net
    IN /\ ~paused
       /\ manager = positionManager
       /\ collateral >= 0 /\ payout >= 0 /\ totalAssets - net >= 0
       /\ totalAssets' = totalAssets - net
       /\ payout > 0 => CanTransfer(ledger, VaultAddr, payout)
       /\ usdc' = IF payout > 0 THEN Transfer(ledger, VaultAddr, trader, payout) ELSE ledger
       /\ UNCHANGED <<sequence, totalShares, balance, allowance, lastDeposit, badDebtPool,
                      vaultConfig>>

(* return_collateral_with_pnl, entered with the USDC ledger `ledger': the   *)
(* manager's transaction has already moved the collateral into the vault.  *)
ReturnCollateralWithPnl(manager, trader, collateral, net, ledger) ==
    LET payout == collateral + net
    IN /\ manager = positionManager
       /\ collateral >= 0
       /\ payout >= 0
       /\ totalAssets - net >= 0
       /\ totalAssets' = totalAssets - net
       /\ payout > 0 => CanTransfer(ledger, VaultAddr, payout)
       /\ usdc' = IF payout > 0 THEN Transfer(ledger, VaultAddr, trader, payout) ELSE ledger
       /\ UNCHANGED <<sequence, totalShares, balance, allowance, lastDeposit, badDebtPool,
                      vaultConfig>>

(* Mutant: the collateral is reported but not transferred. *)
SettleUntransferred(manager, trader, collateral, net) ==
    ReturnCollateralWithPnl(manager, trader, collateral, net, usdc)

(* A settlement as the PositionManager makes it: transfer, then the call.  *)
(* Nothing in the vault checks the transfer; it is the precondition its    *)
(* documentation states, and both are in one transaction.                  *)
Settle(manager, trader, collateral, net) ==
    /\ CanTransfer(usdc, manager, collateral)
    /\ ReturnCollateralWithPnl(manager, trader, collateral, net,
                               Transfer(usdc, manager, VaultAddr, collateral))

RecordBadDebt(manager, pair, amount) ==
    /\ manager = positionManager
    /\ amount > 0
    /\ badDebtPool[pair] + amount =< MaxShares
    /\ badDebtPool' = [badDebtPool EXCEPT ![pair] = @ + amount]
    /\ totalAssets' = FloorAtZero(totalAssets - amount)
    /\ UNCHANGED <<usdc, sequence, totalShares, balance, allowance, lastDeposit, vaultConfig>>

-----------------------------------------------------------------------------
(* Administration, and the passing of time. *)

SetWithdrawLock(ledgers) ==
    /\ withdrawLock' = ledgers
    /\ UNCHANGED <<usdc, sequence, fund, allowance, lastDeposit, badDebtPool, paused,
                   positionManager>>

SetPositionManager(manager) ==
    /\ positionManager' = manager
    /\ UNCHANGED <<usdc, sequence, fund, allowance, lastDeposit, badDebtPool,
                   withdrawLock, paused>>

Pause ==
    /\ paused' = TRUE
    /\ UNCHANGED <<usdc, sequence, fund, allowance, lastDeposit, badDebtPool,
                   withdrawLock, positionManager>>

Unpause ==
    /\ paused' = FALSE
    /\ UNCHANGED <<usdc, sequence, fund, allowance, lastDeposit, badDebtPool,
                   withdrawLock, positionManager>>

CloseLedger ==
    /\ AdvanceSequence
    /\ UNCHANGED <<usdc, vaultVars>>

-----------------------------------------------------------------------------
ShareTokenStep ==
    \E from, other \in Holder :
        \/ \E amount \in 0 .. MaxAllowance, expiration \in FirstLedger .. LastLedger :
                /\ MaxAllowance > 0
                /\ Approve(from, other, amount, expiration)
        \/ \E amount \in Amount :
            \/ TransferShares(from, other, amount)
            \/ Burn(from, amount)
            \/ BurnFrom(other, from, amount)
            \/ \E to \in Holder : TransferFrom(other, from, to, amount)

LpStep ==
    \E from \in Holder, amount \in Amount :
        \/ \E receiver \in Holder : \/ Deposit(from, amount, receiver)
                                    \/ Mint(from, amount, receiver)
        \/ \E receiver \in Account : \/ Redeem(from, amount, receiver)
                                     \/ Withdraw(from, amount, receiver)

ManagerStep ==
    \E manager \in Manager, amount \in Amount :
        \/ TakeCollateral(manager, amount)
        \/ \E pair \in PairIndex : RecordBadDebt(manager, pair, amount)
        \/ \E trader \in Holder, net \in Pnl : Settle(manager, trader, amount, net)

VaultAdminStep ==
    \/ \E ledgers \in LockLedgers : SetWithdrawLock(ledgers)
    \/ \E manager \in Manager : SetPositionManager(manager)
    \/ Pause
    \/ Unpause

VaultNext == ShareTokenStep \/ LpStep \/ ManagerStep \/ VaultAdminStep \/ CloseLedger

VaultSpec == VaultInit /\ [][VaultNext]_vaultState

-----------------------------------------------------------------------------
(* Properties. *)

(* Solvent: the vault really holds the USDC it accounts to its LPs.  LP    *)
(* flows, settlements, working capital and bad debt each move totalAssets  *)
(* and the token in different calls and sometimes only one of them; none   *)
(* may leave the pool promising more than the token contract says it has.  *)
Solvent == usdc[VaultAddr] >= totalAssets

(* SharesAccountedFor: the share supply redeem and withdraw divide by is    *)
(* exactly what the holders own, whichever of the mint, burn, transfer and *)
(* allowance paths moved them.                                             *)
SharesAccountedFor == totalShares = Total(balance)

(* A step after which, with shares outstanding before and after it, a       *)
(* share is worth no less: assets'/shares' >= assets/shares.               *)
PriceKept ==
    totalShares > 0 /\ totalShares' > 0
        => totalAssets' * totalShares >= totalAssets * totalShares'

(* ExitsKeepSharePrice: an LP who leaves never takes value from those who   *)
(* stay.  Whenever shares are burned, by redeem, withdraw or burn, with     *)
(* both roundings, the price of the remaining ones does not fall.          *)
ExitsKeepSharePrice == [][totalShares' < totalShares => PriceKept]_vaultState

(* DepositsKeepSharePrice: nor does an LP who enters by deposit, including  *)
(* the deposits made when losses have eaten all the assets behind          *)
(* outstanding shares and the conversion falls back to 1:1.                *)
DepositsKeepSharePrice ==
    [][totalShares' > totalShares =>
        \A from, receiver \in Holder, assets \in Amount :
            Deposit(from, assets, receiver) => PriceKept]_vaultState

(* EntriesKeepSharePrice: every step that issues shares keeps the price,    *)
(* mint included.  contract.rs:365 states the rule withdraw rounds by:     *)
(* "the vault is never short-changed by flooring".                         *)
EntriesKeepSharePrice == [][totalShares' > totalShares => PriceKept]_vaultState

(* NoExitInsideLock: types.rs:43 says the lock runs from deposit to first   *)
(* allowed withdraw.  Until a whole lock has passed since the vault was     *)
(* deployed every share is younger than the lock, so no step burns shares  *)
(* for assets.                                                             *)
NoExitInsideLock ==
    [][sequence < FirstLedger + withdrawLock
            => ~(totalShares' < totalShares /\ totalAssets' < totalAssets)]_vaultState

(* FundImplemented: the vault is a pooled fund.  The share tokens are the   *)
(* stakes, so no call makes or loses shares that nobody holds; and every   *)
(* call that moves assets against shares does it at the fair price, with   *)
(* only mint favouring the caller, by less than one unit.                  *)
Fund == INSTANCE PooledFund WITH Member <- Holder, stake <- balance, pool <- totalAssets

FundImplemented == Fund!Spec
=============================================================================
