------------------------------- MODULE MCVault -------------------------------
(* Instances of Vault for TLC: see the .cfg files. *)
EXTENDS Vault, TLC

CONSTANTS lp1, lp2, pm1, pm2

MCHolder == {lp1, lp2}
MCPnl == {-2, -1, 1}
NoPnl == {}
MCLoss == {-1}

(* The pool without allowances and the passing of ledgers, which only move  *)
(* shares and unlock them: the run of MCAllowance has them.                *)
OwnerStep ==
    \E from, to \in Holder, amount \in Amount :
        TransferShares(from, to, amount) \/ Burn(from, amount)

PoolNext == OwnerStep \/ LpStep \/ ManagerStep \/ VaultAdminStep

PoolSpec == VaultInit /\ [][PoolNext]_vaultState

(* The pool without burns, bad debt and working capital: only a settlement  *)
(* changes the price of a share before an LP enters.                       *)
SettlementStep ==
    \E manager \in Manager, trader \in Holder, amount \in Amount, net \in Pnl :
        Settle(manager, trader, amount, net)

SettledSpec == VaultInit /\ [][LpStep \/ SettlementStep]_vaultState

(* No property tells the LPs apart. *)
LpSymmetry == Permutations(MCHolder)
=============================================================================
