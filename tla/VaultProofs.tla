----------------------------- MODULE VaultProofs -----------------------------
(***************************************************************************)
(* Vault keeps its books and its share price, and implements PooledFund:   *)
(* for all holders, managers, amounts and bounds.                          *)
(***************************************************************************)
EXTENDS Vault, MathProofs

(* A USDC or share transfer that can be made moves the amount and nothing  *)
(* else, and leaves no account in debt.                                    *)
LEMMA TransferMoves ==
    ASSUME NEW A, NEW ledger \in [A -> Nat], NEW from \in A, NEW to \in A,
           NEW amount \in Int, CanTransfer(ledger, from, amount)
    PROVE  /\ Transfer(ledger, from, to, amount) \in [A -> Nat]
           /\ \A a \in A : Transfer(ledger, from, to, amount)[a] =
                  ledger[a] - (IF a = from THEN amount ELSE 0)
                            + (IF a = to THEN amount ELSE 0)
BY DEF CanTransfer, Transfer, Credit

(* It leaves the total as it was. *)
LEMMA TransferKeepsTotal ==
    ASSUME NEW A, IsFiniteSet(A), NEW ledger \in [A -> Nat], NEW from \in A, NEW to \in A,
           NEW amount \in Int, CanTransfer(ledger, from, amount)
    PROVE  Total(Transfer(ledger, from, to, amount)) = Total(ledger)
<1> DEFINE paid == [ledger EXCEPT ![from] = ledger[from] - amount]
           done == [paid EXCEPT ![to] = paid[to] + amount]
<1>1. ledger[from] - amount \in Nat /\ amount \in Nat
  BY DEF CanTransfer
<1>2. /\ paid \in [A -> Nat] /\ paid[from] = ledger[from] - amount
      /\ \A a \in A \ {from} : paid[a] = ledger[a]
  BY <1>1
<1>3. Transfer(ledger, from, to, amount) = done
  BY <1>1 DEF Transfer, Credit
<1> HIDE DEF paid
<1>4. /\ done \in [A -> Nat] /\ done[to] = paid[to] + amount
      /\ \A a \in A \ {to} : done[a] = paid[a]
  BY <1>1, <1>2
<1> HIDE DEF done
<1>5. Total(paid) = Total(ledger) - ledger[from] + paid[from]
  BY <1>2, TotalUpdate
<1>6. Total(done) = Total(paid) - paid[to] + done[to]
  BY <1>2, <1>4, TotalUpdate
<1>7. /\ Total(ledger) \in Nat /\ Total(paid) \in Nat
      /\ ledger[from] \in Nat /\ paid[to] \in Nat
  BY <1>2, UnitsFinite
<1> QED
  BY <1>1, <1>2, <1>3, <1>4, <1>5, <1>6, <1>7

(* The facts on constants that the steps below use. *)
LEMMA Accounts ==
    /\ IsFiniteSet(Holder) /\ Holder \subseteq Account /\ Manager \subseteq Account
    /\ VaultAddr \in Account /\ VaultAddr \notin Holder /\ VaultAddr \notin Manager
BY HolderAssumption DEF Account

(***************************************************************************)
(* The inductive invariant.  totalShares stays a natural number only       *)
(* because no holder can own more than the supply, which is what           *)
(* SharesAccountedFor adds to the types.                                   *)
(***************************************************************************)
Books == VaultTypeOK /\ SharesAccountedFor /\ Solvent

LEMMA InitBooks == VaultInit => Books
<1> SUFFICES ASSUME VaultInit PROVE Books
  OBVIOUS
<1>1. VaultTypeOK
  BY Accounts, AmountAssumption, LedgerAssumption DEF VaultInit, VaultTypeOK, NoAllowance
<1>2. SharesAccountedFor
  <2>1. balance \in [Holder -> Nat] /\ \A h \in Holder : balance[h] = 0
    BY DEF VaultInit
  <2>2. Total(balance) = 0
    BY <2>1, Accounts, TotalBounds
  <2> QED
    BY <2>2 DEF SharesAccountedFor, VaultInit
<1>3. Solvent
  BY HolderAssumption, Accounts DEF VaultInit, Solvent, Account
<1> QED
  BY <1>1, <1>2, <1>3 DEF Books

-----------------------------------------------------------------------------
(* The share ledger, whichever entry point moves it. *)

LEMMA MintKeepsShares ==
    ASSUME VaultTypeOK, SharesAccountedFor, NEW to \in Holder, NEW amount \in Nat,
           MintShares(to, amount)
    PROVE  totalShares' \in Nat /\ balance' \in [Holder -> Nat] /\ SharesAccountedFor'
<1>1. /\ balance \in [Holder -> Nat] /\ balance' \in [Holder -> Nat]
      /\ balance'[to] = balance[to] + amount
      /\ \A h \in Holder \ {to} : balance'[h] = balance[h]
  BY DEF VaultTypeOK, MintShares
<1>2. Total(balance') = Total(balance) - balance[to] + balance'[to]
  BY <1>1, Accounts, TotalUpdate
<1>3. /\ Total(balance) \in Nat /\ Total(balance') \in Nat
      /\ totalShares = Total(balance) /\ totalShares' = totalShares + amount
  BY <1>1, Accounts, UnitsFinite DEF SharesAccountedFor, MintShares
<1>4. balance[to] \in Nat
  BY <1>1
<1> QED
  BY <1>1, <1>2, <1>3, <1>4 DEF SharesAccountedFor

LEMMA BurnKeepsShares ==
    ASSUME VaultTypeOK, SharesAccountedFor, NEW from \in Holder, NEW amount \in Nat,
           BurnShares(from, amount)
    PROVE  totalShares' \in Nat /\ balance' \in [Holder -> Nat] /\ SharesAccountedFor'
<1>1. /\ balance \in [Holder -> Nat] /\ balance' \in [Holder -> Nat]
      /\ balance'[from] = balance[from] - amount
      /\ \A h \in Holder \ {from} : balance'[h] = balance[h]
  BY DEF VaultTypeOK, BurnShares
<1>2. Total(balance') = Total(balance) - balance[from] + balance'[from]
  BY <1>1, Accounts, TotalUpdate
<1>3. /\ Total(balance) \in Nat /\ Total(balance') \in Nat
      /\ totalShares = Total(balance) /\ totalShares' = totalShares - amount
  BY <1>1, Accounts, UnitsFinite DEF SharesAccountedFor, BurnShares
<1>4. balance[from] \in Nat
  BY <1>1
<1> QED
  BY <1>1, <1>2, <1>3, <1>4 DEF SharesAccountedFor

LEMMA MoveKeepsShares ==
    ASSUME VaultTypeOK, SharesAccountedFor, NEW from \in Holder, NEW to \in Holder,
           NEW amount \in Int, MoveShares(from, to, amount), UNCHANGED totalShares
    PROVE  balance' \in [Holder -> Nat] /\ SharesAccountedFor'
<1>1. balance \in [Holder -> Nat] /\ CanTransfer(balance, from, amount)
  BY DEF VaultTypeOK, MoveShares, CanTransfer
<1>2. balance' \in [Holder -> Nat]
  BY <1>1, TransferMoves DEF MoveShares
<1>3. Total(balance') = Total(balance)
  BY <1>1, Accounts, TransferKeepsTotal DEF MoveShares
<1> QED
  BY <1>2, <1>3 DEF SharesAccountedFor

LEMMA SpendKeepsType ==
    ASSUME VaultTypeOK, NEW from \in Holder, NEW spender \in Holder, NEW amount \in Nat,
           SpendAllowance(from, spender, amount)
    PROVE  allowance' \in [Holder \X Holder -> [amount : Nat, expiration : Nat]]
<1> DEFINE live == LiveAllowance(from, spender)
<1>1. <<from, spender>> \in Holder \X Holder
  OBVIOUS
<1>2. live \in [amount : Nat, expiration : Nat]
  BY <1>1 DEF VaultTypeOK, LiveAllowance, NoAllowance
<1>3. live.amount >= amount
      /\ allowance' = [allowance EXCEPT ![<<from, spender>>] =
                           [amount |-> live.amount - amount, expiration |-> live.expiration]]
  BY DEF SpendAllowance
<1> HIDE DEF live
<1>4. [amount |-> live.amount - amount, expiration |-> live.expiration] \in [amount : Nat, expiration : Nat]
  BY <1>2, <1>3
<1> QED
  BY <1>1, <1>3, <1>4 DEF VaultTypeOK

-----------------------------------------------------------------------------
(* LP money. *)

LEMMA TakeInKeepsBooks ==
    ASSUME Books, NEW from \in Holder, NEW receiver \in Holder,
           NEW assets \in Int, NEW shares \in Int, TakeIn(from, assets, shares, receiver)
    PROVE  Books'
<1>1. shares \in Nat /\ assets \in Nat /\ totalAssets' = totalAssets + assets
  BY DEF TakeIn
<1>2. totalShares' \in Nat /\ balance' \in [Holder -> Nat] /\ SharesAccountedFor'
  BY <1>1, MintKeepsShares DEF Books, TakeIn
<1>3. /\ usdc' \in [Account -> Nat]
      /\ usdc'[VaultAddr] = usdc[VaultAddr] + assets
  <2>1. /\ usdc \in [Account -> Nat] /\ from \in Account /\ from # VaultAddr
        /\ CanTransfer(usdc, from, assets)
        /\ usdc' = Transfer(usdc, from, VaultAddr, assets)
    BY Accounts DEF Books, VaultTypeOK, TakeIn
  <2> QED
    BY <2>1, <1>1, Accounts, TransferMoves
<1>4. lastDeposit' \in [Holder -> Nat]
  BY DEF Books, VaultTypeOK, TakeIn
<1>5. VaultTypeOK'
  BY <1>1, <1>2, <1>3, <1>4 DEF Books, VaultTypeOK, TakeIn, vaultConfig
<1>6. Solvent'
  BY <1>1, <1>3, Accounts DEF Books, VaultTypeOK, Solvent
<1> QED
  BY <1>2, <1>5, <1>6 DEF Books

LEMMA PayOutKeepsBooks ==
    ASSUME Books, NEW owner \in Holder, NEW receiver \in Account,
           NEW assets \in Int, NEW shares \in Nat, PayOut(owner, assets, shares, receiver)
    PROVE  Books'
<1>1. assets \in Nat /\ totalAssets' = totalAssets - assets /\ totalAssets' \in Nat
  BY DEF PayOut, CanTransfer, Books, VaultTypeOK
<1>2. totalShares' \in Nat /\ balance' \in [Holder -> Nat] /\ SharesAccountedFor'
  BY BurnKeepsShares DEF Books, PayOut
<1>3. /\ usdc' \in [Account -> Nat]
      /\ usdc'[VaultAddr] >= usdc[VaultAddr] - assets
  <2>1. /\ usdc \in [Account -> Nat] /\ usdc[VaultAddr] \in Nat
        /\ CanTransfer(usdc, VaultAddr, assets)
        /\ usdc' = Transfer(usdc, VaultAddr, receiver, assets)
    BY Accounts DEF Books, VaultTypeOK, PayOut
  <2>2. /\ usdc' \in [Account -> Nat]
        /\ usdc'[VaultAddr] = usdc[VaultAddr] - assets
                                 + (IF VaultAddr = receiver THEN assets ELSE 0)
    BY <2>1, Accounts, TransferMoves
  <2> QED
    BY <2>1, <2>2, <1>1
<1>4. VaultTypeOK'
  BY <1>1, <1>2, <1>3 DEF Books, VaultTypeOK, PayOut, vaultConfig
<1>5. Solvent'
  BY <1>1, <1>3, Accounts DEF Books, VaultTypeOK, Solvent
<1> QED
  BY <1>2, <1>4, <1>5 DEF Books

(* The conversions have the types the two lemmas ask for. *)
LEMMA ConversionTypes ==
    ASSUME NEW x \in Int, NEW total \in Nat, NEW supply \in Nat
    PROVE  /\ AssetsToShares(x, total, supply) \in Int
           /\ SharesToAssets(x, total, supply) \in Int
           /\ x > 0 => SharesToBurn(x, total, supply) \in Nat
<1>1. \A y \in Int : /\ AssetsToShares(y, total, supply) \in Int
                     /\ SharesToAssets(y, total, supply) \in Int
                     /\ y >= 0 => AssetsToShares(y, total, supply) >= 0
  <2> SUFFICES ASSUME NEW y \in Int
               PROVE  /\ AssetsToShares(y, total, supply) \in Int
                      /\ SharesToAssets(y, total, supply) \in Int
                      /\ y >= 0 => AssetsToShares(y, total, supply) >= 0
    OBVIOUS
  <2>1. y * supply \in Int /\ y * total \in Int /\ (y >= 0 => y * supply >= 0)
    OBVIOUS
  <2>2. supply # 0 => (y * total) \div supply \in Int
    BY <2>1
  <2>3. total # 0 => /\ (y * supply) \div total \in Int
                     /\ y * supply >= 0 => (y * supply) \div total >= 0
    BY <2>1
  <2> QED
    BY <2>1, <2>2, <2>3 DEF AssetsToShares, SharesToAssets, MulDivFloor
<1> QED
  BY <1>1 DEF SharesToBurn

-----------------------------------------------------------------------------
(* One step per action. *)

LEMMA ShareTokenKeepsBooks == Books /\ ShareTokenStep => Books'
<1> SUFFICES ASSUME Books, NEW from \in Holder, NEW other \in Holder, ShareTokenStep
             PROVE  Books'
  BY DEF ShareTokenStep
<1> USE DEF Books
<1>1. ASSUME NEW f \in Holder, NEW s \in Holder, NEW amount \in 0 .. MaxAllowance,
             NEW expiration \in FirstLedger .. LastLedger, Approve(f, s, amount, expiration)
      PROVE  Books'
  <2>1. amount \in Nat /\ expiration \in Nat /\ <<f, s>> \in Holder \X Holder
    BY AmountAssumption, LedgerAssumption
  <2>2. allowance' \in [Holder \X Holder -> [amount : Nat, expiration : Nat]]
    BY <1>1, <2>1 DEF Approve, VaultTypeOK
  <2>3. UNCHANGED <<usdc, sequence, fund, lastDeposit, badDebtPool, vaultConfig>>
    BY <1>1 DEF Approve
  <2> QED
    BY <2>2, <2>3 DEF VaultTypeOK, SharesAccountedFor, Solvent, fund, vaultConfig
<1>2. ASSUME NEW f \in Holder, NEW to \in Holder, NEW amount \in Amount,
             TransferShares(f, to, amount)
      PROVE  Books'
  <2>1. balance' \in [Holder -> Nat] /\ SharesAccountedFor'
    BY <1>2, AmountAssumption, MoveKeepsShares DEF TransferShares
  <2> QED
    BY <1>2, <2>1 DEF TransferShares, VaultTypeOK, Solvent, vaultConfig
<1>3. ASSUME NEW s \in Holder, NEW f \in Holder, NEW to \in Holder, NEW amount \in Amount,
             TransferFrom(s, f, to, amount)
      PROVE  Books'
  <2>1. amount \in Nat
    BY <1>3, AmountAssumption DEF TransferFrom, MoveShares
  <2>2. balance' \in [Holder -> Nat] /\ SharesAccountedFor'
    BY <1>3, <2>1, MoveKeepsShares DEF TransferFrom
  <2>3. allowance' \in [Holder \X Holder -> [amount : Nat, expiration : Nat]]
    BY <1>3, <2>1, SpendKeepsType DEF TransferFrom
  <2> QED
    BY <1>3, <2>2, <2>3 DEF TransferFrom, VaultTypeOK, Solvent, vaultConfig
<1>4. ASSUME NEW f \in Holder, NEW amount \in Amount, Burn(f, amount)
      PROVE  Books'
  <2>1. amount \in Nat
    BY <1>4, AmountAssumption DEF Burn
  <2>2. totalShares' \in Nat /\ balance' \in [Holder -> Nat] /\ SharesAccountedFor'
    BY <1>4, <2>1, BurnKeepsShares DEF Burn
  <2> QED
    BY <1>4, <2>2 DEF Burn, VaultTypeOK, Solvent, vaultConfig
<1>5. ASSUME NEW s \in Holder, NEW f \in Holder, NEW amount \in Amount,
             BurnFrom(s, f, amount)
      PROVE  Books'
  <2>1. amount \in Nat
    BY <1>5, AmountAssumption DEF BurnFrom
  <2>2. totalShares' \in Nat /\ balance' \in [Holder -> Nat] /\ SharesAccountedFor'
    BY <1>5, <2>1, BurnKeepsShares DEF BurnFrom
  <2>3. allowance' \in [Holder \X Holder -> [amount : Nat, expiration : Nat]]
    BY <1>5, <2>1, SpendKeepsType DEF BurnFrom
  <2> QED
    BY <1>5, <2>2, <2>3 DEF BurnFrom, VaultTypeOK, Solvent, vaultConfig
<1> HIDE DEF Books
<1> QED
  BY <1>1, <1>2, <1>3, <1>4, <1>5 DEF ShareTokenStep

LEMMA LpKeepsBooks == Books /\ LpStep => Books'
<1> SUFFICES ASSUME Books, NEW from \in Holder, NEW amount \in Amount, NEW r \in Account,
                    \/ r \in Holder /\ (Deposit(from, amount, r) \/ Mint(from, amount, r))
                    \/ Redeem(from, amount, r) \/ Withdraw(from, amount, r)
             PROVE  Books'
  BY Accounts DEF LpStep
<1>1. amount \in Int /\ totalAssets \in Nat /\ totalShares \in Nat
  BY AmountAssumption DEF Books, VaultTypeOK
<1>2. /\ AssetsToShares(amount, totalAssets, totalShares) \in Int
      /\ SharesToAssets(amount, totalAssets, totalShares) \in Int
      /\ amount > 0 => SharesToBurn(amount, totalAssets, totalShares) \in Nat
  BY <1>1, ConversionTypes
<1>3. CASE r \in Holder /\ Deposit(from, amount, r)
  BY <1>1, <1>2, <1>3, TakeInKeepsBooks DEF Deposit
<1>4. CASE r \in Holder /\ Mint(from, amount, r)
  BY <1>1, <1>2, <1>4, TakeInKeepsBooks DEF Mint
<1>5. CASE Redeem(from, amount, r)
  BY <1>1, <1>2, <1>5, PayOutKeepsBooks DEF Redeem
<1>6. CASE Withdraw(from, amount, r)
  BY <1>1, <1>2, <1>6, PayOutKeepsBooks DEF Withdraw
<1> QED
  BY <1>3, <1>4, <1>5, <1>6

(* A settlement, for any collateral and result the PositionManager names. *)
LEMMA SettleKeepsBooks ==
    ASSUME Books, NEW manager \in Manager, NEW trader \in Holder,
           NEW amount \in Int, NEW net \in Int, Settle(manager, trader, amount, net)
    PROVE  Books'
<1> DEFINE ledger == Transfer(usdc, manager, VaultAddr, amount)
           payout == amount + net
<1>1. /\ totalAssets \in Nat /\ usdc \in [Account -> Nat] /\ usdc[VaultAddr] \in Nat
      /\ manager \in Account /\ manager # VaultAddr
      /\ trader \in Account /\ trader # VaultAddr
      /\ usdc[VaultAddr] >= totalAssets
  BY Accounts DEF Books, VaultTypeOK, Solvent
<1>2. /\ CanTransfer(usdc, manager, amount) /\ payout >= 0
      /\ payout > 0 => CanTransfer(ledger, VaultAddr, payout)
      /\ usdc' = IF payout > 0 THEN Transfer(ledger, VaultAddr, trader, payout)
                               ELSE ledger
      /\ totalAssets' = totalAssets - net /\ totalAssets' \in Nat
      /\ UNCHANGED <<sequence, totalShares, balance, allowance, lastDeposit, badDebtPool,
                     vaultConfig>>
  BY <1>1 DEF Settle, ReturnCollateralWithPnl
<1>3. payout \in Int /\ payout = amount + net
  OBVIOUS
<1>4. ledger \in [Account -> Nat] /\ ledger[VaultAddr] = usdc[VaultAddr] + amount
  BY <1>1, <1>2, Accounts, TransferMoves
<1> HIDE DEF ledger, payout
<1>5. usdc' \in [Account -> Nat] /\ usdc'[VaultAddr] = usdc[VaultAddr] - net
  <2>1. CASE payout > 0
    <3>1. /\ CanTransfer(ledger, VaultAddr, payout)
          /\ usdc' = Transfer(ledger, VaultAddr, trader, payout)
      BY <1>2, <2>1
    <3>2. usdc' \in [Account -> Nat] /\ usdc'[VaultAddr] = ledger[VaultAddr] - payout
      BY <1>1, <1>3, <1>4, <3>1, Accounts, TransferMoves
    <3> QED
      BY <1>1, <1>3, <1>4, <3>2
  <2>2. CASE ~(payout > 0)
    BY <1>1, <1>2, <1>3, <1>4, <2>2
  <2> QED
    BY <2>1, <2>2
<1>6. VaultTypeOK'
  BY <1>2, <1>5 DEF Books, VaultTypeOK, vaultConfig
<1>7. Solvent'
  BY <1>1, <1>2, <1>5 DEF Solvent
<1>8. SharesAccountedFor'
  BY <1>2 DEF Books, SharesAccountedFor
<1> QED
  BY <1>6, <1>7, <1>8 DEF Books

LEMMA ManagerKeepsBooks == Books /\ ManagerStep => Books'
<1> SUFFICES ASSUME Books, NEW manager \in Manager, NEW amount \in Amount,
                    \/ TakeCollateral(manager, amount)
                    \/ \E pair \in PairIndex : RecordBadDebt(manager, pair, amount)
                    \/ \E trader \in Holder, net \in Pnl : Settle(manager, trader, amount, net)
             PROVE  Books'
  BY DEF ManagerStep
<1>1. /\ amount \in Int /\ totalAssets \in Nat /\ totalShares \in Nat
      /\ usdc \in [Account -> Nat] /\ usdc[VaultAddr] \in Nat
      /\ manager \in Account /\ manager # VaultAddr
      /\ usdc[VaultAddr] >= totalAssets
  BY AmountAssumption, Accounts DEF Books, VaultTypeOK, Solvent
<1>2. CASE TakeCollateral(manager, amount)
  <2>1. /\ CanTransfer(usdc, VaultAddr, amount)
        /\ usdc' = Transfer(usdc, VaultAddr, manager, amount)
        /\ totalAssets' = totalAssets - amount /\ totalAssets' \in Nat
    BY <1>1, <1>2 DEF TakeCollateral
  <2>2. usdc' \in [Account -> Nat] /\ usdc'[VaultAddr] = usdc[VaultAddr] - amount
    BY <1>1, <2>1, Accounts, TransferMoves
  <2>3. VaultTypeOK'
    BY <1>2, <2>1, <2>2 DEF Books, VaultTypeOK, TakeCollateral, vaultConfig
  <2>4. Solvent'
    BY <1>1, <2>1, <2>2 DEF Solvent
  <2>5. SharesAccountedFor'
    BY <1>2 DEF Books, SharesAccountedFor, TakeCollateral
  <2> QED
    BY <2>3, <2>4, <2>5 DEF Books
<1>3. ASSUME NEW pair \in PairIndex, RecordBadDebt(manager, pair, amount)
      PROVE  Books'
  <2>1. amount \in Nat /\ totalAssets' \in Nat /\ totalAssets' <= totalAssets
    BY <1>1, <1>3 DEF RecordBadDebt, FloorAtZero
  <2>2. badDebtPool' \in [PairIndex -> Nat]
    BY <1>3, <2>1 DEF Books, VaultTypeOK, RecordBadDebt
  <2>3. VaultTypeOK'
    BY <1>3, <2>1, <2>2 DEF Books, VaultTypeOK, RecordBadDebt, vaultConfig
  <2>4. Solvent'
    BY <1>1, <1>3, <2>1 DEF Solvent, RecordBadDebt
  <2>5. SharesAccountedFor'
    BY <1>3 DEF Books, SharesAccountedFor, RecordBadDebt
  <2> QED
    BY <2>3, <2>4, <2>5 DEF Books
<1>4. ASSUME NEW trader \in Holder, NEW net \in Pnl, Settle(manager, trader, amount, net)
      PROVE  Books'
  BY <1>1, <1>4, AmountAssumption, SettleKeepsBooks
<1> QED
  BY <1>2, <1>3, <1>4

LEMMA AdminKeepsBooks == Books /\ (VaultAdminStep \/ CloseLedger) => Books'
<1> SUFFICES ASSUME Books, VaultAdminStep \/ CloseLedger PROVE Books'
  OBVIOUS
<1> USE DEF Books, VaultTypeOK, Solvent, SharesAccountedFor, fund
<1>1. ASSUME NEW ledgers \in LockLedgers, SetWithdrawLock(ledgers)
      PROVE  Books'
  BY <1>1, AmountAssumption DEF SetWithdrawLock
<1>2. ASSUME NEW manager \in Manager, SetPositionManager(manager)
      PROVE  Books'
  BY <1>2 DEF SetPositionManager
<1>3. CASE Pause
  BY <1>3 DEF Pause
<1>4. CASE Unpause
  BY <1>4 DEF Unpause
<1>5. CASE CloseLedger
  BY <1>5 DEF CloseLedger, AdvanceSequence, vaultVars, vaultConfig
<1> QED
  BY <1>1, <1>2, <1>3, <1>4, <1>5 DEF VaultAdminStep

LEMMA BooksInductive == Books /\ [VaultNext]_vaultState => Books'
<1> SUFFICES ASSUME Books, [VaultNext]_vaultState PROVE Books'
  OBVIOUS
<1>1. CASE UNCHANGED vaultState
  BY <1>1 DEF vaultState, vaultVars, fund, vaultConfig, Books, VaultTypeOK, Solvent, SharesAccountedFor
<1> QED
  BY <1>1, ShareTokenKeepsBooks, LpKeepsBooks, ManagerKeepsBooks, AdminKeepsBooks DEF VaultNext

(* In every reachable state the variables have their types, the share      *)
(* supply is what the holders own, and the vault's USDC covers its assets. *)
THEOREM BooksKept == VaultSpec => [](VaultTypeOK /\ SharesAccountedFor /\ Solvent)
<1>1. Books => VaultTypeOK /\ SharesAccountedFor /\ Solvent
  BY DEF Books
<1> QED
  BY InitBooks, BooksInductive, <1>1, PTL DEF VaultSpec

(* The types, as a theorem of their own. *)
THEOREM TypeInvariant == VaultSpec => []VaultTypeOK
BY BooksKept, PTL

(* The supply redeem and withdraw divide by is exactly what holders own. *)
THEOREM SharesTheorem == VaultSpec => []SharesAccountedFor
BY BooksKept, PTL

(* The vault can always pay the assets it accounts to its LPs. *)
THEOREM SolvencyTheorem == VaultSpec => []Solvent
BY BooksKept, PTL

-----------------------------------------------------------------------------
(***************************************************************************)
(* The share price.  The products below are of variables, which the        *)
(* provers handle best when they are named and opaque, so each rounding    *)
(* rule is a lemma about plain integers.                                   *)
(***************************************************************************)

(* What redeem pays for shares is worth no more than the shares. *)
LEMMA RedeemPaysAtMost ==
    ASSUME NEW shares \in Nat, NEW total \in Nat, NEW supply \in Nat, supply > 0
    PROVE  /\ SharesToAssets(shares, total, supply) \in Int
           /\ supply * SharesToAssets(shares, total, supply) <= shares * total
<1>1. shares * total \in Int
  OBVIOUS
<1> QED
  BY <1>1, FloorDivision DEF SharesToAssets, MulDivFloor

(* What deposit mints for assets is worth no more than the assets. *)
LEMMA DepositMintsAtMost ==
    ASSUME NEW assets \in Nat, NEW total \in Nat, NEW supply \in Nat, supply > 0
    PROVE  /\ AssetsToShares(assets, total, supply) \in Int
           /\ total > 0 => total * AssetsToShares(assets, total, supply) <= assets * supply
<1>1. assets * supply \in Int
  OBVIOUS
<1> QED
  BY <1>1, FloorDivision DEF AssetsToShares, MulDivFloor

(* What withdraw burns is worth at least the assets it pays: adding one     *)
(* share when the floor falls short is enough to round up.                 *)
LEMMA WithdrawBurnsAtLeast ==
    ASSUME NEW assets \in Nat, NEW total \in Nat, NEW supply \in Nat, supply > 0, total > 0
    PROVE  /\ SharesToBurn(assets, total, supply) \in Int
           /\ total * SharesToBurn(assets, total, supply) >= assets * supply
<1> DEFINE n == assets * supply
           f == n \div total
<1>1. n \in Int
  OBVIOUS
<1> HIDE DEF n
<1>2. f \in Int /\ total * f <= n /\ n < total * f + total
  BY <1>1, FloorDivision
<1> HIDE DEF f
<1>3. AssetsToShares(assets, total, supply) = f
  BY DEF AssetsToShares, MulDivFloor, n, f
<1> DEFINE m == f * total
           g == m \div supply
<1>4. m \in Int /\ m = total * f
  BY <1>2
<1> HIDE DEF m
<1>5. g \in Int /\ supply * g <= m
  BY <1>4, FloorDivision
<1> HIDE DEF g
<1>6. SharesToAssets(f, total, supply) = g
  BY DEF SharesToAssets, MulDivFloor, m, g
<1>7. CASE g < assets
  <2>1. SharesToBurn(assets, total, supply) = f + 1
    BY <1>3, <1>6, <1>7 DEF SharesToBurn
  <2>2. total * (f + 1) = total * f + total
    BY <1>2
  <2> QED
    BY <1>2, <2>1, <2>2 DEF n
<1>8. CASE ~(g < assets)
  <2>1. SharesToBurn(assets, total, supply) = f
    BY <1>3, <1>6, <1>8 DEF SharesToBurn
  <2>2. supply * assets <= supply * g
    BY <1>5, <1>8
  <2>3. supply * g \in Int /\ total * f \in Int /\ supply * assets = assets * supply
    BY <1>2, <1>5
  <2> QED
    BY <1>2, <1>4, <1>5, <2>1, <2>2, <2>3
<1> QED
  BY <1>7, <1>8

(* If the assets that leave are worth at most the shares that leave, the    *)
(* price of the rest does not fall; likewise for what comes in.            *)
LEMMA FairExit ==
    ASSUME NEW total \in Nat, NEW supply \in Nat, NEW assets \in Int, NEW shares \in Int,
           supply * assets <= shares * total
    PROVE  (total - assets) * supply >= total * (supply - shares)
OBVIOUS

LEMMA FairEntry ==
    ASSUME NEW total \in Nat, NEW supply \in Nat, NEW assets \in Int, NEW shares \in Int,
           total * shares <= assets * supply
    PROVE  (total + assets) * supply >= total * (supply + shares)
OBVIOUS

LEMMA PayOutKeepsPrice ==
    ASSUME Books, NEW owner \in Holder, NEW receiver \in Account,
           NEW assets \in Int, NEW shares \in Int, PayOut(owner, assets, shares, receiver),
           totalShares * assets <= shares * totalAssets
    PROVE  PriceKept
<1>1. totalAssets \in Nat /\ totalShares \in Nat
  BY DEF Books, VaultTypeOK
<1>2. totalAssets' = totalAssets - assets /\ totalShares' = totalShares - shares
  BY DEF PayOut, BurnShares
<1> QED
  BY <1>1, <1>2, FairExit DEF PriceKept

LEMMA ExitStep == Books /\ [VaultNext]_vaultState => [totalShares' < totalShares => PriceKept]_vaultState
<1> SUFFICES ASSUME Books, VaultNext, totalShares' < totalShares, totalShares > 0
             PROVE  PriceKept
  BY DEF PriceKept
<1>1. totalAssets \in Nat /\ totalShares \in Nat /\ totalShares' \in Nat /\ totalAssets' \in Nat
  BY BooksInductive DEF Books, VaultTypeOK
<1>2. ASSUME totalAssets' = totalAssets
      PROVE  PriceKept
  <2>1. totalShares' <= totalShares
    BY <1>1
  <2>2. totalAssets * totalShares >= totalAssets * totalShares'
    BY ONLY <1>1, <2>1, TimesMonotone
  <2> QED
    BY <1>2, <2>2 DEF PriceKept
<1>3. CASE ShareTokenStep
  BY <1>2, <1>3 DEF ShareTokenStep, Approve, TransferShares, TransferFrom, Burn, BurnFrom, fund
<1>4. CASE LpStep
  <2>1. PICK from \in Holder, amount \in Amount, r \in Account :
            \/ r \in Holder /\ (Deposit(from, amount, r) \/ Mint(from, amount, r))
            \/ Redeem(from, amount, r) \/ Withdraw(from, amount, r)
    BY <1>4, Accounts DEF LpStep
  <2>2. amount \in Int
    BY AmountAssumption
  <2>3. /\ AssetsToShares(amount, totalAssets, totalShares) \in Int
        /\ SharesToAssets(amount, totalAssets, totalShares) \in Int
    BY <1>1, <2>2, ConversionTypes
  <2>4. CASE Deposit(from, amount, r) \/ Mint(from, amount, r)
    <3>1. totalShares' > totalShares
      BY <1>1, <2>2, <2>3, <2>4 DEF Deposit, Mint, TakeIn, MintShares
    <3> QED
      BY <1>1, <3>1
  <2>5. CASE Redeem(from, amount, r)
    <3>1. amount \in Nat
      BY <2>2, <2>5 DEF Redeem
    <3>2. totalShares * SharesToAssets(amount, totalAssets, totalShares) <= amount * totalAssets
      BY <1>1, <3>1, RedeemPaysAtMost
    <3> QED
      BY <2>2, <2>3, <2>5, <3>2, PayOutKeepsPrice DEF Redeem
  <2>6. CASE Withdraw(from, amount, r)
    <3>1. amount \in Nat /\ totalAssets > 0
      BY <1>1, <2>2, <2>6 DEF Withdraw, PayOut
    <3> DEFINE burned == SharesToBurn(amount, totalAssets, totalShares)
    <3>2. burned \in Int /\ totalAssets * burned >= amount * totalShares
      BY <1>1, <3>1, WithdrawBurnsAtLeast
    <3>3. PayOut(from, amount, burned, r)
      BY <2>6 DEF Withdraw
    <3> HIDE DEF burned
    <3>4. totalShares * amount <= burned * totalAssets
      BY <1>1, <2>2, <3>2
    <3> QED
      BY <2>2, <3>2, <3>3, <3>4, PayOutKeepsPrice
  <2> QED
    BY <2>1, <2>4, <2>5, <2>6
<1>5. CASE ManagerStep
  BY <1>1, <1>5 DEF ManagerStep, TakeCollateral, RecordBadDebt, Settle, ReturnCollateralWithPnl
<1>6. CASE VaultAdminStep \/ CloseLedger
  BY <1>1, <1>6 DEF VaultAdminStep, SetWithdrawLock, SetPositionManager, Pause, Unpause,
     CloseLedger, vaultVars, fund
<1> QED
  BY <1>3, <1>4, <1>5, <1>6 DEF VaultNext

(* LPs who leave, by redeem, withdraw or burn, never lower the price of     *)
(* the shares of those who stay, whatever the pool's size and history.     *)
THEOREM ExitTheorem == VaultSpec => ExitsKeepSharePrice
BY InitBooks, BooksInductive, ExitStep, PTL DEF VaultSpec, ExitsKeepSharePrice

LEMMA DepositStep ==
    ASSUME Books, NEW from \in Holder, NEW receiver \in Holder, NEW assets \in Amount,
           Deposit(from, assets, receiver)
    PROVE  PriceKept
<1> SUFFICES ASSUME totalShares > 0 PROVE PriceKept
  BY DEF PriceKept
<1> DEFINE minted == AssetsToShares(assets, totalAssets, totalShares)
<1>1. totalAssets \in Nat /\ totalShares \in Nat /\ assets \in Nat
  BY AmountAssumption DEF Books, VaultTypeOK, Deposit, TakeIn
<1>2. /\ minted \in Int
      /\ totalAssets > 0 => totalAssets * minted <= assets * totalShares
  BY <1>1, DepositMintsAtMost
<1>3. totalAssets' = totalAssets + assets /\ totalShares' = totalShares + minted
  BY DEF Deposit, TakeIn, MintShares
<1> HIDE DEF minted
<1>4. CASE totalAssets > 0
  BY <1>1, <1>2, <1>3, <1>4, FairEntry DEF PriceKept
<1>5. CASE totalAssets = 0
  <2>1. totalAssets' * totalShares >= 0 /\ totalAssets * totalShares' = 0
    BY <1>1, <1>2, <1>3, <1>5
  <2> QED
    BY <2>1 DEF PriceKept
<1> QED
  BY <1>1, <1>4, <1>5

(* LPs who enter by deposit never lower the price of existing shares. *)
THEOREM DepositTheorem == VaultSpec => DepositsKeepSharePrice
<1> DEFINE Fair == totalShares' > totalShares =>
               \A from, receiver \in Holder, assets \in Amount :
                   Deposit(from, assets, receiver) => PriceKept
<1>1. Books => Fair
  BY DepositStep
<1> QED
  BY InitBooks, BooksInductive, <1>1, PTL DEF VaultSpec, DepositsKeepSharePrice

-----------------------------------------------------------------------------
(***************************************************************************)
(* The vault implements PooledFund: each of its steps is, on the share     *)
(* balances and the pool, a step of the fund or a stutter.                 *)
(***************************************************************************)

(* The supply the vault stores is the fund's supply. *)
LEMMA SupplyMapped == Books => Fund!Supply = totalShares
BY DEF Books, SharesAccountedFor, Fund!Supply, Fund!Total, Fund!Units, Fund!UnitsOf,
   Fund!Cardinality, Total, Units, UnitsOf, Cardinality

(* A fund that nobody joined yet. *)
LEMMA InitMapped == VaultInit => Fund!Init
BY DEF VaultInit, Fund!Init

(* Shares credited to one holder and assets taken in at the fair price are  *)
(* a join.                                                                  *)
LEMMA TakeInJoins ==
    ASSUME Books, NEW from \in Holder, NEW receiver \in Holder,
           NEW assets \in Int, NEW shares \in Int, TakeIn(from, assets, shares, receiver),
           IF totalAssets = 0 \/ totalShares = 0
             THEN assets = shares
             ELSE (assets + 1) * totalShares > shares * totalAssets
    PROVE  Fund!Join(receiver)
<1>1. /\ balance \in [Holder -> Nat] /\ totalAssets \in Nat
      /\ shares > 0 /\ assets > 0 /\ totalAssets' = totalAssets + assets
      /\ balance' = [balance EXCEPT ![receiver] = balance[receiver] + shares]
  BY DEF Books, VaultTypeOK, TakeIn, MintShares
<1>2. balance'[receiver] = balance[receiver] + shares /\ balance[receiver] \in Nat
  BY <1>1
<1>3. balance'[receiver] - balance[receiver] = shares /\ totalAssets' - totalAssets = assets
  BY <1>1, <1>2
<1>4. Fund!Restake(receiver)
  BY <1>1, <1>2 DEF Fund!Restake
<1> QED
  BY <1>1, <1>3, <1>4, SupplyMapped DEF Fund!Join

(* Shares burnt from one holder for assets worth no more are a leave. *)
LEMMA BurnLeaves ==
    ASSUME Books, NEW owner \in Holder, NEW assets \in Nat, NEW shares \in Nat,
           BurnShares(owner, shares), totalAssets' = totalAssets - assets,
           assets * totalShares <= shares * totalAssets
    PROVE  Fund!Leave(owner)
<1>1. /\ balance \in [Holder -> Nat] /\ totalAssets \in Nat /\ balance[owner] >= shares
      /\ balance' = [balance EXCEPT ![owner] = balance[owner] - shares]
  BY DEF Books, VaultTypeOK, BurnShares
<1>2. balance'[owner] = balance[owner] - shares /\ balance[owner] \in Nat
  BY <1>1
<1>3. balance[owner] - balance'[owner] = shares /\ totalAssets - totalAssets' = assets
  BY <1>1, <1>2
<1>4. Fund!Restake(owner)
  BY <1>1, <1>2 DEF Fund!Restake
<1> QED
  BY <1>3, <1>4, SupplyMapped DEF Fund!Leave

(* Shares moved between holders are passed on; to oneself, nothing moves. *)
LEMMA MovePasses ==
    ASSUME Books, NEW from \in Holder, NEW to \in Holder, NEW amount \in Int,
           MoveShares(from, to, amount), UNCHANGED totalAssets
    PROVE  [Fund!Next]_<<balance, totalAssets>>
<1>1. /\ balance \in [Holder -> Nat] /\ amount >= 0 /\ balance[from] >= amount
      /\ CanTransfer(balance, from, amount)
      /\ balance' = Transfer(balance, from, to, amount)
  BY DEF Books, VaultTypeOK, MoveShares, CanTransfer
<1>2. /\ balance' \in [Holder -> Nat]
      /\ \A h \in Holder : balance'[h] = balance[h] - (IF h = from THEN amount ELSE 0)
                                                    + (IF h = to THEN amount ELSE 0)
  BY <1>1, TransferMoves
<1>3. CASE from = to
  <2>1. \A h \in Holder : balance'[h] = balance[h]
    BY <1>1, <1>2, <1>3
  <2>2. balance' = balance
    BY <1>1, <1>2, <2>1
  <2> QED
    BY <2>2
<1>4. CASE from # to
  <2>1. balance[from] - balance'[from] = amount /\ balance'[from] \in Nat
    BY <1>1, <1>2, <1>4
  <2>2. \A h \in Holder : balance'[h] =
            [balance EXCEPT ![from] = @ - amount, ![to] = @ + amount][h]
    BY <1>1, <1>2, <1>4
  <2>3. balance' = [balance EXCEPT ![from] = @ - amount, ![to] = @ + amount]
    BY <1>1, <1>2, <2>2
  <2>4. Fund!Pass(from, to)
    BY <1>1, <1>4, <2>1, <2>3 DEF Fund!Pass
  <2> QED
    BY <2>4 DEF Fund!Next
<1> QED
  BY <1>3, <1>4

(* Deposit mints at most the fair number of shares. *)
LEMMA DepositJoins ==
    ASSUME Books, NEW from \in Holder, NEW receiver \in Holder, NEW assets \in Int,
           Deposit(from, assets, receiver)
    PROVE  Fund!Join(receiver)
<1> DEFINE shares == AssetsToShares(assets, totalAssets, totalShares)
<1>1. /\ totalAssets \in Nat /\ totalShares \in Nat /\ assets \in Nat
      /\ TakeIn(from, assets, shares, receiver)
  BY DEF Books, VaultTypeOK, Deposit, TakeIn
<1>2. shares \in Int
  BY <1>1, ConversionTypes
<1>3. CASE totalAssets = 0 \/ totalShares = 0
  <2>1. shares = assets
    BY <1>3 DEF AssetsToShares
  <2> QED
    BY <1>1, <1>2, <1>3, <2>1, TakeInJoins
<1>4. CASE totalAssets > 0 /\ totalShares > 0
  <2>1. totalAssets * shares <= assets * totalShares
    BY <1>1, <1>4, DepositMintsAtMost
  <2> HIDE DEF shares
  <2>2. (assets + 1) * totalShares > shares * totalAssets
    BY <1>1, <1>2, <1>4, <2>1
  <2> QED
    BY <1>1, <1>2, <1>4, <2>2, TakeInJoins
<1> QED
  BY <1>1, <1>3, <1>4

(* Mint charges less than one unit below the fair amount. *)
LEMMA MintJoins ==
    ASSUME Books, NEW from \in Holder, NEW receiver \in Holder, NEW shares \in Int,
           Mint(from, shares, receiver)
    PROVE  Fund!Join(receiver)
<1> DEFINE assets == SharesToAssets(shares, totalAssets, totalShares)
<1>1. /\ totalAssets \in Nat /\ totalShares \in Nat /\ shares \in Nat /\ assets > 0
      /\ TakeIn(from, assets, shares, receiver)
  BY DEF Books, VaultTypeOK, Mint, TakeIn
<1>2. assets \in Int
  BY <1>1, ConversionTypes
<1>3. CASE totalShares = 0
  <2>1. shares = assets
    BY <1>3 DEF SharesToAssets
  <2> QED
    BY <1>1, <1>2, <1>3, <2>1, TakeInJoins
<1>4. CASE totalShares > 0
  <2> DEFINE n == shares * totalAssets
  <2>1. n \in Int
    BY <1>1
  <2>2. assets = n \div totalShares
    BY <1>4 DEF SharesToAssets, MulDivFloor
  <2> HIDE DEF n, assets
  <2>3. totalShares * assets <= n /\ n < totalShares * assets + totalShares
    BY <1>1, <1>4, <2>1, <2>2, FloorDivision
  <2>4. totalAssets # 0
    <3> SUFFICES ASSUME totalAssets = 0 PROVE FALSE
      OBVIOUS
    <3>1. n = 0
      BY <1>1 DEF n
    <3>2. totalShares * assets > 0
      BY <1>1, <1>2, <1>4
    <3> QED
      BY <2>3, <3>1, <3>2, <1>1, <1>2
  <2>5. (assets + 1) * totalShares > shares * totalAssets
    BY <1>1, <1>2, <2>3 DEF n
  <2> QED
    BY <1>1, <1>2, <1>4, <2>4, <2>5, TakeInJoins
<1> QED
  BY <1>1, <1>3, <1>4

(* Redeem and withdraw pay at most what the burnt shares are worth. *)
LEMMA PayOutLeaves ==
    ASSUME Books, NEW owner \in Holder, NEW receiver \in Account, NEW amount \in Int,
           Redeem(owner, amount, receiver) \/ Withdraw(owner, amount, receiver)
    PROVE  Fund!Leave(owner)
<1>1. totalAssets \in Nat /\ totalShares \in Nat /\ amount \in Nat /\ amount > 0
  BY DEF Books, VaultTypeOK, Redeem, Withdraw
<1>2. CASE Redeem(owner, amount, receiver)
  <2> DEFINE assets == SharesToAssets(amount, totalAssets, totalShares)
  <2>1. /\ assets \in Nat /\ BurnShares(owner, amount)
        /\ totalAssets' = totalAssets - assets
    BY <1>1, <1>2, ConversionTypes DEF Redeem, PayOut, CanTransfer
  <2>2. assets * totalShares <= amount * totalAssets
    <3>1. CASE totalShares = 0
      BY <1>1, <2>1, <3>1
    <3>2. CASE totalShares > 0
      <4>1. totalShares * assets <= amount * totalAssets
        BY <1>1, <3>2, RedeemPaysAtMost
      <4> HIDE DEF assets
      <4> QED
        BY <1>1, <2>1, <4>1
    <3> QED
      BY <1>1, <3>1, <3>2
  <2> QED
    BY <1>1, <2>1, <2>2, BurnLeaves
<1>3. CASE Withdraw(owner, amount, receiver)
  <2> DEFINE shares == SharesToBurn(amount, totalAssets, totalShares)
  <2>1. /\ shares \in Nat /\ BurnShares(owner, shares)
        /\ totalAssets' = totalAssets - amount /\ totalAssets > 0
    BY <1>1, <1>3, ConversionTypes DEF Withdraw, PayOut
  <2>2. amount * totalShares <= shares * totalAssets
    <3>1. CASE totalShares = 0
      <4> HIDE DEF shares
      <4>1. shares * totalAssets >= 0
        BY <1>1, <2>1
      <4> QED
        BY <1>1, <3>1, <4>1
    <3>2. CASE totalShares > 0
      <4>1. totalAssets * shares >= amount * totalShares
        BY <1>1, <2>1, <3>2, WithdrawBurnsAtLeast
      <4> HIDE DEF shares
      <4> QED
        BY <1>1, <2>1, <4>1
    <3> QED
      BY <1>1, <3>1, <3>2
  <2> QED
    BY <1>1, <2>1, <2>2, BurnLeaves
<1> QED
  BY <1>2, <1>3

-----------------------------------------------------------------------------
(* The share token passes stakes on, or burns them for nothing. *)
LEMMA ShareTokenMapped ==
    ASSUME Books, ShareTokenStep
    PROVE  [Fund!Next]_<<balance, totalAssets>>
<1>1. PICK from \in Holder, other \in Holder :
        \/ \E amount \in 0 .. MaxAllowance, expiration \in FirstLedger .. LastLedger :
              Approve(from, other, amount, expiration)
        \/ \E amount \in Amount :
              \/ TransferShares(from, other, amount)
              \/ Burn(from, amount)
              \/ BurnFrom(other, from, amount)
              \/ \E to \in Holder : TransferFrom(other, from, to, amount)
  BY DEF ShareTokenStep
<1>2. CASE \E amount \in 0 .. MaxAllowance, expiration \in FirstLedger .. LastLedger :
              Approve(from, other, amount, expiration)
  BY <1>2 DEF Approve, fund
<1>3. ASSUME NEW amount \in Amount,
             TransferShares(from, other, amount)
               \/ \E to \in Holder : TransferFrom(other, from, to, amount)
      PROVE  [Fund!Next]_<<balance, totalAssets>>
  BY <1>3, AmountAssumption, MovePasses DEF TransferShares, TransferFrom
<1>4. ASSUME NEW amount \in Amount, Burn(from, amount) \/ BurnFrom(other, from, amount)
      PROVE  [Fund!Next]_<<balance, totalAssets>>
  <2>1. /\ totalAssets \in Nat /\ totalShares \in Nat /\ amount \in Nat
        /\ BurnShares(from, amount) /\ totalAssets' = totalAssets
    BY <1>4, AmountAssumption DEF Burn, BurnFrom, Books, VaultTypeOK
  <2>2. totalAssets' = totalAssets - 0 /\ 0 * totalShares <= amount * totalAssets
    BY <2>1
  <2>3. Fund!Leave(from)
    BY <2>1, <2>2, BurnLeaves
  <2> QED
    BY <2>3 DEF Fund!Next
<1> QED
  BY <1>1, <1>2, <1>3, <1>4

(* LPs join and leave. *)
LEMMA LpMapped ==
    ASSUME Books, LpStep
    PROVE  Fund!Next
<1>1. PICK from \in Holder, amount \in Amount, r \in Account :
        \/ r \in Holder /\ (Deposit(from, amount, r) \/ Mint(from, amount, r))
        \/ Redeem(from, amount, r) \/ Withdraw(from, amount, r)
  BY Accounts DEF LpStep
<1>2. amount \in Int
  BY AmountAssumption
<1>3. CASE r \in Holder /\ (Deposit(from, amount, r) \/ Mint(from, amount, r))
  BY <1>2, <1>3, DepositJoins, MintJoins DEF Fund!Next
<1>4. CASE Redeem(from, amount, r) \/ Withdraw(from, amount, r)
  BY <1>2, <1>4, PayOutLeaves DEF Fund!Next
<1> QED
  BY <1>1, <1>3, <1>4

(* Whatever a settlement does to the pool, it leaves the stakes alone. *)
LEMMA ManagerMapped ==
    ASSUME Books, ManagerStep
    PROVE  Fund!Next
<1>1. totalAssets' \in Nat
  BY ManagerKeepsBooks DEF Books, VaultTypeOK
<1>2. UNCHANGED balance
  BY DEF ManagerStep, TakeCollateral, RecordBadDebt, Settle, ReturnCollateralWithPnl
<1> QED
  BY <1>1, <1>2 DEF Fund!Next, Fund!Bear

(* Every step of the vault is one of the fund, or a stutter. *)
LEMMA StepMapped == Books /\ [VaultNext]_vaultState => [Fund!Next]_<<balance, totalAssets>>
<1> SUFFICES ASSUME Books, [VaultNext]_vaultState
             PROVE  [Fund!Next]_<<balance, totalAssets>>
  OBVIOUS
<1>1. CASE UNCHANGED vaultState
  BY <1>1 DEF vaultState, vaultVars, fund
<1>2. CASE VaultAdminStep \/ CloseLedger
  BY <1>2 DEF VaultAdminStep, SetWithdrawLock, SetPositionManager, Pause, Unpause,
     CloseLedger, vaultVars, fund
<1> QED
  BY <1>1, <1>2, ShareTokenMapped, LpMapped, ManagerMapped DEF VaultNext

(* The vault is a pooled fund: LPs enter and leave at the fair price, share *)
(* tokens are their stakes, and they bear together what the trades win and *)
(* lose.                                                                    *)
THEOREM FundTheorem == VaultSpec => FundImplemented
BY InitBooks, InitMapped, BooksInductive, StepMapped, PTL
DEF VaultSpec, FundImplemented, Fund!Spec
=============================================================================
