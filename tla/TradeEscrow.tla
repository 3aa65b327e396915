----------------------------- MODULE TradeEscrow -----------------------------
(***************************************************************************)
(* What the exchange promises its traders: money staked on an order or a   *)
(* trade is that trader's until it ends, and then goes to the trader, the  *)
(* pool and the fees to the last unit.  Prices, leverage, triggers and fee *)
(* rates are left to the implementation.                                   *)
(***************************************************************************)
EXTENDS Integers

CONSTANTS
    Trader, Pair, Slot,
    None       \* nothing staked

VARIABLES
    wallet,    \* money of each trader
    order,     \* money staked on the resting order of each key
    trade,     \* money staked on the trade of each key
    pool,      \* money of the liquidity providers
    fees       \* fees collected

Key == Trader \X Pair \X Slot
OwnerOf(k) == k[1]

Init ==
    /\ wallet \in [Trader -> Nat]
    /\ order = [k \in Key |-> None] /\ trade = [k \in Key |-> None]
    /\ pool = 0 /\ fees \in Nat

(* What a step does to the wallet of its trader, the fees and the pool.    *)
(* Nobody else's wallet is touched.                                        *)
Received(h) == wallet'[h] - wallet[h]
Charged == fees' - fees
Earned == pool' - pool

OnlyWallet(h) ==
    /\ wallet'[h] \in Nat
    /\ wallet' = [wallet EXCEPT ![h] = wallet'[h]]

(* A stake appears, or disappears, at one key. *)
Staked(stakes, next, k) ==
    /\ stakes[k] = None /\ next[k] \in Nat
    /\ next = [stakes EXCEPT ![k] = next[k]]

Ended(stakes, next, k) ==
    /\ stakes[k] \in Nat
    /\ next = [stakes EXCEPT ![k] = None]

Open(k) ==
    /\ Staked(trade, trade', k)
    /\ OnlyWallet(OwnerOf(k))
    /\ -Received(OwnerOf(k)) = trade'[k] + Charged /\ Charged >= 0
    /\ UNCHANGED <<order, pool>>

Place(k) ==
    /\ Staked(order, order', k)
    /\ OnlyWallet(OwnerOf(k))
    /\ -Received(OwnerOf(k)) = order'[k]
    /\ UNCHANGED <<trade, pool, fees>>

(* The stake moves on, less a fee, to a trade of the same trader and pair.  *)
Execute(k) ==
    /\ Ended(order, order', k)
    /\ \E n \in Slot : LET to == <<k[1], k[2], n>>
                       IN Staked(trade, trade', to) /\ trade'[to] + Charged = order[k]
    /\ Charged >= 0
    /\ UNCHANGED <<wallet, pool>>

Cancel(k) ==
    /\ Ended(order, order', k)
    /\ OnlyWallet(OwnerOf(k))
    /\ Received(OwnerOf(k)) = order[k]
    /\ UNCHANGED <<trade, pool, fees>>

(* However the trade ends; the pool pays a gain and keeps a loss.          *)
End(k) ==
    /\ Ended(trade, trade', k)
    /\ OnlyWallet(OwnerOf(k))
    /\ Received(OwnerOf(k)) + Charged + Earned = trade[k]
    /\ Received(OwnerOf(k)) >= 0 /\ Charged >= 0 /\ pool' >= 0
    /\ UNCHANGED order

(* Liquidity comes in. *)
Provide(h) ==
    /\ OnlyWallet(h)
    /\ Received(h) + Earned = 0 /\ Earned >= 0
    /\ UNCHANGED <<order, trade, fees>>

(* Liquidity is withdrawn, to any address: the escrow's own, where it can   *)
(* not be told from fees, and ones outside the exchange included.          *)
Withdraw(h) ==
    /\ OnlyWallet(h)
    /\ Received(h) + Charged =< -Earned
    /\ Received(h) >= 0 /\ Charged >= 0 /\ pool' >= 0
    /\ UNCHANGED <<order, trade>>

Next ==
    \/ \E k \in Key : Open(k) \/ Place(k) \/ Execute(k) \/ Cancel(k) \/ End(k)
    \/ \E h \in Trader : Provide(h) \/ Withdraw(h)

Spec == Init /\ [][Next]_<<wallet, order, trade, pool, fees>>
=============================================================================
