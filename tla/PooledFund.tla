----------------------------- MODULE PooledFund -----------------------------
(***************************************************************************)
(* What the vault promises its LPs: members hold stakes in a pool, come in *)
(* and leave at a fair price, pass stakes on, and bear together what the   *)
(* trades they back win or lose.                                           *)
(*                                                                         *)
(* Actions are relations between two states: how a price is computed,      *)
(* which way it is rounded and what a caller names, an amount or a number  *)
(* of shares, is left to the implementation.                               *)
(***************************************************************************)
EXTENDS Totals

CONSTANT Member

VARIABLES
    stake,    \* shares each member holds
    pool      \* assets the members own together

Supply == Total(stake)

Init ==
    /\ stake = [m \in Member |-> 0]
    /\ pool = 0

(* Only the member's stake changes, and stays in Nat. *)
Restake(m) ==
    /\ stake'[m] \in Nat
    /\ stake' = [stake EXCEPT ![m] = stake'[m]]

(* Join: a member pays for new shares what they are worth, or less than one *)
(* unit short of it; in an empty pool a share costs one unit.              *)
Join(m) ==
    LET bought == stake'[m] - stake[m]
        paid == pool' - pool
    IN /\ Restake(m)
       /\ bought >= 0 /\ paid >= 0
       /\ IF pool = 0 \/ Supply = 0 THEN paid = bought
                                    ELSE (paid + 1) * Supply > bought * pool

(* Leave: a member gives up shares for at most what they are worth.        *)
Leave(m) ==
    LET sold == stake[m] - stake'[m]
        taken == pool - pool'
    IN /\ Restake(m)
       /\ sold >= 0 /\ taken >= 0
       /\ taken * Supply =< sold * pool

(* Pass: a member gives shares to another. *)
Pass(from, to) ==
    LET given == stake[from] - stake'[from]
    IN /\ from # to
       /\ given >= 0 /\ stake'[from] \in Nat
       /\ stake' = [stake EXCEPT ![from] = @ - given, ![to] = @ + given]
       /\ UNCHANGED pool

(* Bear: the pool wins or loses, and may be wiped out. *)
Bear ==
    /\ pool' \in Nat
    /\ UNCHANGED stake

Next ==
    \/ \E m \in Member : Join(m) \/ Leave(m)
    \/ \E from, to \in Member : Pass(from, to)
    \/ Bear

Spec == Init /\ [][Next]_<<stake, pool>>
=============================================================================
