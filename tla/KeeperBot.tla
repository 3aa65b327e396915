------------------------------ MODULE KeeperBot ------------------------------
(***************************************************************************)
(* keeper_bot.js against the contracts of PositionManager: a process that  *)
(* fetches the price, walks the list of trades it was written with, sends  *)
(* liquidate_trade for those it finds liquidatable, and sleeps.            *)
(*                                                                         *)
(* JavaScript runs to the next await, so a step ends where the code awaits *)
(* an answer: everybody else moves between the fetch, the simulation, the  *)
(* sending, and the application of the transaction by the network.         *)
(***************************************************************************)
EXTENDS PositionManager, KeeperMath, Sequences

CONSTANTS
    BotAsset,     \* the asset fetchOraclePrice asks for
    BOT_EXP,      \* 4 in the code: the decimals fetchOraclePrice cuts off
    MaxWatched,   \* bound: entries the bot is written with
    Faults        \* what the bot's surroundings may do to it

ASSUME BotAssumption ==
    /\ BotAsset \in Asset /\ BOT_EXP \in Nat /\ MaxWatched \in Nat
    /\ pow10(BOT_EXP) \in Nat \ {0}
    /\ None \notin Nat
    /\ Faults \subseteq {"crash", "throw", "noreply", "reject", "lose"}

VARIABLES
    listed,       \* the literal activeTrades is initialised with
    activeTrades, \* the array of the running process: positions of listed
    pc,           \* the await the process is at: "fetch", "prepare", "send", "sleep";
                  \* or "down"
    currentPrice, \* the price of this pass
    at,           \* where the for..of loop stands in activeTrades
    outdated,     \* the account's sequence number moved on since getAccount
    inFlight      \* the trade of the transaction sent and not yet decided, or None

process == <<activeTrades, pc, currentPrice, at, outdated>>
botVars == <<listed, process, inFlight>>
allVars == <<vars, botVars>>

Entry == [key : Key, isLong : BOOLEAN, leverage : Nat, openPrice : Nat, collateral : Nat,
          liqThresholdP : Nat]

BotTypeOK ==
    /\ listed \in Seq(Entry) /\ Len(listed) =< MaxWatched
    /\ activeTrades \in Seq(DOMAIN listed)
    /\ pc \in {"fetch", "prepare", "send", "sleep", "down"}
    /\ currentPrice \in Nat
    /\ pc \in {"prepare", "send"} => at \in DOMAIN activeTrades
    /\ outdated \in BOOLEAN
    /\ inFlight \in Key \cup {None}

BotInit ==
    /\ Init
    /\ listed = <<>>
    /\ activeTrades = <<>> /\ pc = "down" /\ currentPrice = 0 /\ at = 0 /\ outdated = FALSE
    /\ inFlight = None

-----------------------------------------------------------------------------
(* The list. *)

EntryOf(k) ==
    [key |-> k, isLong |-> trade[k].isLong, leverage |-> trade[k].leverage,
     openPrice |-> trade[k].openPrice, collateral |-> trade[k].collateral,
     liqThresholdP |-> pair[k[2]].liqThresholdP]

WatchedEntry(list, j) == listed[list[j]]

Without(list, j) == SubSeq(list, 1, j - 1) \o SubSeq(list, j + 1, Len(list))

(* Start: the process loads the literal; nothing it did before is kept.    *)
Start(literal) ==
    /\ listed' = literal
    /\ activeTrades' = [j \in DOMAIN literal |-> j]
    /\ pc' = "fetch"
    /\ UNCHANGED <<currentPrice, at, outdated>>

(* The operator copies open trades into the source and runs it.            *)
Deploy ==
    /\ listed = <<>>
    /\ \E count \in 1 .. MaxWatched : \E keys \in [1 .. count -> Key] :
        /\ \A j, m \in 1 .. count : keys[j] = keys[m] => j = m
        /\ \A j \in 1 .. count : trade[keys[j]] # None
        /\ Start([j \in 1 .. count |-> EntryOf(keys[j])])
    /\ UNCHANGED <<vars, inFlight>>

Crash ==
    /\ "crash" \in Faults
    /\ pc # "down"
    /\ pc' = "down"
    /\ activeTrades' = <<>> /\ currentPrice' = 0 /\ at' = 0 /\ outdated' = FALSE
    /\ UNCHANGED <<vars, listed, inFlight>>

Restart ==
    /\ pc = "down" /\ listed # <<>>
    /\ Start(listed)
    /\ UNCHANGED <<vars, inFlight>>

-----------------------------------------------------------------------------
(* The loop. *)

Sleep(list) ==
    /\ activeTrades' = list
    /\ pc' = "sleep" /\ currentPrice' = 0 /\ at' = 0 /\ outdated' = FALSE

(* The for..of loop runs on from a position of the list: to the next entry *)
(* that is found liquidatable, or to its end.                              *)
WalkFrom(list, observed, first) ==
    LET found == {j \in first .. Len(list) :
                    FoundLiquidatable(WatchedEntry(list, j), observed)}
    IN IF found = {} THEN Sleep(list)
       ELSE /\ activeTrades' = list
            /\ pc' = "prepare" /\ currentPrice' = observed
            /\ at' \in found /\ \A j \in found : at' =< j
            /\ outdated' = FALSE

(* Mutant: the price is used at the oracle's decimals. *)
FetchedUnscaled ==
    /\ pc = "fetch" /\ price[BotAsset] # None
    /\ LET observed == price[BotAsset]
       IN IF observed = 0 THEN Sleep(activeTrades) ELSE WalkFrom(activeTrades, observed, 1)
    /\ UNCHANGED <<vars, listed, inFlight>>

(* A price of zero is falsy: the pass is skipped.                          *)
Fetched ==
    /\ pc = "fetch" /\ price[BotAsset] # None
    /\ LET observed == DivTrunc(price[BotAsset], pow10(BOT_EXP))
       IN IF observed = 0 THEN Sleep(activeTrades) ELSE WalkFrom(activeTrades, observed, 1)
    /\ UNCHANGED <<vars, listed, inFlight>>

(* There is no price, or a call throws. *)
NotFetched ==
    /\ pc = "fetch"
    /\ price[BotAsset] = None \/ "throw" \in Faults
    /\ Sleep(activeTrades)
    /\ UNCHANGED <<vars, listed, inFlight>>

Current == WatchedEntry(activeTrades, at).key

Liquidates(k) == LiquidateTrade(k[1], k[2], k[3])

(* prepareTransaction simulates the call and throws if the contract         *)
(* refuses it.  getAccount, just before, is part of the step.              *)
Prepared ==
    /\ pc = "prepare" /\ ENABLED Liquidates(Current)
    /\ pc' = "send"
    /\ UNCHANGED <<vars, listed, activeTrades, currentPrice, at, outdated, inFlight>>

(* Whatever is thrown ends the pass, not only the entry.                   *)
NotPrepared ==
    /\ pc = "prepare"
    /\ ~ENABLED Liquidates(Current) \/ "throw" \in Faults
    /\ Sleep(activeTrades)
    /\ UNCHANGED <<vars, listed, inFlight>>

(* The network takes one transaction of an account at a time, and none      *)
(* with a sequence number already used.                                    *)
Acceptable == inFlight = None /\ ~outdated

(* Mutant: the loop counts up to the length the list had before. *)
GoOnToOldEnd ==
    LET list == Without(activeTrades, at)
    IN IF at < Len(activeTrades)
       THEN /\ activeTrades' = list /\ at' = at + 1
            /\ pc' = "prepare" /\ currentPrice' = currentPrice /\ outdated' = FALSE
       ELSE Sleep(list)

(* The entry is spliced out while the loop runs over the array, so the      *)
(* loop's next position skips the entry that moved up.                     *)
GoOn == WalkFrom(Without(activeTrades, at), currentPrice, at + 1)

(* Mutant: the entry stays on the list. *)
SentAndKept ==
    /\ pc = "send" /\ Acceptable
    /\ inFlight' = Current
    /\ WalkFrom(activeTrades, currentPrice, at + 1)
    /\ UNCHANGED <<vars, listed>>

Sent ==
    /\ pc = "send" /\ Acceptable
    /\ inFlight' = Current
    /\ GoOn
    /\ UNCHANGED <<vars, listed>>

(* sendTransaction answers ERROR or TRY_AGAIN_LATER, which the bot does     *)
(* not look at.                                                            *)
Rejected ==
    /\ pc = "send" /\ (~Acceptable \/ "reject" \in Faults)
    /\ GoOn
    /\ UNCHANGED <<vars, listed, inFlight>>

(* sendTransaction throws before the transaction reaches the network, or    *)
(* because the answer is lost after it did.                                *)
SendThrows ==
    /\ pc = "send"
    /\ \/ "throw" \in Faults /\ inFlight' = inFlight
       \/ "noreply" \in Faults /\ Acceptable /\ inFlight' = Current
    /\ Sleep(activeTrades)
    /\ UNCHANGED <<vars, listed>>

Wake ==
    /\ pc = "sleep"
    /\ pc' = "fetch"
    /\ UNCHANGED <<vars, listed, activeTrades, currentPrice, at, outdated, inFlight>>

-----------------------------------------------------------------------------
(* The network. *)

(* Applied or failed, the transaction uses up its sequence number.         *)
Apply ==
    /\ inFlight # None
    /\ Liquidates(inFlight) \/ (~ENABLED Liquidates(inFlight) /\ UNCHANGED vars)
    /\ inFlight' = None
    /\ outdated' = (pc = "send")
    /\ UNCHANGED <<listed, activeTrades, pc, currentPrice, at>>

(* Not included within the 30 seconds it is valid. *)
Expire ==
    /\ "lose" \in Faults
    /\ inFlight # None
    /\ inFlight' = None
    /\ UNCHANGED <<vars, listed, process>>

-----------------------------------------------------------------------------
(* Traders, other keepers and the oracle.  The admins and LPs are left to   *)
(* the runs of PositionManager.                                            *)
World ==
    /\ \/ TraderStep
       \/ KeeperStep
       \/ \E asset \in Asset, answer \in Price \cup {None} : MovePrice(asset, answer)
    /\ UNCHANGED botVars

BotStep == Fetched \/ NotFetched \/ Prepared \/ NotPrepared \/ Sent \/ Rejected
              \/ SendThrows \/ Wake

BotNext == World \/ Deploy \/ Crash \/ Restart \/ BotStep \/ Apply \/ Expire

(* The process runs and the network decides what it accepted.  A call of    *)
(* the RPC server may throw any number of times, not every time.           *)
Fairness ==
    /\ WF_allVars(BotStep)
    /\ SF_allVars(Fetched) /\ SF_allVars(Prepared) /\ SF_allVars(Sent)
    /\ WF_allVars(Apply \/ Expire)

BotSpec == BotInit /\ [][BotNext]_allVars /\ Fairness

-----------------------------------------------------------------------------
(* Properties. *)

(* A trade the contracts would let anyone liquidate.  At a price of zero    *)
(* the bot, which takes it for a missing one, does nothing.                *)
Due(k) ==
    /\ trade[k] # None /\ trade[k].collateral # 0
    /\ Quoted(k[2]) /\ PriceOf(k[2]) # 0
    /\ Liquidatable(trade[k], k[2])

(* The bot's entry at j is about the trade there is.                       *)
Watches(j, k) ==
    /\ WatchedEntry(activeTrades, j).key = k
    /\ trade[k] # None /\ WatchedEntry(activeTrades, j) = EntryOf(k)

Watched(k) == \E j \in DOMAIN activeTrades : Watches(j, k)

(* An entry ahead that the bot finds liquidatable and the contracts refuse: *)
(* its trade is gone, or is another one than the bot was told of.          *)
HeldUp(k) ==
    \E j, m \in DOMAIN activeTrades :
        /\ Watches(j, k) /\ m < j
        /\ FoundLiquidatable(WatchedEntry(activeTrades, m), PriceOf(k[2]))
        /\ ~Due(WatchedEntry(activeTrades, m).key)

(* WatchedTradesAreServed: no trade stays due for ever while the bot runs   *)
(* and watches it, or has a transaction for it under way, unless an entry  *)
(* ahead of it is refused again and again.  Calls that throw, simulations  *)
(* that fail, transactions that expire, prices that come and go, restarts  *)
(* and the splicing of the list the loop runs over only delay it.          *)
WatchedTradesAreServed ==
    \A k \in Key :
        []<>~(pc # "down" /\ Due(k) /\ ((Watched(k) /\ ~HeldUp(k)) \/ inFlight = k))

(* DueTradeIsSent: for a due trade that the bot watches, the bot sends      *)
(* liquidate_trade, unless the trade ends, is no longer due, or the bot    *)
(* goes down.  keeper_bot.js:7 says it does so by itself if the trade      *)
(* qualifies.                                                              *)
DueTradeIsSent ==
    \A k \in Key : (Due(k) /\ Watched(k)) ~> (~Due(k) \/ ~Watched(k) \/ pc = "down")

(* The entry the loop stands at is about a trade that has a value and was   *)
(* not opened at a price rescaled to zero, which the contracts never       *)
(* liquidate and the bot, for a short, always would.                       *)
OnATrade ==
    Watches(at, Current) /\ trade[Current].collateral > 0 /\ trade[Current].openPrice > 0

(* OnlyStaleDecisionsRefused: from the moment the bot decides to liquidate  *)
(* a trade until it has sent the transaction, the contracts agree, unless  *)
(* the trade, its pair or the price is no longer what the bot decided by,  *)
(* though the bot has a liquidation price of its own, divided once where   *)
(* theirs is divided twice, and the prices in between came and went.       *)
OnlyStaleDecisionsRefused ==
    pc \in {"prepare", "send"} /\ OnATrade /\ PriceOf(Current[2]) = currentPrice
        => Due(Current)

(* FreshDecisionsAreDue: what the bot decides to liquidate the moment it    *)
(* has fetched a price is due at that moment, if the oracle reports the    *)
(* decimals that keeper_bot.js:94 says it reports.                         *)
FreshDecisionsAreDue ==
    [][/\ pc = "fetch" /\ pc' = "prepare" /\ OnATrade'
       /\ pair[Current'[2]].asset = BotAsset /\ decimals = PRICE_EXP + BOT_EXP
       => Due(Current)']_botVars
=============================================================================
