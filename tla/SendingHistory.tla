--------------------------- MODULE SendingHistory ----------------------------
(***************************************************************************)
(* The bot with a history variable: whether its process ever crashed, or   *)
(* was not answered after the network took a transaction.  The process     *)
(* remembers neither: it has the entry of what it sent again, or still.    *)
(***************************************************************************)
EXTENDS KeeperBot

VARIABLE interrupted

historyVars == <<allVars, interrupted>>

Interruption == Crash \/ (SendThrows /\ inFlight' # inFlight)

SendingInit == BotInit /\ interrupted = FALSE

SendingNext == BotNext /\ interrupted' = (interrupted \/ Interruption)

SendingSpec == SendingInit /\ [][SendingNext]_historyVars /\ Fairness

-----------------------------------------------------------------------------
(* OwnLiquidationsHoldUpNothing: a trade that ends while a transaction of   *)
(* the bot for it is under way leaves no entry on the list, which the      *)
(* contracts would refuse in every pass and the entries behind it be held  *)
(* up: whoever ends the trade, whatever was thrown, refused or lost since, *)
(* and though the entry was spliced out of a list the loop was running     *)
(* over, unless the process was interrupted before.                        *)
OwnLiquidationsHoldUpNothing ==
    [][~interrupted /\ inFlight # None /\ trade[inFlight] # None /\ trade'[inFlight] = None
        => \A j \in DOMAIN activeTrades' :
              WatchedEntry(activeTrades, j)'.key # inFlight]_historyVars
=============================================================================
