------------------------------ MODULE MCSending ------------------------------
(* Instance of SendingHistory for TLC: the market of MCKeeperBot.           *)
EXTENDS MCKeeperBot, SendingHistory
=============================================================================
