---------------------------- MODULE KeeperProofs ----------------------------
(***************************************************************************)
(* The keeper bot does to the contracts only what anybody may do to them,  *)
(* decides by its own formula what they would decide by theirs, and does   *)
(* not hold itself up: for all trades, prices and lists.                   *)
(***************************************************************************)
EXTENDS SendingHistory, PositionProofs, SequenceTheorems

(* A list without one of its entries is a list of the same entries.         *)
LEMMA WithoutTypes ==
    ASSUME NEW S, NEW list \in Seq(S), NEW j \in DOMAIN list
    PROVE  Without(list, j) \in Seq(S)
<1>1. DOMAIN list = 1 .. Len(list) /\ Len(list) \in Nat
  BY LenProperties
<1>2. j \in 1 .. Len(list) /\ j \in Int /\ j - 1 \in Int /\ j + 1 \in Int
  BY <1>1
<1>3. \A m \in 1 .. j - 1 : list[m] \in S
  BY <1>1, <1>2, ElementOfSeq
<1>4. \A m \in j + 1 .. Len(list) : list[m] \in S
  BY <1>1, <1>2, ElementOfSeq
<1>5. SubSeq(list, 1, j - 1) \in Seq(S)
  BY <1>2, <1>3, SubSeqProperties
<1>6. SubSeq(list, j + 1, Len(list)) \in Seq(S)
  BY <1>1, <1>2, <1>4, SubSeqProperties
<1> QED
  BY <1>5, <1>6, ConcatProperties DEF Without

(* What the loop leaves is well-typed, wherever it goes on from.            *)
LEMMA WalkTypes ==
    ASSUME NEW list \in Seq(DOMAIN listed), NEW observed \in Nat, NEW first \in Nat \ {0},
           WalkFrom(list, observed, first)
    PROVE  /\ activeTrades' \in Seq(DOMAIN listed)
           /\ pc' \in {"prepare", "sleep"}
           /\ currentPrice' \in Nat
           /\ pc' \in {"prepare", "send"} => at' \in DOMAIN activeTrades'
           /\ outdated' \in BOOLEAN
<1>1. DOMAIN list = 1 .. Len(list) /\ Len(list) \in Nat
  BY LenProperties
<1> DEFINE found == {j \in first .. Len(list) :
                        FoundLiquidatable(WatchedEntry(list, j), observed)}
<1>2. found \subseteq DOMAIN list
  BY <1>1
<1>3. CASE found = {}
  <2>1. Sleep(list)
    BY <1>3 DEF WalkFrom
  <2>2. /\ activeTrades' = list /\ pc' = "sleep" /\ currentPrice' = 0
        /\ outdated' = FALSE
    BY <2>1 DEF Sleep
  <2> QED
    BY <2>2
<1>4. CASE found # {}
  <2>1. /\ activeTrades' = list /\ pc' = "prepare" /\ currentPrice' = observed
        /\ at' \in found /\ outdated' = FALSE
    BY <1>4 DEF WalkFrom
  <2>2. at' \in DOMAIN list
    BY <1>2, <2>1
  <2> QED
    BY <2>1, <2>2
<1> QED
  BY <1>3, <1>4

(* A transaction the network decides is a liquidation, or changes nothing.  *)
LEMMA ApplyIs ==
    ASSUME Apply
    PROVE  Liquidates(inFlight) \/ UNCHANGED vars
BY DEF Apply

(* The operator can copy every open trade: all its fields are there.        *)
LEMMA EntryTypes ==
    ASSUME Ledger, Configured, NEW k \in Key, trade[k] # None
    PROVE  EntryOf(k) \in Entry
<1>1. k[2] \in PairIndex
  BY DEF Key
<1>2. pair[k[2]] \in PairInfo
  BY <1>1 DEF Ledger, Configured, RegistryTypeOK, HasPair
<1>3. trade[k] \in Trade
  BY DEF Ledger, PmTypeOK
<1> QED
  BY <1>2, <1>3 DEF EntryOf, Entry, Trade, PairInfo

(* Starting the process on a list of entries.                               *)
LEMMA StartTypes ==
    ASSUME NEW literal \in Seq(Entry), Len(literal) <= MaxWatched, Start(literal),
           BotTypeOK, UNCHANGED inFlight
    PROVE  BotTypeOK'
<1>1. DOMAIN literal = 1 .. Len(literal) /\ Len(literal) \in Nat
  BY LenProperties
<1>2. [j \in 1 .. Len(literal) |-> j] \in Seq(1 .. Len(literal))
  BY <1>1
<1>3. /\ listed' = literal /\ pc' = "fetch"
      /\ activeTrades' \in Seq(DOMAIN literal)
      /\ UNCHANGED <<currentPrice, at, outdated>>
  BY <1>1, <1>2 DEF Start
<1> QED
  BY <1>3 DEF BotTypeOK

(* Whoever acts in the world, it is a step of the contracts or the oracle.  *)
LEMMA WorldSteps ==
    ASSUME World
    PROVE  Next /\ UNCHANGED botVars
<1>1. TraderStep \/ KeeperStep
         \/ \E asset \in Asset, answer \in Price \cup {None} : MovePrice(asset, answer)
  BY DEF World
<1>2. Next
  BY <1>1 DEF Next, OracleStep
<1> QED
  BY <1>2 DEF World

(* The bot's own transaction is one that any keeper may send.               *)
LEMMA LiquidationSteps ==
    ASSUME NEW k \in Key, Liquidates(k)
    PROVE  Next
<1>1. k[1] \in Holder /\ k[2] \in PairIndex /\ k[3] \in Slot
  BY DEF Key
<1>2. LiquidateTrade(k[1], k[2], k[3])
  BY DEF Liquidates
<1>3. KeeperStep
  BY <1>1, <1>2 DEF KeeperStep
<1> QED
  BY <1>3 DEF Next

(* A process at rest is well-typed whatever list it keeps.                  *)
LEMMA SleepTypes ==
    ASSUME BotTypeOK, listed' = listed, inFlight' \in Key \cup {None}, Sleep(activeTrades)
    PROVE  BotTypeOK'
<1>1. /\ activeTrades' = activeTrades /\ pc' = "sleep" /\ currentPrice' = 0
      /\ outdated' = FALSE
  BY DEF Sleep
<1> QED
  BY <1>1 DEF BotTypeOK

(* The price the bot goes by is a number.                                   *)
LEMMA ObservedTypes ==
    ASSUME PmTypeOK, price[BotAsset] # None
    PROVE  DivTrunc(price[BotAsset], pow10(BOT_EXP)) \in Nat
<1>1. price[BotAsset] \in Nat /\ pow10(BOT_EXP) \in Nat \ {0}
  BY BotAssumption, PositionAssumption DEF PmTypeOK
<1> QED
  BY <1>1, DivNat DEF DivTrunc

(* Fetching the price, or failing to, keeps the process well-typed.         *)
LEMMA FetchKeeps ==
    ASSUME Ledger, BotTypeOK, Fetched \/ NotFetched
    PROVE  BotTypeOK' /\ UNCHANGED vars
<1>1. CASE Fetched
  <2> DEFINE observed == DivTrunc(price[BotAsset], pow10(BOT_EXP))
  <2>1. /\ UNCHANGED vars /\ UNCHANGED <<listed, inFlight>>
        /\ price[BotAsset] # None
        /\ observed = 0 => Sleep(activeTrades)
        /\ observed # 0 => WalkFrom(activeTrades, observed, 1)
    BY <1>1 DEF Fetched
  <2>2. observed \in Nat
    BY <2>1, ObservedTypes DEF Ledger
  <2> HIDE DEF observed
  <2>3. CASE observed = 0
    BY <2>1, <2>3, SleepTypes DEF BotTypeOK
  <2>4. CASE observed # 0
    <3>1. activeTrades \in Seq(DOMAIN listed)
      BY DEF BotTypeOK
    <3>2. /\ activeTrades' \in Seq(DOMAIN listed)
          /\ pc' \in {"prepare", "sleep"}
          /\ currentPrice' \in Nat
          /\ pc' \in {"prepare", "send"} => at' \in DOMAIN activeTrades'
          /\ outdated' \in BOOLEAN
      BY <2>1, <2>2, <2>4, <3>1, WalkTypes
    <3> QED
      BY <2>1, <3>2 DEF BotTypeOK
  <2> QED
    BY <2>1, <2>3, <2>4
<1>2. CASE NotFetched
  <2>1. Sleep(activeTrades) /\ UNCHANGED <<vars, listed, inFlight>>
    BY <1>2 DEF NotFetched
  <2> QED
    BY <2>1, SleepTypes DEF BotTypeOK
<1> QED
  BY <1>1, <1>2

(* So does simulating the transaction, or failing to.                       *)
LEMMA PrepareKeeps ==
    ASSUME BotTypeOK, Prepared \/ NotPrepared
    PROVE  BotTypeOK' /\ UNCHANGED vars
<1>1. CASE Prepared
  <2>1. /\ pc = "prepare" /\ pc' = "send"
        /\ UNCHANGED <<vars, listed, activeTrades, currentPrice, at, outdated, inFlight>>
    BY <1>1 DEF Prepared
  <2> QED
    BY <2>1 DEF BotTypeOK
<1>2. CASE NotPrepared
  <2>1. Sleep(activeTrades) /\ UNCHANGED <<vars, listed, inFlight>>
    BY <1>2 DEF NotPrepared
  <2> QED
    BY <2>1, SleepTypes DEF BotTypeOK
<1> QED
  BY <1>1, <1>2

(* And so does sending it, whatever the answer: only the bot's own list     *)
(* and what is under way change.                                           *)
LEMMA SendKeeps ==
    ASSUME BotTypeOK, Sent \/ Rejected \/ SendThrows
    PROVE  BotTypeOK' /\ UNCHANGED vars
<1>1. /\ pc = "send" /\ at \in DOMAIN activeTrades /\ activeTrades \in Seq(DOMAIN listed)
      /\ currentPrice \in Nat /\ inFlight \in Key \cup {None} /\ listed \in Seq(Entry)
      /\ Len(listed) <= MaxWatched
  BY DEF BotTypeOK, Sent, Rejected, SendThrows
<1>2. Current \in Key
  <2>1. activeTrades[at] \in DOMAIN listed
    BY <1>1, LenProperties, ElementOfSeq
  <2>2. listed[activeTrades[at]] \in Entry
    BY <1>1, <2>1, LenProperties, ElementOfSeq
  <2> QED
    BY <2>2 DEF Current, WatchedEntry, Entry
<1>3. /\ UNCHANGED vars /\ UNCHANGED listed /\ inFlight' \in {inFlight, Current}
      /\ GoOn \/ Sleep(activeTrades)
  BY DEF Sent, Rejected, SendThrows
<1>4. inFlight' \in Key \cup {None}
  BY <1>1, <1>2, <1>3
<1>5. CASE GoOn
  <2>1. Without(activeTrades, at) \in Seq(DOMAIN listed)
    BY <1>1, WithoutTypes
  <2>2. at + 1 \in Nat \ {0}
    BY <1>1, LenProperties
  <2>3. WalkFrom(Without(activeTrades, at), currentPrice, at + 1)
    BY <1>5 DEF GoOn
  <2>4. /\ activeTrades' \in Seq(DOMAIN listed)
        /\ pc' \in {"prepare", "sleep"}
        /\ currentPrice' \in Nat
        /\ pc' \in {"prepare", "send"} => at' \in DOMAIN activeTrades'
        /\ outdated' \in BOOLEAN
    BY <1>1, <2>1, <2>2, <2>3, WalkTypes
  <2> QED
    BY <1>1, <1>3, <1>4, <2>4 DEF BotTypeOK
<1>6. CASE Sleep(activeTrades)
  BY <1>3, <1>4, <1>6, SleepTypes
<1> QED
  BY <1>3, <1>5, <1>6

(* The operator's copies make a list of entries.                            *)
LEMMA DeployKeeps ==
    ASSUME Ledger, Configured, BotTypeOK, Deploy
    PROVE  BotTypeOK' /\ UNCHANGED vars
<1>0. PICK count \in 1 .. MaxWatched : \E keys \in [1 .. count -> Key] :
        /\ \A j \in 1 .. count : trade[keys[j]] # None
        /\ Start([j \in 1 .. count |-> EntryOf(keys[j])])
  BY DEF Deploy
<1>1. PICK keys \in [1 .. count -> Key] :
        /\ \A j \in 1 .. count : trade[keys[j]] # None
        /\ Start([j \in 1 .. count |-> EntryOf(keys[j])])
  BY <1>0
<1>2. UNCHANGED <<vars, inFlight>>
  BY DEF Deploy
<1> DEFINE literal == [j \in 1 .. count |-> EntryOf(keys[j])]
<1>3. \A j \in 1 .. count : EntryOf(keys[j]) \in Entry
  BY <1>1, EntryTypes
<1>4. count \in Nat /\ count <= MaxWatched
  BY BotAssumption
<1>5. literal \in Seq(Entry)
  BY <1>3, <1>4
<1>6. Len(literal) = count
  BY <1>4, <1>5, LenProperties
<1> HIDE DEF literal
<1> QED
  BY <1>1, <1>2, <1>4, <1>5, <1>6, StartTypes DEF literal

(* The process comes back on the list it was written with.                  *)
LEMMA RestartKeeps ==
    ASSUME BotTypeOK, Crash \/ Restart
    PROVE  BotTypeOK' /\ UNCHANGED vars
<1>1. CASE Crash
  <2>1. /\ pc' = "down" /\ activeTrades' = <<>> /\ currentPrice' = 0 /\ outdated' = FALSE
        /\ UNCHANGED <<vars, listed, inFlight>>
    BY <1>1 DEF Crash
  <2>2. << >> \in Seq(DOMAIN listed)
    BY EmptySeq
  <2> QED
    BY <2>1, <2>2 DEF BotTypeOK
<1>2. CASE Restart
  <2>1. Start(listed) /\ UNCHANGED <<vars, inFlight>>
    BY <1>2 DEF Restart
  <2>2. listed \in Seq(Entry) /\ Len(listed) <= MaxWatched
    BY DEF BotTypeOK
  <2> QED
    BY <2>1, <2>2, StartTypes
<1> QED
  BY <1>1, <1>2

(* Every step of the bot, its surroundings and the network is a step of the *)
(* contracts, or none: also after the bot sent it, crashed and came back.  *)
LEMMA BotStepKeeps ==
    Ledger /\ Configured /\ BotTypeOK /\ [BotNext]_allVars => [Next]_vars /\ BotTypeOK'
<1> SUFFICES ASSUME Ledger, Configured, BotTypeOK, [BotNext]_allVars
             PROVE  [Next]_vars /\ BotTypeOK'
  OBVIOUS
<1>1. CASE World
  <2>1. Next /\ UNCHANGED botVars
    BY <1>1, WorldSteps
  <2> QED
    BY <2>1 DEF BotTypeOK, botVars, process
<1>2. CASE Deploy
  BY <1>2, DeployKeeps
<1>3. CASE Crash \/ Restart
  BY <1>3, RestartKeeps
<1>4. CASE BotStep
  BY <1>4, FetchKeeps, PrepareKeeps, SendKeeps DEF BotStep, Wake, BotTypeOK
<1>5. CASE Apply
  <2>1. Liquidates(inFlight) \/ UNCHANGED vars
    BY <1>5, ApplyIs
  <2>2. /\ inFlight # None /\ inFlight' = None /\ outdated' \in BOOLEAN
        /\ UNCHANGED <<listed, activeTrades, pc, currentPrice, at>>
    BY <1>5 DEF Apply
  <2>3. inFlight \in Key
    BY <2>2 DEF BotTypeOK
  <2>4. [Next]_vars
    BY <2>1, <2>3, LiquidationSteps
  <2> QED
    BY <2>2, <2>4 DEF BotTypeOK
<1>6. CASE Expire
  <2>1. inFlight' = None /\ UNCHANGED <<vars, listed, process>>
    BY <1>6 DEF Expire
  <2> QED
    BY <2>1 DEF BotTypeOK, process
<1>7. CASE UNCHANGED allVars
  <2>1. UNCHANGED <<vars, botVars>>
    BY <1>7 DEF allVars
  <2> QED
    BY <2>1 DEF BotTypeOK, botVars, process
<1> QED
  BY <1>1, <1>2, <1>3, <1>4, <1>5, <1>6, <1>7 DEF BotNext

(* What the system keeps true while the bot runs.                           *)
LEMMA BotKeeps == BotSpec => [](Ledger /\ Configured /\ BotTypeOK)
<1>1. BotInit => Ledger /\ Configured /\ BotTypeOK
  <2> SUFFICES ASSUME BotInit PROVE Ledger /\ Configured /\ BotTypeOK
    OBVIOUS
  <2>1. Ledger /\ Configured
    BY InitLedger, InitConfigured DEF BotInit
  <2>2. /\ listed = << >> /\ activeTrades = << >> /\ pc = "down" /\ currentPrice = 0
        /\ outdated = FALSE /\ inFlight = None
    BY DEF BotInit
  <2>3. /\ << >> \in Seq(Entry) /\ << >> \in Seq(DOMAIN listed)
        /\ Len(<< >>) <= MaxWatched
    BY BotAssumption, EmptySeq
  <2> QED
    BY <2>1, <2>2, <2>3 DEF BotTypeOK
<1>2. Ledger /\ Configured /\ BotTypeOK /\ [BotNext]_allVars
        => (Ledger /\ Configured /\ BotTypeOK)'
  BY BotStepKeeps, StepKeeps, ConfigStep DEF Kept
<1> QED
  BY <1>1, <1>2, PTL DEF BotSpec

(* BotTypeOK is kept: the loop never reads past the list it splices, the    *)
(* list names only entries the bot was written with, and what is under way *)
(* names a possible trade.                                                 *)
THEOREM BotTypesTheorem == BotSpec => []BotTypeOK
BY BotKeeps, PTL

(* BotSpec implements Spec: whatever the bot does and however it fails, the *)
(* contracts see nothing that they do not see without it, and every        *)
(* theorem about Spec holds with the bot running.                          *)
THEOREM BotHarmless == BotSpec => Spec
<1>1. BotInit => Init
  BY DEF BotInit
<1>2. Ledger /\ Configured /\ BotTypeOK /\ [BotNext]_allVars => [Next]_vars
  BY BotStepKeeps
<1> QED
  BY <1>1, <1>2, BotKeeps, PTL DEF BotSpec, Spec

(* What is left of a list keeps its order: up to the entry taken out the    *)
(* places are the same, behind it they are one less.                       *)
LEMMA WithoutElements ==
    ASSUME NEW S, NEW list \in Seq(S), NEW j \in DOMAIN list
    PROVE  \A m \in DOMAIN Without(list, j) :
              /\ m \in Nat
              /\ m < j => m \in DOMAIN list /\ Without(list, j)[m] = list[m]
              /\ m >= j => m + 1 \in DOMAIN list /\ Without(list, j)[m] = list[m + 1]
<1>1. DOMAIN list = 1 .. Len(list) /\ Len(list) \in Nat
  BY LenProperties
<1>2. j \in 1 .. Len(list) /\ j \in Int /\ j - 1 \in Int /\ j + 1 \in Int
  BY <1>1
<1> DEFINE front == SubSeq(list, 1, j - 1)
           back == SubSeq(list, j + 1, Len(list))
<1>3. /\ front \in Seq(S) /\ Len(front) = j - 1
      /\ \A m \in 1 .. j - 1 : front[m] = list[m]
  <2>1. \A m \in 1 .. j - 1 : list[m] \in S
    BY <1>1, <1>2, ElementOfSeq
  <2> QED
    BY <1>2, <2>1, SubSeqProperties
<1>4. /\ back \in Seq(S) /\ Len(back) = Len(list) - j
      /\ \A m \in 1 .. Len(list) - j : back[m] = list[j + m]
  <2>1. \A m \in j + 1 .. Len(list) : list[m] \in S
    BY <1>1, <1>2, ElementOfSeq
  <2> QED
    BY <1>1, <1>2, <2>1, SubSeqProperties
<1> HIDE DEF front, back
<1>5. /\ Without(list, j) = front \o back
      /\ front \o back \in Seq(S)
      /\ Len(front \o back) = Len(list) - 1
      /\ \A m \in 1 .. Len(list) - 1 :
            (front \o back)[m] = IF m <= j - 1 THEN front[m] ELSE back[m - (j - 1)]
  <2>1. Without(list, j) = front \o back
    BY DEF Without, front, back
  <2>2. Len(front) + Len(back) = Len(list) - 1
    BY <1>1, <1>2, <1>3, <1>4
  <2>3. /\ front \o back \in Seq(S)
        /\ Len(front \o back) = Len(front) + Len(back)
        /\ \A m \in 1 .. Len(front) + Len(back) :
              (front \o back)[m] = IF m <= Len(front) THEN front[m] ELSE back[m - Len(front)]
    BY <1>3, <1>4, ConcatProperties
  <2>4. Len(front) = j - 1
    BY <1>3
  <2> QED
    BY <2>1, <2>2, <2>3, <2>4
<1>6. DOMAIN Without(list, j) = 1 .. Len(list) - 1
  BY <1>5, LenProperties
<1> SUFFICES ASSUME NEW m \in DOMAIN Without(list, j)
             PROVE  /\ m \in Nat
                    /\ m < j => m \in DOMAIN list /\ Without(list, j)[m] = list[m]
                    /\ m >= j => m + 1 \in DOMAIN list /\ Without(list, j)[m] = list[m + 1]
  OBVIOUS
<1>7. m \in 1 .. Len(list) - 1
  BY <1>6
<1>8. CASE m < j
  <2>1. m \in 1 .. j - 1 /\ m <= j - 1
    BY <1>2, <1>7, <1>8
  <2>2. Without(list, j)[m] = list[m]
    BY <1>3, <1>5, <1>7, <2>1
  <2> QED
    BY <1>1, <1>2, <1>7, <1>8, <2>2
<1>9. CASE m >= j
  <2>1. m - (j - 1) \in 1 .. Len(list) - j /\ j + (m - (j - 1)) = m + 1 /\ ~(m <= j - 1)
    BY <1>1, <1>2, <1>7, <1>9
  <2>2. Without(list, j)[m] = list[m + 1]
    BY <1>4, <1>5, <1>7, <2>1
  <2> QED
    BY <1>1, <1>2, <1>7, <1>9, <2>2
<1> QED
  BY <1>2, <1>7, <1>8, <1>9

(* What is under way is off the list, and no other entry is about the same  *)
(* trade: the operator writes down each trade once, the list holds each    *)
(* entry once, and a process that never stopped has all it sent spliced    *)
(* out.                                                                    *)
SentIsDropped ==
    /\ \A j, m \in DOMAIN listed : listed[j].key = listed[m].key => j = m
    /\ \A j, m \in DOMAIN activeTrades : activeTrades[j] = activeTrades[m] => j = m
    /\ pc = "down" => listed = << >>
    /\ listed = << >> => inFlight = None
    /\ inFlight # None =>
          \A j \in DOMAIN activeTrades : WatchedEntry(activeTrades, j).key # inFlight

(* Everybody else's steps, the pass until it sends, and the network's       *)
(* decision.                                                               *)
LEMMA ListStands ==
    ASSUME SentIsDropped, UNCHANGED <<listed, activeTrades>>, inFlight' \in {inFlight, None},
           pc' = "down" => pc = "down"
    PROVE  SentIsDropped'
BY DEF SentIsDropped, WatchedEntry

(* A step that walks the list, or goes to sleep, on the list it was given.  *)
LEMMA WalkLists ==
    ASSUME NEW list, NEW observed, NEW first,
           WalkFrom(list, observed, first) \/ Sleep(list)
    PROVE  activeTrades' = list /\ pc' # "down"
BY DEF WalkFrom, Sleep

(* The entry sent, or rejected, is spliced out.                             *)
LEMMA SplicedOut ==
    ASSUME BotTypeOK, SentIsDropped, pc = "send", GoOn, UNCHANGED listed,
           inFlight' \in {inFlight, Current}
    PROVE  SentIsDropped'
<1>1. /\ at \in DOMAIN activeTrades /\ activeTrades \in Seq(DOMAIN listed)
      /\ listed \in Seq(Entry)
  BY DEF BotTypeOK
<1> DEFINE list == Without(activeTrades, at)
<1>2. activeTrades' = list /\ pc' # "down"
  BY WalkLists DEF GoOn
<1>3. DOMAIN activeTrades = 1 .. Len(activeTrades) /\ Len(activeTrades) \in Nat
  BY <1>1, LenProperties
<1>4. at \in Nat
  BY <1>1, <1>3
<1>5. \A m \in DOMAIN list :
          /\ m \in Nat
          /\ m < at => m \in DOMAIN activeTrades /\ list[m] = activeTrades[m]
          /\ m >= at => m + 1 \in DOMAIN activeTrades /\ list[m] = activeTrades[m + 1]
  BY <1>1, WithoutElements
<1>6. \A m \in DOMAIN list :
          \E q \in DOMAIN activeTrades : q # at /\ list[m] = activeTrades[q]
  <2> SUFFICES ASSUME NEW m \in DOMAIN list
               PROVE  \E q \in DOMAIN activeTrades : q # at /\ list[m] = activeTrades[q]
    OBVIOUS
  <2>1. /\ m \in Nat
        /\ m < at => m \in DOMAIN activeTrades /\ list[m] = activeTrades[m]
        /\ m >= at => m + 1 \in DOMAIN activeTrades /\ list[m] = activeTrades[m + 1]
    BY <1>5
  <2>2. at \in Nat
    BY <1>4
  <2>3. CASE m < at
    BY <2>1, <2>2, <2>3
  <2>4. CASE m >= at
    <3>1. m + 1 # at
      BY <2>1, <2>2, <2>4
    <3> QED
      BY <2>1, <2>4, <3>1
  <2> QED
    BY <2>1, <2>2, <2>3, <2>4
<1>7. \A j, m \in DOMAIN list : list[j] = list[m] => j = m
  <2> SUFFICES ASSUME NEW j \in DOMAIN list, NEW m \in DOMAIN list, list[j] = list[m]
               PROVE  j = m
    OBVIOUS
  <2>1. /\ j \in Nat /\ m \in Nat /\ at \in Nat
        /\ j < at => j \in DOMAIN activeTrades /\ list[j] = activeTrades[j]
        /\ j >= at => j + 1 \in DOMAIN activeTrades /\ list[j] = activeTrades[j + 1]
        /\ m < at => m \in DOMAIN activeTrades /\ list[m] = activeTrades[m]
        /\ m >= at => m + 1 \in DOMAIN activeTrades /\ list[m] = activeTrades[m + 1]
    BY <1>4, <1>5
  <2>2. \A p, q \in DOMAIN activeTrades : activeTrades[p] = activeTrades[q] => p = q
    BY DEF SentIsDropped
  <2> HIDE DEF list
  <2>3. CASE j < at /\ m < at
    BY <2>1, <2>2, <2>3
  <2>4. CASE j < at /\ m >= at
    <3>1. j = m + 1
      BY <2>1, <2>2, <2>4
    <3> QED
      BY <2>1, <2>4, <3>1
  <2>5. CASE j >= at /\ m < at
    <3>1. j + 1 = m
      BY <2>1, <2>2, <2>5
    <3> QED
      BY <2>1, <2>5, <3>1
  <2>6. CASE j >= at /\ m >= at
    <3>1. j + 1 = m + 1
      BY <2>1, <2>2, <2>6
    <3> QED
      BY <2>1, <3>1
  <2> QED
    BY <2>1, <2>3, <2>4, <2>5, <2>6
<1> HIDE DEF list
<1>8. ASSUME NEW m \in DOMAIN list, inFlight' # None
      PROVE  listed[list[m]].key # inFlight'
  <2>1. PICK q \in DOMAIN activeTrades : q # at /\ list[m] = activeTrades[q]
    BY <1>6
  <2>2. activeTrades[q] # activeTrades[at]
    BY <1>1, <2>1 DEF SentIsDropped
  <2>3. activeTrades[q] \in DOMAIN listed /\ activeTrades[at] \in DOMAIN listed
    BY <1>1, <1>3, ElementOfSeq
  <2>4. listed[activeTrades[q]].key # Current
    BY <2>2, <2>3 DEF SentIsDropped, Current, WatchedEntry
  <2>5. inFlight # None => listed[activeTrades[q]].key # inFlight
    BY DEF SentIsDropped, WatchedEntry
  <2>6. listed[list[m]].key # Current
    BY <2>1, <2>4
  <2>7. inFlight # None => listed[list[m]].key # inFlight
    BY <2>1, <2>5
  <2>8. CASE inFlight' = inFlight
    BY <1>8, <2>7, <2>8
  <2>9. CASE inFlight' = Current
    BY <2>6, <2>9
  <2> QED
    BY <2>8, <2>9
<1>9. listed # << >>
  <2>1. activeTrades[at] \in DOMAIN listed
    BY <1>1, <1>3, ElementOfSeq
  <2> QED
    BY <2>1
<1> QED
  BY <1>2, <1>7, <1>8, <1>9 DEF SentIsDropped, WatchedEntry

(* The first list: each trade once, and nothing sent before.                *)
LEMMA DeployLists ==
    ASSUME SentIsDropped, Deploy
    PROVE  SentIsDropped'
<1>1. PICK count \in 1 .. MaxWatched : \E keys \in [1 .. count -> Key] :
        /\ \A j, m \in 1 .. count : keys[j] = keys[m] => j = m
        /\ Start([j \in 1 .. count |-> EntryOf(keys[j])])
  BY DEF Deploy
<1>2. PICK keys \in [1 .. count -> Key] :
        /\ \A j, m \in 1 .. count : keys[j] = keys[m] => j = m
        /\ Start([j \in 1 .. count |-> EntryOf(keys[j])])
  BY <1>1
<1> DEFINE literal == [j \in 1 .. count |-> EntryOf(keys[j])]
<1>3. /\ listed' = literal /\ activeTrades' = [j \in 1 .. count |-> j] /\ pc' = "fetch"
  BY <1>2 DEF Start
<1>4. inFlight' = None
  BY DEF Deploy, SentIsDropped
<1>5. \A j \in 1 .. count : literal[j].key = keys[j]
  BY DEF EntryOf
<1>6. DOMAIN literal = 1 .. count
  OBVIOUS
<1> HIDE DEF literal
<1>7. \A j, m \in DOMAIN listed' : listed'[j].key = listed'[m].key => j = m
  BY <1>2, <1>3, <1>5, <1>6
<1>8. \A j, m \in DOMAIN activeTrades' : activeTrades'[j] = activeTrades'[m] => j = m
  BY <1>3
<1> QED
  BY <1>3, <1>4, <1>7, <1>8 DEF SentIsDropped

(* As long as nothing interrupts the process, no step puts back what was    *)
(* sent.                                                                   *)
LEMMA StaysDropped ==
    BotTypeOK /\ SentIsDropped /\ [BotNext]_allVars /\ ~(BotNext /\ Interruption)
        => SentIsDropped'
<1> SUFFICES ASSUME BotTypeOK, SentIsDropped, [BotNext]_allVars,
                    ~(BotNext /\ Interruption)
             PROVE  SentIsDropped'
  OBVIOUS
<1>1. CASE World \/ UNCHANGED allVars
  <2>1. UNCHANGED botVars
    BY <1>1, WorldSteps DEF allVars
  <2> QED
    BY <2>1, ListStands DEF botVars, process
<1>2. CASE Deploy
  BY <1>2, DeployLists
<1>3. ~Crash
  BY DEF Interruption, BotNext
<1>4. ~Restart
  BY DEF Restart, SentIsDropped
<1>5. CASE Fetched \/ NotFetched \/ NotPrepared
  <2>1. activeTrades' = activeTrades /\ pc' # "down" /\ UNCHANGED <<listed, inFlight>>
    BY <1>5, WalkLists DEF Fetched, NotFetched, NotPrepared
  <2> QED
    BY <2>1, ListStands
<1>6. CASE Prepared \/ Wake
  BY <1>6, ListStands DEF Prepared, Wake
<1>7. CASE Sent \/ Rejected
  BY <1>7, SplicedOut DEF Sent, Rejected
<1>8. CASE SendThrows
  <2>1. activeTrades' = activeTrades /\ pc' # "down" /\ listed' = listed
    BY <1>8, WalkLists DEF SendThrows
  <2>2. inFlight' = inFlight
    BY <1>8 DEF Interruption, BotNext, BotStep
  <2> QED
    BY <2>1, <2>2, ListStands
<1>9. CASE Apply
  <2>1. UNCHANGED <<listed, activeTrades, pc>> /\ inFlight' = None
    BY <1>9 DEF Apply
  <2> QED
    BY <2>1, ListStands
<1>10. CASE Expire
  <2>1. UNCHANGED <<listed, activeTrades, pc>> /\ inFlight' = None
    BY <1>10 DEF Expire, process
  <2> QED
    BY <2>1, ListStands
<1> QED
  BY <1>1, <1>2, <1>3, <1>4, <1>5, <1>6, <1>7, <1>8, <1>9, <1>10 DEF BotNext, BotStep

(* Only the world and the network change a trade, and neither the list.     *)
LEMMA ListStaysAsTradesEnd ==
    ASSUME Ledger, Configured, BotTypeOK, [BotNext]_allVars, trade' # trade
    PROVE  UNCHANGED <<listed, activeTrades>>
<1>1. ~UNCHANGED vars
  BY DEF vars, pmVars
<1>2. CASE World
  BY <1>2, WorldSteps DEF botVars, process
<1>3. CASE Apply
  BY <1>3 DEF Apply
<1>4. ~Deploy /\ ~Crash /\ ~Restart /\ ~BotStep /\ ~Expire /\ ~UNCHANGED allVars
  BY <1>1, DeployKeeps, RestartKeeps, FetchKeeps, PrepareKeeps, SendKeeps
  DEF BotStep, Wake, Expire, allVars
<1> QED
  BY <1>2, <1>3, <1>4 DEF BotNext

(* A process that was not interrupted never keeps an entry of a trade that  *)
(* its own transaction ended, nor one that another ended while the          *)
(* transaction was under way.                                              *)
THEOREM OwnLiquidationsTheorem == SendingSpec => OwnLiquidationsHoldUpNothing
<1> DEFINE Unheld ==
        ~interrupted /\ inFlight # None /\ trade[inFlight] # None /\ trade'[inFlight] = None
        => \A j \in DOMAIN activeTrades' : WatchedEntry(activeTrades, j)'.key # inFlight
    Dropped == interrupted \in BOOLEAN /\ (~interrupted => SentIsDropped)
<1>1. SendingInit => Dropped
  <2> SUFFICES ASSUME SendingInit PROVE Dropped
    OBVIOUS
  <2>1. interrupted \in BOOLEAN
    BY Zenon DEF SendingInit
  <2>2. listed = << >> /\ activeTrades = << >> /\ inFlight = None
    BY DEF SendingInit, BotInit
  <2>3. SentIsDropped
    BY <2>2 DEF SentIsDropped
  <2> QED
    BY <2>1, <2>3
<1>2. [SendingNext]_historyVars => [BotNext]_allVars
  BY DEF SendingNext, historyVars
<1>3. BotTypeOK /\ Dropped /\ [SendingNext]_historyVars => Dropped'
  <2> SUFFICES ASSUME BotTypeOK, Dropped, [SendingNext]_historyVars PROVE Dropped'
    OBVIOUS
  <2>1. CASE SendingNext
    <3>1. BotNext /\ interrupted' = (interrupted \/ Interruption)
      BY <2>1 DEF SendingNext
    <3>2. interrupted' \in BOOLEAN
      BY <3>1, Zenon
    <3>3. ASSUME ~interrupted' PROVE SentIsDropped'
      <4>1. ~interrupted /\ ~Interruption
        BY <3>1, <3>3, Zenon
      <4> QED
        BY <3>1, <4>1, StaysDropped
    <3> QED
      BY <3>2, <3>3
  <2>2. CASE UNCHANGED historyVars
    BY <2>2 DEF historyVars, allVars, botVars, process, SentIsDropped, WatchedEntry
  <2> QED
    BY <2>1, <2>2
<1>4. Ledger /\ Configured /\ BotTypeOK /\ Dropped /\ [SendingNext]_historyVars
        => [Unheld]_historyVars
  <2> SUFFICES ASSUME Ledger, Configured, BotTypeOK, Dropped, [BotNext]_allVars, ~interrupted,
                      inFlight # None, trade[inFlight] # None, trade'[inFlight] = None,
                      NEW j \in DOMAIN activeTrades'
               PROVE  WatchedEntry(activeTrades, j)'.key # inFlight
    BY <1>2
  <2>1. UNCHANGED <<listed, activeTrades>>
    BY ListStaysAsTradesEnd
  <2> QED
    BY <2>1 DEF SentIsDropped, WatchedEntry
<1> HIDE DEF Unheld, Dropped
<1>5. SendingSpec => BotSpec
  BY <1>2, PTL DEF SendingSpec, SendingInit, BotSpec
<1>6. SendingSpec => [][Unheld]_historyVars
  BY <1>1, <1>3, <1>4, <1>5, BotKeeps, PTL DEF SendingSpec
<1> QED
  BY <1>6 DEF OwnLiquidationsHoldUpNothing, Unheld

-----------------------------------------------------------------------------
(* What the bot decides by its own formula, the contracts accept.           *)

(* The bot's price is theirs, or nearer to ruin: for any entry of a trade   *)
(* with a value, opened at a price, and any price the bot may see.         *)
LEMMA BotAgrees ==
    ASSUME NEW entry \in Entry, entry.collateral > 0, entry.leverage > 0, entry.openPrice > 0,
           entry.liqThresholdP <= 100, NEW now \in Nat, now > 0, FoundLiquidatable(entry, now)
    PROVE  IsLiquidatable(now,
               LiquidationPrice(entry.openPrice, entry.isLong, entry.collateral,
                                entry.leverage, 0, 0, entry.liqThresholdP),
               entry.isLong)
<1> DEFINE o == entry.openPrice
           c == entry.collateral
           l == entry.leverage
           t == entry.liqThresholdP
           b == DivTrunc(c * t, 100)
           more == c - DivTrunc(c * (100 - t), 100)
           near == DivTrunc(MulDivFloor(o, b, c), l)
           far == DivTrunc(more * o, c * l)
<1>1. /\ o \in Nat /\ o > 0 /\ c \in Nat /\ c > 0 /\ l \in Nat /\ l > 0 /\ t \in Nat /\ t <= 100
      /\ entry.isLong \in BOOLEAN
  BY DEF Entry
<1>2. /\ CalculateLiquidationPrice(entry) = IF entry.isLong THEN o - far ELSE o + far
      /\ LiquidationPrice(o, entry.isLong, c, l, 0, 0, t)
            = FloorAtZero(IF entry.isLong THEN o - DivTrunc(MulDivFloor(o, b - 0 - 0, c), l)
                                          ELSE o + DivTrunc(MulDivFloor(o, b - 0 - 0, c), l))
  BY DEF CalculateLiquidationPrice, LiquidationPrice
<1> HIDE DEF o, c, l, t
<1>3. b \in Nat /\ more \in Nat /\ b <= more
  <2>1. /\ b \in Nat /\ DivTrunc(c * (100 - t), 100) \in Nat
        /\ b <= c - DivTrunc(c * (100 - t), 100)
    BY <1>1, Hundredths
  <2> HIDE DEF b
  <2>2. c - DivTrunc(c * (100 - t), 100) \in Nat
    BY <1>1, <2>1
  <2> QED
    BY <2>1, <2>2
<1>4. b - 0 - 0 = b
  BY <1>3
<1> HIDE DEF b, more
<1>5. near \in Nat /\ far \in Nat /\ near <= far
  BY <1>1, <1>3, DistancesOrdered
<1>6. LiquidationPrice(o, entry.isLong, c, l, 0, 0, t)
        = FloorAtZero(IF entry.isLong THEN o - near ELSE o + near)
  BY <1>2, <1>4
<1> HIDE DEF near, far
<1>7. IF entry.isLong THEN now <= o - far ELSE now >= o + far
  BY <1>1, <1>2 DEF FoundLiquidatable
<1> DEFINE theirs == LiquidationPrice(o, entry.isLong, c, l, 0, 0, t)
<1> HIDE DEF theirs
<1>8. theirs # 0 /\ IF entry.isLong THEN now <= theirs ELSE now >= theirs
  BY <1>1, <1>5, <1>6, <1>7 DEF FloorAtZero, theirs
<1> QED
  BY <1>8 DEF IsLiquidatable, theirs, o, c, l, t

(* So an entry the bot finds liquidatable is due, if the trade is still the *)
(* one it is about and the contracts read the price the bot goes by.       *)
LEMMA FoundIsDue ==
    ASSUME Ledger, Configured, NEW k \in Key, NEW entry \in Entry, trade[k] # None,
           entry = EntryOf(k), trade[k].collateral > 0, trade[k].openPrice > 0,
           NEW now \in Nat, now > 0, PriceOf(k[2]) = now, FoundLiquidatable(entry, now)
    PROVE  Due(k)
<1>1. k[2] \in PairIndex /\ trade[k] \in Trade
  BY DEF Key, Ledger, PmTypeOK
<1>2. HasPair(k[2]) /\ ValidPairInfo(pair[k[2]])
  BY <1>1 DEF Configured, PairsUsable
<1>3. pair[k[2]].liqThresholdP <= 100
  BY <1>2 DEF ValidPairInfo
<1>4. None \notin Nat
  BY BotAssumption
<1>5. Quoted(k[2]) /\ PriceOf(k[2]) # 0
  BY <1>2, <1>4 DEF Quoted
<1>6. /\ entry.isLong = trade[k].isLong /\ entry.leverage = trade[k].leverage
      /\ entry.openPrice = trade[k].openPrice /\ entry.collateral = trade[k].collateral
      /\ entry.liqThresholdP = pair[k[2]].liqThresholdP
  BY DEF EntryOf
<1>7. trade[k].leverage > 0 /\ trade[k].collateral # 0
  BY <1>1 DEF Trade
<1>8. Liquidatable(trade[k], k[2])
  BY <1>3, <1>6, <1>7, BotAgrees DEF Liquidatable
<1> QED
  BY <1>5, <1>7, <1>8 DEF Due

(* What the loop has stopped at, it found liquidatable at the price of the  *)
(* pass, which is not zero.                                                *)
Decided ==
    pc \in {"prepare", "send"} =>
        currentPrice > 0 /\ FoundLiquidatable(WatchedEntry(activeTrades, at), currentPrice)

LEMMA WalkDecides ==
    ASSUME NEW list, NEW observed \in Nat, NEW first, WalkFrom(list, observed, first),
           observed > 0, listed' = listed
    PROVE  Decided' /\ (pc' = "prepare" => currentPrice' = observed)
<1> DEFINE found == {j \in first .. Len(list) :
                        FoundLiquidatable(WatchedEntry(list, j), observed)}
<1>1. CASE found = {}
  <2>1. pc' = "sleep"
    BY <1>1 DEF WalkFrom, Sleep
  <2> QED
    BY <2>1 DEF Decided
<1>2. CASE found # {}
  <2>1. /\ activeTrades' = list /\ currentPrice' = observed /\ at' \in found
    BY <1>2 DEF WalkFrom
  <2>2. FoundLiquidatable(WatchedEntry(list, at'), observed)
    BY <2>1
  <2>3. WatchedEntry(activeTrades, at)' = WatchedEntry(list, at')
    BY <2>1 DEF WatchedEntry
  <2>4. currentPrice' > 0 /\ FoundLiquidatable(WatchedEntry(activeTrades, at)', currentPrice')
    BY <2>1, <2>2, <2>3
  <2> QED
    BY <2>1, <2>4 DEF Decided, FoundLiquidatable, CalculateLiquidationPrice
<1> QED
  BY <1>1, <1>2

(* A pass that fetches a price, or not.                                     *)
LEMMA FetchDecides ==
    ASSUME Ledger, Fetched \/ NotFetched
    PROVE  /\ Decided'
           /\ pc' = "prepare" =>
                /\ UNCHANGED vars /\ price[BotAsset] # None
                /\ currentPrice' = DivTrunc(price[BotAsset], pow10(BOT_EXP))
<1>1. CASE Fetched
  <2> DEFINE observed == DivTrunc(price[BotAsset], pow10(BOT_EXP))
  <2>1. /\ UNCHANGED vars /\ listed' = listed /\ price[BotAsset] # None
        /\ observed = 0 => Sleep(activeTrades)
        /\ observed # 0 => WalkFrom(activeTrades, observed, 1)
    BY <1>1 DEF Fetched
  <2>2. observed \in Nat
    BY <2>1, ObservedTypes DEF Ledger
  <2> HIDE DEF observed
  <2>3. CASE observed = 0
    <3>1. pc' = "sleep"
      BY <2>1, <2>3 DEF Sleep
    <3> QED
      BY <3>1 DEF Decided
  <2>4. CASE observed # 0
    BY <2>1, <2>2, <2>4, WalkDecides DEF observed
  <2> QED
    BY <2>3, <2>4
<1>2. CASE NotFetched
  <2>1. pc' = "sleep"
    BY <1>2 DEF NotFetched, Sleep
  <2> QED
    BY <2>1 DEF Decided
<1> QED
  BY <1>1, <1>2

(* Whoever acts while the bot awaits an answer, its decision stands; and it *)
(* goes on through the pass at a price that is not zero.                   *)
LEMMA DecisionStands ==
    Ledger /\ BotTypeOK /\ Decided /\ [BotNext]_allVars => Decided'
<1> SUFFICES ASSUME Ledger, BotTypeOK, Decided, [BotNext]_allVars PROVE Decided'
  OBVIOUS
<1>1. ASSUME UNCHANGED <<listed, activeTrades, currentPrice, at>>,
             pc' \in {"prepare", "send"} => pc \in {"prepare", "send"}
      PROVE  Decided'
  BY <1>1 DEF Decided, FoundLiquidatable, CalculateLiquidationPrice, WatchedEntry
<1>2. ASSUME pc' \notin {"prepare", "send"} PROVE Decided'
  BY <1>2 DEF Decided
<1>3. CASE World \/ UNCHANGED allVars
  <2>1. UNCHANGED botVars
    BY <1>3, WorldSteps DEF allVars
  <2> QED
    BY <1>1, <2>1 DEF botVars, process
<1>4. CASE Deploy \/ Crash \/ Restart \/ Wake
  <2>1. pc' \in {"fetch", "down"}
    BY <1>4 DEF Deploy, Crash, Restart, Wake, Start
  <2> QED
    BY <1>2, <2>1
<1>5. CASE Fetched \/ NotFetched
  BY <1>5, FetchDecides
<1>6. CASE Prepared
  BY <1>1, <1>6 DEF Prepared
<1>7. CASE NotPrepared \/ SendThrows
  <2>1. pc' = "sleep"
    BY <1>7 DEF NotPrepared, SendThrows, Sleep
  <2> QED
    BY <1>2, <2>1
<1>8. CASE Sent \/ Rejected
  <2>1. pc = "send" /\ GoOn /\ listed' = listed
    BY <1>8 DEF Sent, Rejected
  <2>2. currentPrice \in Nat /\ currentPrice > 0
    BY <2>1 DEF BotTypeOK, Decided
  <2> QED
    BY <2>1, <2>2, WalkDecides DEF GoOn
<1>9. CASE Apply
  <2>1. UNCHANGED <<listed, activeTrades, pc, currentPrice, at>>
    BY <1>9 DEF Apply
  <2> QED
    BY <1>1, <2>1
<1>10. CASE Expire
  BY <1>1, <1>10 DEF Expire, process
<1> QED
  BY <1>3, <1>4, <1>5, <1>6, <1>7, <1>8, <1>9, <1>10 DEF BotNext, BotStep

BotInv == Ledger /\ Configured /\ BotTypeOK /\ Decided

LEMMA BotInvKept == BotSpec => []BotInv
<1>1. BotInit => Decided
  BY DEF BotInit, Decided
<1>2. BotSpec => [](Ledger /\ Configured /\ BotTypeOK /\ Decided)
  BY <1>1, DecisionStands, BotKeeps, PTL DEF BotSpec
<1> QED
  BY <1>2, PTL DEF BotInv

(* The agreement, in any state of the bot.                                  *)
LEMMA DecisionsAgree == BotInv => OnlyStaleDecisionsRefused
<1> SUFFICES ASSUME BotInv, pc \in {"prepare", "send"}, OnATrade,
                    PriceOf(Current[2]) = currentPrice
             PROVE  Due(Current)
  BY DEF OnlyStaleDecisionsRefused
<1>1. /\ at \in DOMAIN activeTrades /\ activeTrades \in Seq(DOMAIN listed)
      /\ listed \in Seq(Entry) /\ currentPrice \in Nat
  BY DEF BotInv, BotTypeOK
<1> DEFINE entry == WatchedEntry(activeTrades, at)
<1>2. entry \in Entry
  <2>1. activeTrades[at] \in DOMAIN listed
    BY <1>1, LenProperties, ElementOfSeq
  <2>2. listed[activeTrades[at]] \in Entry
    BY <1>1, <2>1, LenProperties, ElementOfSeq
  <2> QED
    BY <2>2 DEF WatchedEntry
<1>3. Current \in Key /\ Current = entry.key
  BY <1>2 DEF Current, Entry
<1>4. /\ trade[Current] # None /\ entry = EntryOf(Current)
      /\ trade[Current].collateral > 0 /\ trade[Current].openPrice > 0
  BY DEF OnATrade, Watches
<1>5. currentPrice > 0 /\ FoundLiquidatable(entry, currentPrice)
  BY DEF BotInv, Decided
<1> HIDE DEF entry
<1> QED
  BY <1>1, <1>2, <1>3, <1>4, <1>5, FoundIsDue DEF BotInv

(* A transaction the bot prepares or sends is refused only for what changed *)
(* since the bot decided: never for how the bot computes.                  *)
THEOREM OnlyStaleTheorem == BotSpec => []OnlyStaleDecisionsRefused
BY BotInvKept, DecisionsAgree, PTL

(* Only a fetch begins a walk of the list.                                  *)
LEMMA FetchBegins ==
    ASSUME BotTypeOK, [BotNext]_allVars, pc = "fetch", pc' = "prepare"
    PROVE  Fetched
<1>1. pc' # pc
  OBVIOUS
<1>2. ~World /\ ~UNCHANGED allVars
  BY <1>1, WorldSteps DEF allVars, botVars, process
<1>3. ~Deploy /\ ~Restart /\ ~Crash
  BY DEF Deploy, Restart, Crash, Start
<1>4. ~NotFetched
  BY DEF NotFetched, Sleep
<1>5. ~Prepared /\ ~NotPrepared /\ ~Sent /\ ~Rejected /\ ~SendThrows /\ ~Wake
  BY DEF Prepared, NotPrepared, Sent, Rejected, SendThrows, Wake
<1>6. ~Apply
  BY <1>1 DEF Apply
<1>7. ~Expire
  BY <1>1 DEF Expire, process
<1> QED
  BY <1>2, <1>3, <1>4, <1>5, <1>6, <1>7 DEF BotNext, BotStep

(* With the decimals it was written for, the bot reads the contracts' price *)
(* to the last unit, and finds liquidatable only what they do.             *)
THEOREM FreshDecisionsTheorem == BotSpec => FreshDecisionsAreDue
<1> DEFINE Fresh ==
        /\ pc = "fetch" /\ pc' = "prepare" /\ OnATrade'
        /\ pair[Current'[2]].asset = BotAsset /\ decimals = PRICE_EXP + BOT_EXP
<1>1. ASSUME Ledger, BotTypeOK, [BotNext]_allVars, Fresh
      PROVE  PriceOf(Current[2])' = currentPrice'
  <2>1. Fetched
    BY <1>1, FetchBegins
  <2>2. /\ UNCHANGED vars /\ price[BotAsset] # None
        /\ currentPrice' = DivTrunc(price[BotAsset], pow10(BOT_EXP))
    BY <1>1, <2>1, FetchDecides
  <2>3. pair' = pair /\ price' = price /\ decimals' = decimals
    BY <2>2 DEF vars, registryVars, oracle
  <2>4. price[BotAsset] \in Nat /\ PRICE_EXP \in Nat /\ BOT_EXP \in Nat
    BY <1>1, <2>2, BotAssumption, PositionAssumption, DecimalsAssumption DEF Ledger, PmTypeOK
  <2>5. decimals >= PRICE_EXP /\ decimals - PRICE_EXP = BOT_EXP
    BY <1>1, <2>4
  <2>6. PriceOf(Current'[2]) = DivTrunc(price[BotAsset], pow10(BOT_EXP))
    BY <1>1, <2>2, <2>5 DEF PriceOf, RescaleToPriceScale
  <2>7. PriceOf(Current[2])' = PriceOf(Current'[2])
    BY <2>3 DEF PriceOf
  <2> QED
    BY <2>2, <2>6, <2>7
<1>2. BotInv /\ OnlyStaleDecisionsRefused' /\ [BotNext]_allVars
        => [Fresh => Due(Current)']_botVars
  <2> SUFFICES ASSUME BotInv, OnlyStaleDecisionsRefused', [BotNext]_allVars, Fresh
               PROVE  Due(Current)'
    OBVIOUS
  <2>1. pc' \in {"prepare", "send"} /\ OnATrade' /\ PriceOf(Current[2])' = currentPrice'
    BY <1>1 DEF BotInv
  <2> QED
    BY <2>1 DEF OnlyStaleDecisionsRefused
<1>3. BotSpec => [][Fresh => Due(Current)']_botVars
  BY <1>2, BotInvKept, OnlyStaleTheorem, PTL DEF BotSpec
<1> QED
  BY <1>3 DEF FreshDecisionsAreDue

-----------------------------------------------------------------------------
(* And they can carry it out.                                               *)

(* Traders and keepers rewire nothing.                                      *)
LEMMA WiringUntouched ==
    TraderStep \/ KeeperStep => UNCHANGED <<positionManager, registryManager>>
<1> DEFINE Wiring == positionManager' = positionManager /\ registryManager' = registryManager
<1>1. ASSUME NEW trader, NEW i, NEW n, NEW fromPm, NEW net,
             SettleTrade(trader, i, n, fromPm, net)
      PROVE  Wiring
  BY <1>1 DEF SettleTrade, Settle, ReturnCollateralWithPnl, SubOi, vaultConfig
<1>2. ASSUME NEW trader, NEW i, NEW isLong, NEW leverage, NEW effective, NEW tp, NEW sl,
             RecordTrade(trader, i, isLong, leverage, effective, tp, sl), UNCHANGED vaultVars
      PROVE  Wiring
  BY <1>2 DEF RecordTrade, AddOi, vaultVars, vaultConfig
<1>3. ASSUME UNCHANGED <<vaultVars, registryVars>> PROVE Wiring
  BY <1>3 DEF vaultVars, vaultConfig, registryVars
<1> HIDE DEF Wiring
<1>4. ASSUME NEW trader, NEW i, NEW n,
             \/ CloseAtMarket(trader, i, n) \/ CancelLimitOrder(trader, i, n)
             \/ LiquidateTrade(trader, i, n) \/ ExecuteLimitOrder(trader, i, n)
      PROVE  Wiring
  <2>1. CASE CloseAtMarket(trader, i, n)
    BY <1>1, <2>1 DEF CloseAtMarket
  <2>2. CASE LiquidateTrade(trader, i, n)
    BY <1>1, <2>2 DEF LiquidateTrade
  <2>3. CASE CancelLimitOrder(trader, i, n)
    BY <1>3, <2>3 DEF CancelLimitOrder
  <2>4. CASE ExecuteLimitOrder(trader, i, n)
    BY <1>2, <2>4 DEF ExecuteLimitOrder
  <2> QED
    BY <1>4, <2>1, <2>2, <2>3, <2>4
<1>5. ASSUME TraderStep PROVE Wiring
  <2>1. PICK trader \in Holder, i \in PairIndex :
          \/ \E isLong \in BOOLEAN, collateral \in Collateral, leverage \in Leverage,
                tp, sl \in TriggerPrice :
              \/ OpenMarketTrade(trader, i, isLong, collateral, leverage, tp, sl)
              \/ \E limitPrice \in LimitPrice :
                  PlaceLimitOrder(trader, i, isLong, collateral, leverage, limitPrice, tp, sl)
          \/ \E n \in Slot :
              \/ CloseMarketTrade(trader, i, n)
              \/ CancelLimitOrder(trader, i, n)
              \/ \E tp, sl \in TriggerPrice :
                  \/ UpdateTpSl(trader, i, n, tp, sl)
                  \/ \E limitPrice \in LimitPrice :
                      UpdateLimitOrder(trader, i, n, limitPrice, tp, sl)
    BY <1>5 DEF TraderStep
  <2>2. ASSUME NEW isLong, NEW collateral, NEW leverage, NEW tp, NEW sl,
               \/ OpenMarketTrade(trader, i, isLong, collateral, leverage, tp, sl)
               \/ \E limitPrice \in LimitPrice :
                   PlaceLimitOrder(trader, i, isLong, collateral, leverage, limitPrice, tp, sl)
        PROVE  Wiring
    BY <1>2, <1>3, <2>2 DEF OpenMarketTrade, PlaceLimitOrder
  <2>3. ASSUME NEW n, NEW tp, NEW sl,
               \/ UpdateTpSl(trader, i, n, tp, sl)
               \/ \E limitPrice \in LimitPrice :
                   UpdateLimitOrder(trader, i, n, limitPrice, tp, sl)
        PROVE  Wiring
    BY <1>3, <2>3 DEF UpdateTpSl, UpdateLimitOrder
  <2> QED
    BY <1>4, <2>1, <2>2, <2>3 DEF CloseMarketTrade
<1>6. ASSUME KeeperStep PROVE Wiring
  BY <1>4, <1>6 DEF KeeperStep, ExecuteTpSl
<1> QED
  BY <1>5, <1>6 DEF Wiring

(* So among traders, keepers and the bot the contracts stay wired.          *)
LEMMA StaysWired == Ledger /\ Configured /\ BotTypeOK /\ Wired /\ [BotNext]_allVars => Wired'
<1> SUFFICES ASSUME Ledger, Configured, BotTypeOK, Wired, [BotNext]_allVars PROVE Wired'
  OBVIOUS
<1>1. ASSUME UNCHANGED vars PROVE Wired'
  BY <1>1 DEF Wired, vars, vaultVars, vaultConfig, registryVars
<1>2. ASSUME TraderStep \/ KeeperStep PROVE Wired'
  BY <1>2, WiringUntouched DEF Wired
<1>3. CASE World
  <2>1. ASSUME NEW asset, NEW answer, MovePrice(asset, answer) PROVE Wired'
    BY <2>1 DEF MovePrice, Wired, vaultVars, vaultConfig, registryVars
  <2> QED
    BY <1>2, <1>3, <2>1 DEF World
<1>4. CASE Deploy \/ Crash \/ Restart \/ BotStep
  BY <1>1, <1>4, DeployKeeps, RestartKeeps, FetchKeeps, PrepareKeeps, SendKeeps
  DEF BotStep, Wake
<1>5. CASE Apply
  <2>1. inFlight \in Key /\ (Liquidates(inFlight) \/ UNCHANGED vars)
    BY <1>5, ApplyIs DEF Apply, BotTypeOK
  <2>2. Liquidates(inFlight) => KeeperStep
    BY <2>1 DEF Liquidates, KeeperStep, Key
  <2> QED
    BY <1>1, <1>2, <2>1, <2>2
<1>6. CASE Expire \/ UNCHANGED allVars
  BY <1>1, <1>6 DEF Expire, allVars
<1> QED
  BY <1>3, <1>4, <1>5, <1>6 DEF BotNext

(* DueSettles: a due trade settles, whoever sends the transaction.          *)
DueSettles ==
    \A k \in Key :
        Due(k) => Settles(trade[k].collateral, -trade[k].collateral,
                          trade[k].collateral * trade[k].leverage)

(* While the bot runs, every due trade meets all that its liquidation asks  *)
(* for: with OnlyStaleTheorem and LiquidationAccepted, what the bot decided *)
(* and nobody overtook goes through.                                       *)
THEOREM DueReady == BotSpec => []DueSettles
<1>1. BotInit => Wired
  BY DEF BotInit, Init, Wired
<1>2. BotSpec => []Wired
  BY <1>1, StaysWired, BotKeeps, PTL DEF BotSpec
<1>3. Wired /\ LiquidationSettles => DueSettles
  BY DEF LiquidationSettles, DueSettles, Due
<1> QED
  BY <1>2, <1>3, BotHarmless, LiquidationReady, PTL
=============================================================================
