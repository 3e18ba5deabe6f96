------------------------- MODULE BlackjackTheorems --------------------------
(***************************************************************************)
(* Type correctness of the whole system, for any number of clients, any    *)
(* names, any number of slots, any cards and any choice of who leaves.     *)
(***************************************************************************)
EXTENDS Blackjack, SequenceTheorems, TLAPS

LEMMA ExceptOfSeq ==
  ASSUME NEW S, NEW s \in Seq(S), NEW i, NEW e, i \in 1..Len(s) => e \in S
  PROVE  [s EXCEPT ![i] = e] \in Seq(S) /\ Len([s EXCEPT ![i] = e]) = Len(s)
<1> DEFINE t == [s EXCEPT ![i] = e]
<1>1. s \in [1..Len(s) -> S]
  OBVIOUS
<1>2. t \in [1..Len(s) -> S]
  BY <1>1
<1>3. QED
  BY <1>2, IsASeq, LenProperties

LEMMA TailOfSeq ==
  ASSUME NEW S, NEW s \in Seq(S), s # << >>
  PROVE  Tail(s) \in Seq(S) /\ Head(s) \in S
  OBVIOUS

-----------------------------------------------------------------------------
(* Typing of the operators.                                                *)

LEMMA MessageTypes ==
  /\ \A t \in {"ACCEPTED", "HIT_STAND", "END"} : Plain(t) \in DownMessage
  /\ \A n \in Nat : /\ PlayerId(n) \in DownMessage
                    /\ Current(n) \in DownMessage
                    /\ AllCards(n) \in DownMessage
  /\ \A n \in Nat, nm \in Names : Joined(n, nm) \in DownMessage
  BY DEF DownMessage, Plain, PlayerId, Current, AllCards, Joined

LEMMA SentType ==
  ASSUME NetTypeOK, NEW S, NEW m \in DownMessage
  PROVE  Sent(S, m) \in [Clients -> Seq(DownMessage)]
  BY DEF NetTypeOK, Sent

LEMMA QueueTypes ==
  ASSUME NetTypeOK, NEW c \in Clients
  PROVE  /\ toServer[c] # << >> => Received(c) \in [Clients -> Seq(UpMessage)]
         /\ toClient[c] # << >> => /\ Taken(c) \in [Clients -> Seq(DownMessage)]
                                   /\ Head(toClient[c]) \in DownMessage
         /\ \A m \in UpMessage : Uploaded(c, m) \in [Clients -> Seq(UpMessage)]
<1>1. toServer[c] \in Seq(UpMessage) /\ toClient[c] \in Seq(DownMessage)
  BY DEF NetTypeOK
<1>2. toServer[c] # << >> => Received(c) \in [Clients -> Seq(UpMessage)]
  BY <1>1, TailOfSeq DEF NetTypeOK, Received
<1>3. toClient[c] # << >> => /\ Taken(c) \in [Clients -> Seq(DownMessage)]
                             /\ Head(toClient[c]) \in DownMessage
  BY <1>1, TailOfSeq DEF NetTypeOK, Taken
<1>4. \A m \in UpMessage : Uploaded(c, m) \in [Clients -> Seq(UpMessage)]
  BY <1>1 DEF NetTypeOK, Uploaded
<1>5. QED
  BY <1>2, <1>3, <1>4

LEMMA HandTypes ==
  /\ Cleared \in HandType
  /\ \A h \in HandType, v \in CardValues : AddCard(h, v) \in HandType
  BY DEF HandType, Cleared, AddCard, AceLow, CardValues

LEMMA PlayerFields ==
  ASSUME NEW p \in Player
  PROVE  /\ \A nm \in Names : [p EXCEPT !.name = nm] \in Player
         /\ \A h \in HandType : [p EXCEPT !.hand = h] \in Player
         /\ \A h \in HandType : [p EXCEPT !.currentBet = 0, !.hand = h] \in Player
<1>1. ASSUME NEW nm \in Names PROVE [p EXCEPT !.name = nm] \in Player
  BY DEF Player
<1>2. ASSUME NEW h \in HandType PROVE [p EXCEPT !.hand = h] \in Player
  BY DEF Player
<1>3. ASSUME NEW h \in HandType
      PROVE  [p EXCEPT !.currentBet = 0, !.hand = h] \in Player
  BY DEF Player
<1>4. QED
  BY <1>1, <1>2, <1>3

LEMMA AddScoreType ==
  ASSUME NEW p \in Player, NEW n \in Int
  PROVE  AddScore(p, n) \in Player
<1> DEFINE bet == IF n < 0 THEN p.currentBet - n ELSE p.currentBet
<1>1. p.score + n \in Int /\ bet \in Nat
  BY DEF Player
<1>2. AddScore(p, n) = [p EXCEPT !.score = p.score + n, !.currentBet = bet]
  BY DEF AddScore, Player
<1> HIDE DEF bet
<1>3. QED
  BY <1>1, <1>2 DEF Player

LEMMA SettledType ==
  ASSUME NEW p \in Player
  PROVE  Settled(p) \in Player
<1>1. \A n \in Nat : Won(p, n) \in Player
  <2> TAKE n \in Nat
  <2>1. AddScore(p, n) \in Player
    BY AddScoreType
  <2>2. QED
    BY <2>1 DEF Won, Player
<1>2. Lost(p) \in Player
  BY DEF Lost, Player
<1>3. p.currentBet \in Nat
  BY DEF Player
<1>4. p.currentBet * 2 \in Nat /\ (p.currentBet * 5) \div 2 \in Nat
  BY <1>3
<1>5. QED
  BY <1>1, <1>2, <1>4 DEF Settled

LEMMA GameLoopTypes ==
  ASSUME NEW ps \in Seq(Player), NEW cur \in Nat, NetTypeOK, GameLoop(ps, cur)
  PROVE  /\ players' \in Seq(Player)
         /\ currentPlayer' \in Nat
         /\ toClient' \in [Clients -> Seq(DownMessage)]
<1>1. betScore \in Nat /\ -betScore \in Int
  BY ServerAssumption
<1>2. players' \in Seq(Player)
  <2>1. \A i \in 1..Len(ps) : ps[i] \in Player /\ AddScore(ps[i], -betScore) \in Player
    BY <1>1, AddScoreType
  <2>2. players' = [ps EXCEPT ![cur + 1] = AddScore(ps[cur + 1], -betScore)]
    BY DEF GameLoop
  <2>3. QED
    BY <2>1, <2>2, ExceptOfSeq
<1>3. toClient' \in [Clients -> Seq(DownMessage)]
  BY SentType, MessageTypes DEF GameLoop, NetTypeOK
<1>4. QED
  BY <1>2, <1>3 DEF GameLoop

-----------------------------------------------------------------------------
(* Type correctness.  readyToStart is set together with GameInProgress and *)
(* reset together with it; StartGame relies on that to find a first player.*)

TypeInv == TypeOK /\ (readyToStart => GameInProgress)

LEMMA InitTypeInv == Init => TypeInv
<1> SUFFICES ASSUME Init PROVE TypeInv
  OBVIOUS
<1>1. NetTypeOK
  BY DEF Init, NetInit, NetTypeOK, ConnState
<1>2. ServerTypeOK
  <2>1. players \in Seq(Player)
    BY DEF Init, ServerInit
  <2>2. dealer \in HandType
    BY HandTypes DEF Init, ServerInit
  <2>3. QED
    BY <2>1, <2>2 DEF Init, ServerInit, ServerTypeOK
<1>3. ClientTypeOK
  BY DEF Init, ClientInit, ClientTypeOK, ClientPc
<1>4. restarts \in [Clients -> Nat] /\ consent \subseteq Clients
  BY DEF Init
<1>5. readyToStart => GameInProgress
  BY DEF Init, ServerInit
<1>6. QED
  BY <1>1, <1>2, <1>3, <1>4, <1>5 DEF TypeInv, TypeOK

LEMMA ServerKept == ServerTypeOK /\ UNCHANGED serverVars => ServerTypeOK'
  BY DEF ServerTypeOK, serverVars

LEMMA ClientKept == ClientTypeOK /\ UNCHANGED clientVars => ClientTypeOK'
  BY DEF ClientTypeOK, clientVars

LEMMA NetKept == NetTypeOK /\ UNCHANGED netVars => NetTypeOK'
  BY DEF NetTypeOK, netVars

LEMMA ReceiveType ==
  ASSUME TypeInv, NEW c \in Clients, NEW m, Receive(c, m)
  PROVE  toServer' \in [Clients -> Seq(UpMessage)]
  BY QueueTypes DEF TypeInv, TypeOK, Receive

LEMMA CreateNewPlayerTypes ==
  ASSUME TypeInv, NEW c \in Clients, CreateNewPlayer(c)
  PROVE  NetTypeOK' /\ ServerTypeOK' /\ (readyToStart => GameInProgress)'
<1> USE DEF TypeInv, TypeOK
<1>1. lastPlayerID \in Nat /\ lastPlayerID' \in Nat
  BY DEF ServerTypeOK, CreateNewPlayer
<1>2. NewPlayer(c) \in Player
  BY <1>1, HandTypes, ServerAssumption DEF NewPlayer, Player, Names
<1>3. players' \in Seq(Player) /\ Len(players') \in Nat
  BY <1>2 DEF ServerTypeOK, CreateNewPlayer
<1>4. toClient' \in [Clients -> Seq(DownMessage)]
  <2>1. toClient \in [Clients -> Seq(DownMessage)]
    BY DEF NetTypeOK
  <2>2. <<PlayerId(lastPlayerID), Current(Len(players'))>> \in Seq(DownMessage)
    BY <1>1, <1>3, MessageTypes
  <2>3. toClient[c] \o <<PlayerId(lastPlayerID), Current(Len(players'))>>
          \in Seq(DownMessage)
    BY <2>1, <2>2
  <2>4. QED
    BY <2>1, <2>3 DEF CreateNewPlayer
<1>5. NetTypeOK'
  BY <1>4, ReceiveType DEF NetTypeOK, CreateNewPlayer
<1>6. ServerTypeOK'
  BY <1>1, <1>3 DEF ServerTypeOK, CreateNewPlayer
<1>7. QED
  BY <1>5, <1>6 DEF CreateNewPlayer

LEMMA SeatedIdx ==
  ASSUME ServerTypeOK, NEW c, PlayerIdx(c) <= Len(players)
  PROVE  Len(players) >= 1
<1>1. CASE c \in Seated
  BY <1>1 DEF Seated, ServerTypeOK
<1>2. CASE c \notin Seated
  BY <1>2 DEF PlayerIdx, ServerTypeOK
<1>3. QED
  BY <1>1, <1>2

LEMMA NameListType ==
  ASSUME NEW ps \in Seq(Player), Len(ps) >= 1
  PROVE  NameList(ps) \in DownMessage /\ NameList(ps).type = "JOINED_GAME"
<1>1. ps[Len(ps)] \in Player /\ Len(ps) \in Nat
  OBVIOUS
<1>2. ps[Len(ps)].name \in Names
  BY <1>1 DEF Player
<1>3. QED
  BY <1>1, <1>2, MessageTypes DEF NameList, Joined

LEMMA UpdatePlayerNameTypes ==
  ASSUME TypeInv, NEW c \in Clients, UpdatePlayerName(c)
  PROVE  NetTypeOK' /\ ServerTypeOK' /\ (readyToStart => GameInProgress)'
<1> USE DEF TypeInv, TypeOK
<1>1. players \in Seq(Player)
  BY DEF ServerTypeOK
<1>2. players' \in Seq(Player) /\ Len(players') = Len(players)
  <2>1. CASE PlayerIdx(c) <= Len(players)
    <3> DEFINE i == PlayerIdx(c)
               p == [players[i] EXCEPT !.name = NameOf[c]]
    <3>1. i \in 1..Len(players) => p \in Player
      <4> HIDE DEF i
      <4> SUFFICES ASSUME i \in 1..Len(players) PROVE p \in Player
        OBVIOUS
      <4>1. NameOf[c] \in Names
        BY DEF Names
      <4>2. players[i] \in Player
        BY <1>1
      <4>3. QED
        BY <4>1, <4>2, PlayerFields
    <3>2. players' = [players EXCEPT ![i] = p]
      BY <2>1 DEF UpdatePlayerName
    <3> HIDE DEF i, p
    <3>3. QED
      BY <1>1, <3>1, <3>2, ExceptOfSeq
  <2>2. CASE ~(PlayerIdx(c) <= Len(players))
    BY <1>1, <2>2 DEF UpdatePlayerName
  <2>3. QED
    BY <2>1, <2>2
<1>3. toClient' \in [Clients -> Seq(DownMessage)]
  <2>1. CASE PlayerIdx(c) <= Len(players)
    <3>1. Len(players) >= 1
      BY <2>1, SeatedIdx
    <3>2. NameList(players') \in DownMessage
      BY <1>2, <3>1, NameListType
    <3>3. QED
      BY <2>1, <3>2, SentType DEF UpdatePlayerName
  <2>2. CASE ~(PlayerIdx(c) <= Len(players))
    BY <2>2 DEF UpdatePlayerName, NetTypeOK
  <2>3. QED
    BY <2>1, <2>2
<1>4. NetTypeOK'
  BY <1>3, ReceiveType DEF NetTypeOK, UpdatePlayerName
<1>5. ServerTypeOK'
  BY <1>2 DEF ServerTypeOK, UpdatePlayerName
<1>6. QED
  BY <1>4, <1>5 DEF UpdatePlayerName

LEMMA HitTypes ==
  ASSUME TypeInv, NEW c \in Clients, Hit(c)
  PROVE  NetTypeOK' /\ ServerTypeOK' /\ (readyToStart => GameInProgress)'
<1> USE DEF TypeInv, TypeOK
<1>1. players \in Seq(Player)
  BY DEF ServerTypeOK
<1>2. players' \in Seq(Player)
  <2>1. PICK card \in Ranks :
          players' = [players EXCEPT ![PlayerIdx(c)].hand = AddCard(@, card)]
    BY DEF Hit
  <2> DEFINE i == PlayerIdx(c)
             p == [players[i] EXCEPT !.hand = AddCard(players[i].hand, card)]
  <2>2. players' = [players EXCEPT ![i] = p]
    BY <2>1
  <2>3. i \in 1..Len(players) => p \in Player
    <3> SUFFICES ASSUME i \in 1..Len(players) PROVE p \in Player
      OBVIOUS
    <3>1. players[i] \in Player /\ card \in CardValues
      BY <1>1, ServerAssumption
    <3>2. AddCard(players[i].hand, card) \in HandType
      BY <3>1, HandTypes DEF Player
    <3>3. QED
      BY <3>1, <3>2 DEF Player
  <2> HIDE DEF i, p
  <2>4. QED
    BY <1>1, <2>2, <2>3, ExceptOfSeq
<1>3. NetTypeOK'
  BY SentType, MessageTypes, ReceiveType DEF NetTypeOK, Hit, AsksAgain
<1>4. ServerTypeOK'
  BY <1>2 DEF ServerTypeOK, Hit
<1>5. QED
  BY <1>3, <1>4 DEF Hit

LEMMA StandTypes ==
  ASSUME TypeInv, NEW c \in Clients, Stand(c)
  PROVE  NetTypeOK' /\ ServerTypeOK' /\ (readyToStart => GameInProgress)'
<1> USE DEF TypeInv, TypeOK
<1>1. players \in Seq(Player) /\ currentPlayer \in Nat /\ currentPlayer + 1 \in Nat
  BY DEF ServerTypeOK
<1>2. /\ players' \in Seq(Player)
      /\ currentPlayer' \in Nat
      /\ toClient' \in [Clients -> Seq(DownMessage)]
  <2>1. CASE LastTurn
    BY <1>1, <2>1 DEF Stand, NetTypeOK
  <2>2. CASE ~LastTurn
    BY <1>1, <2>2, GameLoopTypes DEF Stand
  <2>3. QED
    BY <2>1, <2>2
<1>3. NetTypeOK'
  BY <1>2, ReceiveType DEF NetTypeOK, Stand
<1>4. ServerTypeOK'
  BY <1>2 DEF ServerTypeOK, Stand
<1>5. QED
  BY <1>3, <1>4 DEF Stand

LEMMA DealtTypes ==
  ASSUME ServerTypeOK, NEW cards \in [1..Len(players) -> Ranks \X Ranks]
  PROVE  Dealt(cards) \in Seq(Player) /\ Len(Dealt(cards)) = Len(players)
<1>1. players \in Seq(Player) /\ Len(players) \in Nat
  BY DEF ServerTypeOK
<1>2. ASSUME NEW i \in 1..Len(players)
      PROVE  [players[i] EXCEPT !.currentBet = 0,
                                !.hand = AddCard(AddCard(Cleared, cards[i][1]), cards[i][2])]
               \in Player
  <2>1. players[i] \in Player
    BY <1>1
  <2>2. cards[i][1] \in CardValues /\ cards[i][2] \in CardValues
    BY ServerAssumption
  <2>3. AddCard(AddCard(Cleared, cards[i][1]), cards[i][2]) \in HandType
    BY <2>2, HandTypes
  <2>4. QED
    BY <2>1, <2>3, PlayerFields
<1>3. DOMAIN players = 1..Len(players)
  BY <1>1
<1>4. Dealt(cards) \in [1..Len(players) -> Player]
  BY <1>2, <1>3 DEF Dealt
<1>5. QED
  BY <1>1, <1>4, IsASeq, LenProperties

LEMMA PlayerReadyTypes ==
  ASSUME TypeInv, NEW c \in Clients, PlayerReady(c)
  PROVE  NetTypeOK' /\ ServerTypeOK' /\ (readyToStart => GameInProgress)'
<1> USE DEF TypeInv, TypeOK
<1>1. /\ players \in Seq(Player)
      /\ dealer \in HandType
      /\ currentPlayer \in Nat
      /\ toClient \in [Clients -> Seq(DownMessage)]
  BY DEF ServerTypeOK, NetTypeOK
<1>2. /\ players' \in Seq(Player)
      /\ dealer' \in HandType
      /\ currentPlayer' \in Nat
      /\ toClient' \in [Clients -> Seq(DownMessage)]
  <2>1. CASE readyToStart' /\ NoGame
    <3>1. Len(players) >= 2
      BY <2>1 DEF PlayerReady, NoGame, EnoughReady
    <3>2. players[1].playerID \in Nat
      <4>1. players[1] \in Player
        BY <1>1, <3>1
      <4>2. QED
        BY <4>1 DEF Player
    <3>3. PICK cards \in [1..Len(players) -> Ranks \X Ranks], up, down \in Ranks :
            /\ dealer' = AddCard(AddCard(Cleared, up), down)
            /\ GameLoop(Dealt(cards), players[1].playerID)
      BY <2>1 DEF PlayerReady, StartGame
    <3>4. dealer' \in HandType
      BY <3>3, HandTypes, ServerAssumption
    <3>5. QED
      BY <3>2, <3>3, <3>4, DealtTypes, GameLoopTypes
  <2>2. CASE ~(readyToStart' /\ NoGame)
    BY <1>1, <2>2 DEF PlayerReady
  <2>3. QED
    BY <2>1, <2>2
<1>3. NetTypeOK'
  BY <1>2, ReceiveType DEF NetTypeOK, PlayerReady
<1>4. readyToStart' \in BOOLEAN /\ GameInProgress' \in BOOLEAN
  BY DEF PlayerReady
<1>5. numPlayersReadyToStart' \in Nat
  BY DEF PlayerReady, ServerTypeOK
<1>6. ServerTypeOK'
  BY <1>2, <1>4, <1>5 DEF ServerTypeOK, PlayerReady
<1>7. QED
  BY <1>3, <1>6 DEF PlayerReady

LEMMA DoEndTypes ==
  ASSUME TypeInv, DealerDraw \/ Showdown \/ IgnoreKey
  PROVE  NetTypeOK' /\ ServerTypeOK' /\ (readyToStart => GameInProgress)'
<1> USE DEF TypeInv, TypeOK
<1>1. CASE DealerDraw
  <2>1. dealer' \in HandType
    BY <1>1, HandTypes, ServerAssumption DEF DealerDraw, ServerTypeOK
  <2>2. QED
    BY <1>1, <2>1, NetKept DEF DealerDraw, ServerTypeOK
<1>2. CASE Showdown
  <2>1. players \in Seq(Player) /\ Len(players) \in Nat
    BY DEF ServerTypeOK
  <2>2. \A i \in 1..Len(players) : Settled(players[i]) \in Player
    BY <2>1, SettledType
  <2>3. players' \in [1..Len(players) -> Player]
    <3>1. players' = [i \in 1..Len(players) |-> Settled(players[i])]
      BY <1>2, <2>1 DEF Showdown
    <3>2. QED
      BY <2>2, <3>1
  <2>4. players' \in Seq(Player)
    BY <2>1, <2>3, IsASeq
  <2>5. Results \in Seq(DownMessage)
    <3>1. AllCards(Len(players)) \in DownMessage /\ Plain("END") \in DownMessage
      BY <2>1, MessageTypes
    <3>2. QED
      BY <3>1 DEF Results
  <2>6. toClient' \in [Clients -> Seq(DownMessage)]
    <3>1. \A c \in Clients : /\ toClient[c] \in Seq(DownMessage)
                             /\ toClient[c] \o Results \in Seq(DownMessage)
      BY <2>5 DEF NetTypeOK
    <3>2. QED
      BY <1>2, <3>1 DEF Showdown
  <2>7. NetTypeOK'
    BY <1>2, <2>6 DEF NetTypeOK, Showdown
  <2>8. QED
    BY <1>2, <2>4, <2>7 DEF ServerTypeOK, Showdown, NobodyReady
<1>3. CASE IgnoreKey
  BY <1>3, NetKept DEF IgnoreKey, ServerTypeOK
<1>4. QED
  BY <1>1, <1>2, <1>3

LEMMA PressEnterTypes ==
  ASSUME TypeInv, PressEnter
  PROVE  NetTypeOK' /\ ServerTypeOK' /\ (readyToStart => GameInProgress)'
  BY NetKept DEF TypeInv, TypeOK, PressEnter, ServerTypeOK

LEMMA StartClientTypes ==
  ASSUME TypeInv, NEW c \in Clients, StartClient(c)
  PROVE  NetTypeOK' /\ ClientTypeOK'
<1> USE DEF TypeInv, TypeOK
<1>1. NetTypeOK'
  <2>1. conn' \in [Clients -> ConnState]
    BY DEF StartClient, Connect, NetTypeOK, ConnState
  <2>2. toServer' \in [Clients -> Seq(UpMessage)]
    <3>1. "NEW_CONNECTION" \in UpMessage
      BY DEF UpMessage
    <3>2. QED
      BY <3>1, QueueTypes DEF StartClient, Connect, NetTypeOK
  <2>3. toClient' \in [Clients -> Seq(DownMessage)]
    <3>1. <<Plain("ACCEPTED")>> \in Seq(DownMessage)
      BY MessageTypes
    <3>2. QED
      BY <3>1 DEF StartClient, Connect, NetTypeOK
  <2>4. QED
    BY <2>1, <2>2, <2>3 DEF NetTypeOK
<1>2. ClientTypeOK'
  BY DEF StartClient, ClientTypeOK, Goto, ClientPc
<1>3. QED
  BY <1>1, <1>2

LEMMA TakeType ==
  ASSUME TypeInv, NEW c \in Clients, NEW t, Take(c, t)
  PROVE  /\ toClient' \in [Clients -> Seq(DownMessage)]
         /\ conn' \in [Clients -> ConnState]
         /\ Head(toClient[c]) \in DownMessage
         /\ Head(toClient[c]).type = t
  BY QueueTypes DEF TypeInv, TypeOK, Take, NetTypeOK

LEMMA NumberOf ==
  ASSUME NEW m \in DownMessage,
         m.type \in {"PLAYER_ID", "CURRENT_PLAYERS", "CARDS_STRING", "JOINED_GAME"}
  PROVE  m.n \in Nat
  BY DEF DownMessage

LEMMA ClientReceivesTypes ==
  ASSUME TypeInv, NEW c \in Clients, ClientReceives(c)
  PROVE  NetTypeOK' /\ ClientTypeOK'
<1> USE DEF TypeInv, TypeOK
<1>1. CASE Accepted(c)
  <2>1. toServer' \in [Clients -> Seq(UpMessage)]
    BY <1>1, QueueTypes DEF Accepted, UpMessage
  <2>2. QED
    BY <1>1, <2>1, TakeType, ClientKept DEF Accepted, NetTypeOK
<1>2. CASE SetPlayerID(c)
  <2>1. playerID' \in [Clients -> Nat]
    BY <1>2, TakeType, NumberOf DEF SetPlayerID, ClientTypeOK
  <2>2. QED
    BY <1>2, <2>1, TakeType DEF SetPlayerID, NetTypeOK, ClientTypeOK
<1>3. CASE PrintCurrentPlayers(c)
  <2>1. numPlayers' \in [Clients -> Nat]
    BY <1>3, TakeType, NumberOf DEF PrintCurrentPlayers, ClientTypeOK
  <2>2. QED
    BY <1>3, <2>1, TakeType DEF PrintCurrentPlayers, NetTypeOK, ClientTypeOK
<1>4. CASE UpdatePlayers(c)
  <2>1. numPlayers' \in [Clients -> Nat]
    BY <1>4, TakeType, NumberOf DEF UpdatePlayers, ClientTypeOK
  <2>2. pc' \in [Clients -> ClientPc]
    BY <1>4 DEF UpdatePlayers, Goto, ClientTypeOK, ClientPc
  <2>3. QED
    BY <1>4, <2>1, <2>2, TakeType DEF UpdatePlayers, NetTypeOK, ClientTypeOK
<1>5. CASE HitorStand(c)
  <2>1. pc' \in [Clients -> ClientPc]
    BY <1>5 DEF HitorStand, Goto, ClientTypeOK, ClientPc
  <2>2. QED
    BY <1>5, <2>1, TakeType DEF HitorStand, NetTypeOK, ClientTypeOK
<1>6. CASE RecieveAllCards(c)
  BY <1>6, TakeType, ClientKept DEF RecieveAllCards, NetTypeOK
<1>7. CASE RecieveString(c)
  <2>1. pc' \in [Clients -> ClientPc]
    BY <1>7 DEF RecieveString, Goto, ClientTypeOK, ClientPc
  <2>2. QED
    BY <1>7, <2>1, TakeType DEF RecieveString, NetTypeOK, ClientTypeOK
<1>8. QED
  BY <1>1, <1>2, <1>3, <1>4, <1>5, <1>6, <1>7 DEF ClientReceives

LEMMA UserTypes ==
  ASSUME TypeInv, NEW c \in Clients,
         \/ EnterReady(c) \/ AnswerYes(c) \/ AnswerOther(c) \/ SendReady(c)
         \/ \E key \in UserKeys : TestTest(c, key)
  PROVE  NetTypeOK' /\ ClientTypeOK'
<1> USE DEF TypeInv, TypeOK
<1>1. CASE EnterReady(c)
  BY <1>1, NetKept DEF EnterReady, Goto, ClientTypeOK, ClientPc
<1>2. CASE AnswerYes(c)
  BY <1>2, NetKept DEF AnswerYes, Goto, ClientTypeOK, ClientPc
<1>3. CASE AnswerOther(c)
  BY <1>3, NetKept DEF AnswerOther, Goto, ClientTypeOK, ClientPc
<1>4. CASE SendReady(c)
  <2>1. toServer' \in [Clients -> Seq(UpMessage)]
    BY <1>4, QueueTypes DEF SendReady, UpMessage
  <2>2. QED
    BY <1>4, <2>1 DEF SendReady, NetTypeOK, ClientTypeOK
<1>5. ASSUME NEW key \in UserKeys, TestTest(c, key) PROVE NetTypeOK' /\ ClientTypeOK'
  <2>1. Answer(key) \in Seq(UpMessage)
    <3>1. "HIT" \in UpMessage /\ "STAND" \in UpMessage
      BY DEF UpMessage
    <3>2. QED
      BY <3>1 DEF Answer
  <2>2. toServer' \in [Clients -> Seq(UpMessage)]
    BY <1>5, <2>1 DEF TestTest, NetTypeOK
  <2>3. ClientTypeOK'
    BY <1>5 DEF TestTest, CinCleared, Goto, ClientTypeOK, ClientPc
  <2>4. QED
    BY <1>5, <2>2, <2>3 DEF TestTest, NetTypeOK
<1>6. QED
  BY <1>1, <1>2, <1>3, <1>4, <1>5

LEMMA VanishTypes ==
  ASSUME TypeInv, NEW c \in Clients, AnswerNo(c) \/ CloseClient(c)
  PROVE  NetTypeOK' /\ ClientTypeOK'
<1> USE DEF TypeInv, TypeOK
<1>1. Vanish(c) /\ Goto(c, "exit")
      /\ UNCHANGED <<preReadyToStart, readySent, numPlayers, playerID, cinFail>>
  BY DEF AnswerNo, CloseClient
<1>2. conn' \in [Clients -> ConnState]
  BY <1>1 DEF Vanish, NetTypeOK, ConnState
<1>3. toServer' \in [Clients -> Seq(UpMessage)]
  <2>1. PICK k \in 0..Len(toServer[c]) :
          toServer' = [toServer EXCEPT ![c] = SubSeq(toServer[c], 1, k)]
    BY <1>1 DEF Vanish
  <2>2. toServer[c] \in Seq(UpMessage)
    BY DEF NetTypeOK
  <2>3. SubSeq(toServer[c], 1, k) \in Seq(UpMessage)
    BY <2>2, SubSeqProperties
  <2>4. QED
    BY <2>1, <2>3 DEF NetTypeOK
<1>4. toClient' \in [Clients -> Seq(DownMessage)]
  BY <1>1 DEF Vanish, NetTypeOK
<1>5. ClientTypeOK'
  BY <1>1 DEF Goto, ClientTypeOK, ClientPc
<1>6. QED
  BY <1>2, <1>3, <1>4, <1>5 DEF NetTypeOK

LEMMA ConnectionLostTypes ==
  ASSUME TypeInv, NEW c \in Clients, ConnectionLost(c)
  PROVE  NetTypeOK'
  BY DEF TypeInv, TypeOK, ConnectionLost, NetTypeOK, ConnState

\* Every step of the system keeps the types.
LEMMA NextTypeInv == TypeInv /\ [Next]_vars => TypeInv'
<1> SUFFICES ASSUME TypeInv, [Next]_vars PROVE TypeInv'
  OBVIOUS
<1> USE DEF TypeInv, TypeOK
<1>1. CASE ServerDoEnd
  BY <1>1, DoEndTypes, ClientKept DEF ServerDoEnd, ServerEnds
<1>2. CASE Operator
  BY <1>2, PressEnterTypes, ClientKept DEF Operator
<1>3. ASSUME NEW c \in Clients, ServerThread(c) PROVE TypeInv'
  <2>1. NetTypeOK' /\ ServerTypeOK' /\ (readyToStart => GameInProgress)'
    BY <1>3, CreateNewPlayerTypes, UpdatePlayerNameTypes, HitTypes, StandTypes,
       PlayerReadyTypes DEF ServerThread, ServerReceives
  <2>2. consent' \subseteq Clients
    BY <1>3 DEF ServerThread, ServerReceives
  <2>3. QED
    BY <1>3, <2>1, <2>2, ClientKept DEF ServerThread
<1>4. ASSUME NEW c \in Clients,
             \/ ClientReceives(c) \/ ClientReady(c) \/ UserStarts(c)
             \/ UserReady(c) \/ UserMoves(c) \/ UserDeclines(c)
      PROVE  TypeInv'
  <2>1. UNCHANGED <<serverVars, restarts, consent>>
    BY <1>4 DEF ClientReceives, ClientReady, UserStarts, UserReady, UserMoves,
                UserDeclines
  <2>2. NetTypeOK' /\ ClientTypeOK'
    BY <1>4, ClientReceivesTypes, StartClientTypes, UserTypes, VanishTypes
       DEF ClientReady, UserStarts, UserReady, UserMoves, UserDeclines
  <2>3. readyToStart' = readyToStart /\ GameInProgress' = GameInProgress
    BY <2>1 DEF serverVars
  <2>4. QED
    BY <2>1, <2>2, <2>3, ServerKept
<1>5. ASSUME NEW c \in Clients, UserRestarts(c) PROVE TypeInv'
  <2>1. restarts' \in [Clients -> Nat]
    BY <1>5 DEF UserRestarts
  <2>2. NetTypeOK' /\ ClientTypeOK'
    BY <1>5, UserTypes DEF UserRestarts
  <2>3. readyToStart' = readyToStart /\ GameInProgress' = GameInProgress
    BY <1>5 DEF UserRestarts, serverVars
  <2>4. QED
    BY <1>5, <2>1, <2>2, <2>3, ServerKept DEF UserRestarts
<1>6. ASSUME NEW c \in Clients, PeerNotices(c) PROVE TypeInv'
  <2>1. readyToStart' = readyToStart /\ GameInProgress' = GameInProgress
    BY <1>6 DEF PeerNotices, serverVars
  <2>2. QED
    BY <1>6, <2>1, ConnectionLostTypes, ServerKept, ClientKept DEF PeerNotices
<1>7. CASE UNCHANGED vars
  <2>1. readyToStart' = readyToStart /\ GameInProgress' = GameInProgress
    BY <1>7 DEF vars, serverVars
  <2>2. QED
    BY <1>7, <2>1, NetKept, ServerKept, ClientKept DEF vars
<1>8. QED
  BY <1>1, <1>2, <1>3, <1>4, <1>5, <1>6, <1>7 DEF Next

\* The state of server, clients and network is always of its type (TypeOK):
\* the players stay a vector of players through every assignment by index
\* (name, hand, bet, settlement), and every message queued is of a kind its
\* receiver has a case for.  (main.cpp, RunGame; client.cpp, PlayGame.)
THEOREM TypeCorrect == Spec => []TypeOK
<1>1. Init => TypeInv
  BY InitTypeInv
<1>2. TypeInv /\ [Next]_vars => TypeInv'
  BY NextTypeInv
<1>3. TypeInv => TypeOK
  BY DEF TypeInv
<1>4. QED
  BY <1>1, <1>2, <1>3, PTL DEF Spec
=============================================================================
