--------------------------- MODULE TableTheorems ----------------------------
(***************************************************************************)
(* What the seats of the table promise: each belongs to a client of its    *)
(* own, a turn that begins is always asked for, the scores are what wins   *)
(* and losses account for, and the whole game is a behaviour of RoundTable.*)
(* All of it rests on MoveInv and EveryoneBetsOnce (MoveTheorems).         *)
(***************************************************************************)
EXTENDS TurnOrder, MoveTheorems

-----------------------------------------------------------------------------
(* What the two sums of a hand guarantee, for hands of any length.         *)

\* A hand made by ClearHand and AddCard: the low sum never exceeds the high.
Sound(h) == h \in HandType /\ h.low <= h.high

\* ClearHand and AddCard make sound hands.
LEMMA SoundHands ==
  /\ Sound(Cleared)
  /\ \A h, v : Sound(h) /\ v \in CardValues => Sound(AddCard(h, v))
<1>1. Sound(Cleared)
  BY DEF Sound, Cleared, HandType
<1>2. ASSUME NEW h, NEW v, Sound(h), v \in CardValues
      PROVE  Sound(AddCard(h, v))
  BY <1>2 DEF Sound, AddCard, HandType, CardValues, AceLow
<1>3. QED
  BY <1>1, <1>2

\* A bust is final: no further card, ace or not, takes a hand back to 21 or
\* below, so a busted player whom SetHitStandRecieved goes on asking can only
\* lose.  (Hand::GetValue, CheckBust.)
THEOREM BustIsFinal ==
  ASSUME NEW h, Sound(h), NEW v \in CardValues, CheckBust(h)
  PROVE  CheckBust(AddCard(h, v))
<1>1. h.low > 21
  BY DEF CheckBust, GetValue, Sound, HandType
<1>2. AddCard(h, v).low > 21 /\ AddCard(h, v).high > 21
  BY <1>1 DEF AddCard, AceLow, CardValues, Sound, HandType
<1>3. QED
  BY <1>2 DEF CheckBust, GetValue

\* Two cards never bust, nor does the empty hand of a player who joins late:
\* a turn that begins is always asked for.  (GameLoop.)
THEOREM DealtHandsStand ==
  /\ ~CheckBust(Cleared)
  /\ \A x, y \in CardValues : ~CheckBust(AddCard(AddCard(Cleared, x), y))
  BY DEF CheckBust, GetValue, AddCard, AceLow, Cleared, CardValues

\* The dealer, who draws below 16, ends between 16 and 25.  (DoEnd.)
THEOREM DealerDrawsInRange ==
  ASSUME NEW h, Sound(h), NEW v \in CardValues, GetValue(h) < 16
  PROVE  GetValue(AddCard(h, v)) <= 25
  BY DEF GetValue, AddCard, AceLow, CardValues, Sound, HandType

-----------------------------------------------------------------------------
(* The seats, the scores and the turn.                                     *)

\* Where the server is yet to be told of the connection of client d.
Announced(d) == At(toServer[d], {"NEW_CONNECTION"})

OneSeatEach ==
  \A i, j \in DOMAIN players : players[i].client = players[j].client => i = j

\* A connection is announced once, and before that the client has no seat.
AnnouncedOnce(d) ==
  /\ Lone(Announced(d))
  /\ Announced(d) # {} => d \notin Seated
  /\ Announced(d) # {} \/ d \in Seated => conn[d] # "off"

\* Where the thread is in DoEnd, and what it has done with the game.
EndInProgress ==
  /\ serverPc = "dealer" => GameInProgress
  /\ serverPc = "ignore" => ~GameInProgress

\* Nobody is bust before the turn comes: those cards were dealt, and a
\* newcomer has none.
WaitingHands ==
  GameInProgress =>
    \A i \in DOMAIN players : i - 1 > currentPlayer => ~CheckBust(players[i].hand)

SeatInv == /\ OneSeatEach
           /\ \A d \in Clients : AnnouncedOnce(d)
           /\ EndInProgress
           /\ WaitingHands

-----------------------------------------------------------------------------
(* The seats as functions of their number.                                 *)

LEMMA SeatsDomain ==
  ASSUME ServerTypeOK
  PROVE  /\ Len(players) \in Nat /\ DOMAIN players = 1..Len(players)
         /\ \A i \in 1..Len(players) : players[i] \in Player
  BY DEF ServerTypeOK

\* A step after which the same clients sit in the same seats.
SameClients ==
  /\ Len(players') = Len(players)
  /\ \A i \in 1..Len(players) : players'[i].client = players[i].client

LEMMA SameClientsSit ==
  ASSUME ServerTypeOK, ServerTypeOK', SameClients
  PROVE  Seated' = Seated /\ (OneSeatEach => OneSeatEach')
<1>1. /\ DOMAIN players = 1..Len(players) /\ DOMAIN players' = 1..Len(players)
      /\ \A i \in 1..Len(players) : players'[i].client = players[i].client
  BY SeatsDomain DEF SameClients, ServerTypeOK
<1>2. QED
  BY <1>1 DEF Seated, OneSeatEach

LEMMA AnnouncedKept ==
  ASSUME NEW d, AnnouncedOnce(d), Seated' = Seated,
         Fewer(Announced(d), Announced(d)'), conn'[d] = "off" => conn[d] = "off"
  PROVE  AnnouncedOnce(d)'
  BY DEF AnnouncedOnce, Fewer

\* The only seat of a client is the one PlayerIdx finds.
LEMMA SeatOfClient ==
  ASSUME ServerTypeOK, OneSeatEach, NEW i \in 1..Len(players)
  PROVE  PlayerIdx(players[i].client) = i
<1> DEFINE c == players[i].client
           First(k) == /\ players[k].client = c
                       /\ \A j \in 1..(k - 1) : players[j].client # c
<1>1. DOMAIN players = 1..Len(players) /\ Len(players) \in Nat
  BY SeatsDomain
<1>2. c \in Seated
  BY <1>1 DEF Seated
<1>3. \A k \in DOMAIN players : players[k].client = c => k = i
  BY <1>1 DEF OneSeatEach
<1>4. First(i)
  BY <1>1, <1>3
<1>5. PlayerIdx(c) = CHOOSE k \in DOMAIN players : First(k)
  BY <1>2 DEF PlayerIdx
<1>6. (CHOOSE k \in DOMAIN players : First(k)) = i
  BY <1>1, <1>3, <1>4
<1>7. QED
  BY <1>5, <1>6

\* GameLoop takes the bet of one seat and leaves the others alone.
LEMMA GameLoopPlayers ==
  ASSUME NEW ps \in Seq(Player), NEW cur \in Nat, cur < Len(ps), GameLoop(ps, cur)
  PROVE  /\ Len(players') = Len(ps)
         /\ players'[cur + 1] = AddScore(ps[cur + 1], -betScore)
         /\ \A i \in 1..Len(ps) : i # cur + 1 => players'[i] = ps[i]
<1>1. players' = [ps EXCEPT ![cur + 1] = AddScore(ps[cur + 1], -betScore)]
  BY DEF GameLoop
<1>2. DOMAIN ps = 1..Len(ps) /\ cur + 1 \in 1..Len(ps)
  OBVIOUS
<1> DEFINE e == AddScore(ps[cur + 1], -betScore)
<1> HIDE DEF e
<1>3. players' = [ps EXCEPT ![cur + 1] = e]
  BY <1>1 DEF e
<1>4. Len(players') = Len(ps)
  BY <1>3, LenExcept
<1>5. players'[cur + 1] = e /\ \A i \in 1..Len(ps) : i # cur + 1 => players'[i] = ps[i]
  BY <1>2, <1>3
<1>6. QED
  BY <1>4, <1>5 DEF e

LEMMA BetTaken ==
  ASSUME NEW p \in Player
  PROVE  LET q == AddScore(p, -betScore)
         IN  /\ q.client = p.client /\ q.hand = p.hand
             /\ q.wins = p.wins /\ q.losses = p.losses
             /\ q.score = p.score - betScore
             /\ q.currentBet = p.currentBet + betScore
<1>1. betScore \in Nat /\ -betScore < 0 /\ betScore \in Int
  BY ServerAssumption
<1>2. p.currentBet \in Nat /\ p.score \in Int
  BY DEF Player
<1> DEFINE a == p.score + (-betScore)
           b == IF -betScore < 0 THEN p.currentBet - (-betScore) ELSE p.currentBet
<1>3. AddScore(p, -betScore) = [p EXCEPT !.score = a, !.currentBet = b]
  BY DEF AddScore
<1>4. a = p.score - betScore /\ b = p.currentBet + betScore
  BY <1>1, <1>2
<1> HIDE DEF a, b
<1>5. QED
  BY <1>3, <1>4 DEF Player

LEMMA DealtPlayers ==
  ASSUME ServerTypeOK, NEW cards, NEW i \in 1..Len(players)
  PROVE  LET p == players[i]
             q == Dealt(cards)[i]
         IN  /\ q.client = p.client /\ q.score = p.score /\ q.currentBet = 0
             /\ q.wins = p.wins /\ q.losses = p.losses
             /\ q.hand = AddCard(AddCard(Cleared, cards[i][1]), cards[i][2])
<1> DEFINE p == players[i]
           h == AddCard(AddCard(Cleared, cards[i][1]), cards[i][2])
<1>1. p \in Player /\ i \in DOMAIN players
  BY SeatsDomain
<1>2. Dealt(cards)[i] = [p EXCEPT !.currentBet = 0, !.hand = h]
  BY <1>1 DEF Dealt
<1> HIDE DEF p, h
<1>3. QED
  BY <1>1, <1>2 DEF Player, p, h

-----------------------------------------------------------------------------
(* Who is announced, step by step.                                         *)

\* What a client, its user or its connection does leaves the server alone.
LEMMA Bystander ==
  ASSUME NEW c,
         \/ ClientReceives(c) \/ ClientReady(c) \/ UserStarts(c) \/ UserReady(c)
         \/ UserMoves(c) \/ UserRestarts(c) \/ UserDeclines(c) \/ PeerNotices(c)
  PROVE  UNCHANGED serverVars
  BY DEF ClientReceives, ClientReady, UserStarts, UserReady, UserMoves, UserRestarts,
         UserDeclines, PeerNotices

LEMMA KeepsAnnounced ==
  ASSUME NEW d, toServer'[d] = toServer[d]
  PROVE  Fewer(Announced(d), Announced(d)')
  BY DEF Announced, At, Fewer

\* A client announces itself by connecting and in no other way.
LEMMA ClientAnnounces ==
  ASSUME MoveInv, NEW c \in Clients, NEW d \in Clients,
         \/ ClientReceives(c) \/ ClientReady(c) \/ UserReady(c)
         \/ UserMoves(c) \/ UserRestarts(c) \/ UserDeclines(c) \/ PeerNotices(c)
  PROVE  /\ Fewer(Announced(d), Announced(d)')
         /\ conn'[d] = "off" => conn[d] = "off"
<1> USE DEF MoveInv, TypeInv, TypeOK
<1>1. /\ toServer \in [Clients -> Seq(UpMessage)] /\ conn \in [Clients -> ConnState]
      /\ toServer[d] \in Seq(UpMessage)
  BY DEF NetTypeOK
<1>2. ASSUME NEW m \in UpMessage \ {"NEW_CONNECTION"}, toServer' = Uploaded(c, m)
      PROVE  Fewer(Announced(d), Announced(d)')
  <2>1. CASE d = c
    <3>1. toServer'[d] = Append(toServer[d], m)
      BY <1>1, <1>2, <2>1 DEF Uploaded
    <3>2. At(Append(toServer[d], m), {"NEW_CONNECTION"}) = At(toServer[d], {"NEW_CONNECTION"})
      BY <1>1, AtAppend
    <3>3. QED
      BY <3>1, <3>2 DEF Announced, Fewer
  <2>2. CASE d # c
    BY <1>1, <1>2, <2>2, KeepsAnnounced DEF Uploaded
  <2>3. QED
    BY <2>1, <2>2
<1>3. ASSUME Vanish(c)
      PROVE  /\ Fewer(Announced(d), Announced(d)')
             /\ conn'[d] = "off" => conn[d] = "off"
  <2>1. conn'[d] = "off" => conn[d] = "off"
    BY <1>1, <1>3 DEF Vanish
  <2>2. PICK k \in 0..Len(toServer[c]) :
          toServer' = [toServer EXCEPT ![c] = SubSeq(toServer[c], 1, k)]
    BY <1>3 DEF Vanish
  <2>3. CASE d = c
    <3>1. toServer'[d] = SubSeq(toServer[d], 1, k)
      BY <1>1, <2>2, <2>3
    <3>2. At(SubSeq(toServer[d], 1, k), {"NEW_CONNECTION"})
            \subseteq At(toServer[d], {"NEW_CONNECTION"})
      BY <1>1, <2>2, <2>3, AtSubSeq
    <3>3. QED
      BY <2>1, <3>1, <3>2 DEF Announced, Fewer, Lone
  <2>4. CASE d # c
    BY <1>1, <2>1, <2>2, <2>4, KeepsAnnounced
  <2>5. QED
    BY <2>3, <2>4
<1>4. ASSUME toServer' = toServer, conn' = conn \/ ConnectionLost(c)
      PROVE  /\ Fewer(Announced(d), Announced(d)')
             /\ conn'[d] = "off" => conn[d] = "off"
  <2>1. conn'[d] = "off" => conn[d] = "off"
    BY <1>1, <1>4 DEF ConnectionLost
  <2>2. QED
    BY <1>4, <2>1, KeepsAnnounced
<1>5. ASSUME NEW key \in UserKeys, TestTest(c, key)
      PROVE  Fewer(Announced(d), Announced(d)') /\ conn' = conn
  <2>1. toServer' = [toServer EXCEPT ![c] = toServer[c] \o Answer(key)] /\ conn' = conn
    BY <1>5 DEF TestTest
  <2>2. CASE key \in {"h", "s"}
    <3>1. PICK m \in UpMessage \ {"NEW_CONNECTION"} : Answer(key) = <<m>>
      BY <2>2 DEF Answer, UpMessage
    <3>2. toServer[c] \o <<m>> = Append(toServer[c], m)
      BY <1>1 DEF NetTypeOK
    <3>3. toServer' = Uploaded(c, m)
      BY <2>1, <3>1, <3>2 DEF Uploaded
    <3>4. QED
      BY <1>2, <2>1, <3>3
  <2>3. CASE key \notin {"h", "s"}
    <3>1. toServer'[d] = toServer[d]
      <4>1. Answer(key) = << >> /\ toServer[c] \in Seq(UpMessage)
        BY <1>1, <2>3 DEF Answer
      <4>2. toServer[c] \o << >> = toServer[c]
        BY <4>1, ConcatEmptySeq
      <4>3. QED
        BY <1>1, <2>1, <4>1, <4>2
    <3>2. QED
      BY <2>1, <3>1, KeepsAnnounced
  <2>4. QED
    BY <2>2, <2>3
<1>6. CASE ClientReceives(c)
  <2>1. conn' = conn
    BY <1>6 DEF ClientReceives, Accepted, SetPlayerID, PrintCurrentPlayers, UpdatePlayers,
                HitorStand, RecieveAllCards, RecieveString, Take
  <2>2. toServer' = toServer \/ toServer' = Uploaded(c, "PLAYERNAME")
    BY <1>6 DEF ClientReceives, Accepted, SetPlayerID, PrintCurrentPlayers, UpdatePlayers,
                HitorStand, RecieveAllCards, RecieveString
  <2>3. QED
    BY <1>2, <1>4, <2>1, <2>2 DEF UpMessage
<1>7. CASE ClientReady(c)
  BY <1>2, <1>7 DEF ClientReady, SendReady, UpMessage
<1>8. CASE UserMoves(c)
  BY <1>5, <1>8 DEF UserMoves
<1>9. CASE UserReady(c) \/ UserRestarts(c) \/ PeerNotices(c)
  BY <1>4, <1>9 DEF UserReady, UserRestarts, PeerNotices, EnterReady, AnswerYes,
                    ConnectionLost, netVars
<1>10. CASE UserDeclines(c)
  BY <1>3, <1>4, <1>10 DEF UserDeclines, AnswerOther, AnswerNo, CloseClient, netVars
<1>11. QED
  BY <1>6, <1>7, <1>8, <1>9, <1>10

LEMMA StartAnnounces ==
  ASSUME MoveInv, NEW c \in Clients, NEW d \in Clients, UserStarts(c), AnnouncedOnce(d),
         Seated' = Seated
  PROVE  AnnouncedOnce(d)'
<1> USE DEF MoveInv, TypeInv, TypeOK
<1>1. /\ toServer \in [Clients -> Seq(UpMessage)] /\ conn \in [Clients -> ConnState]
      /\ toServer[d] \in Seq(UpMessage)
  BY DEF NetTypeOK
<1>2. Connect(c)
  BY DEF UserStarts, StartClient
<1>3. CASE d # c \/ toServer' = toServer
  <2>1. toServer'[d] = toServer[d]
    BY <1>1, <1>2, <1>3 DEF Connect, Uploaded
  <2>2. conn'[d] = "off" => conn[d] = "off"
    BY <1>1, <1>2 DEF Connect
  <2>3. QED
    BY <2>1, <2>2, AnnouncedKept, KeepsAnnounced
<1>4. CASE d = c /\ toServer' # toServer
  <2>1. conn[d] = "off" /\ conn'[d] = "on"
        /\ toServer'[d] = Append(toServer[d], "NEW_CONNECTION")
    BY <1>1, <1>2, <1>4 DEF Connect, Uploaded
  <2>2. Announced(d) = {} /\ d \notin Seated
    BY <2>1 DEF AnnouncedOnce
  <2>3. Lone(At(Append(toServer[d], "NEW_CONNECTION"), {"NEW_CONNECTION"}))
    <3>1. "NEW_CONNECTION" \in UpMessage
      BY DEF UpMessage
    <3>2. At(toServer[d], {"NEW_CONNECTION"}) = {}
      BY <2>2 DEF Announced
    <3>3. QED
      BY <1>1, <3>1, <3>2, AtAppend
  <2>4. QED
    BY <2>1, <2>2, <2>3 DEF AnnouncedOnce, Announced
<1>5. QED
  BY <1>3, <1>4

\* What the server receives leaves the queue, an announcement among it.
LEMMA ReceiveAnnounces ==
  ASSUME MoveInv, TypeInv', NEW c \in Clients, NEW m, Receive(c, m), NEW d \in Clients
  PROVE  /\ Fewer(Announced(d), Announced(d)')
         /\ m = "NEW_CONNECTION" => /\ Announced(c) # {}
                                    /\ Lone(Announced(c)) => Announced(c)' = {}
<1>1. toServer[d] \in Seq(UpMessage) /\ toServer[c] \in Seq(UpMessage)
  BY DEF MoveInv, TypeInv, TypeOK, NetTypeOK
<1>2. /\ toServer[c] # << >> /\ Head(toServer[c]) = m
      /\ toServer'[c] = Tail(toServer[c])
      /\ d # c => toServer'[d] = toServer[d]
  BY ReceiveQueue
<1>3. Fewer(Announced(d), Announced(d)')
  <2>1. CASE d = c
    BY <1>1, <1>2, <2>1, AtTail DEF Announced, Fewer
  <2>2. CASE d # c
    BY <1>2, <2>2, KeepsAnnounced
  <2>3. QED
    BY <2>1, <2>2
<1>4. ASSUME m = "NEW_CONNECTION"
      PROVE  Announced(c) # {} /\ (Lone(Announced(c)) => Announced(c)' = {})
  <2>1. 1 \in DOMAIN toServer[c] /\ toServer[c][1] = m
    BY <1>1, <1>2
  <2>2. Announced(c) # {}
    BY <1>4, <2>1 DEF Announced, At
  <2>3. Lone(At(toServer[c], {m})) => At(Tail(toServer[c]), {m}) = {}
    BY <1>1, <1>2, AtTail
  <2>4. QED
    BY <1>2, <1>4, <2>2, <2>3 DEF Announced
<1>5. QED
  BY <1>3, <1>4

-----------------------------------------------------------------------------
(* What the server's steps do to the seats.                                *)

\* A newcomer gets the next seat.
LEMMA CreateNewPlayerSeats ==
  ASSUME MoveInv, NEW c \in Clients, CreateNewPlayer(c)
  PROVE  /\ serverPc = "loop" /\ players' = Append(players, NewPlayer(c))
         /\ Len(players') = Len(players) + 1
         /\ \A i \in 1..Len(players) : players'[i] = players[i]
         /\ players'[Len(players) + 1] = NewPlayer(c)
         /\ UNCHANGED <<conn, dealer, GameInProgress, currentPlayer, serverPc>>
<1>1. players \in Seq(Player) /\ lastPlayerID \in Nat
  BY DEF MoveInv, TypeInv, TypeOK, ServerTypeOK
<1>2. NewPlayer(c) \in Player
  BY <1>1, HandTypes, ServerAssumption DEF NewPlayer, Player, Names
<1>3. players' = Append(players, NewPlayer(c))
  BY DEF CreateNewPlayer
<1>4. /\ Len(players') = Len(players) + 1
      /\ \A i \in 1..Len(players) : players'[i] = players[i]
      /\ players'[Len(players) + 1] = NewPlayer(c)
  BY <1>1, <1>2, <1>3, AppendProperties, LenProperties
<1>5. QED
  BY <1>3, <1>4 DEF CreateNewPlayer, Receive

\* A name changes nothing but itself.
LEMMA UpdatePlayerNameSeats ==
  ASSUME ServerTypeOK, NEW c, UpdatePlayerName(c)
  PROVE  /\ Len(players') = Len(players)
         /\ \A i \in 1..Len(players) :
              /\ players'[i].client = players[i].client
              /\ players'[i].hand = players[i].hand
              /\ players'[i].score = players[i].score
              /\ players'[i].currentBet = players[i].currentBet
              /\ players'[i].wins = players[i].wins
              /\ players'[i].losses = players[i].losses
         /\ UNCHANGED <<conn, dealer, GameInProgress, currentPlayer, serverPc>>
<1>1. CASE players' = players
  BY <1>1 DEF UpdatePlayerName
<1>2. CASE players' = [players EXCEPT ![PlayerIdx(c)].name = NameOf[c]]
  <2> DEFINE n == PlayerIdx(c)
             e == [players[n] EXCEPT !.name = NameOf[c]]
  <2>1. players' = [players EXCEPT ![n] = e]
    BY <1>2
  <2>2. n \in 1..Len(players) =>
          /\ e.client = players[n].client /\ e.hand = players[n].hand
          /\ e.score = players[n].score /\ e.currentBet = players[n].currentBet
          /\ e.wins = players[n].wins /\ e.losses = players[n].losses
    BY SeatsDomain DEF Player
  <2> HIDE DEF n, e
  <2>3. Len(players') = Len(players)
    BY <2>1, LenExcept DEF ServerTypeOK
  <2>4. \A i \in 1..Len(players) : players'[i] = IF i = n THEN e ELSE players[i]
    BY <2>1, SeatsDomain
  <2>5. QED
    BY <2>2, <2>3, <2>4 DEF UpdatePlayerName
<1>3. QED
  BY <1>1, <1>2 DEF UpdatePlayerName

\* A hit is from the player whose turn it is, and the card goes to that seat.
LEMMA HitSeats ==
  ASSUME MoveInv, TypeInv', OneSeatEach, NEW c \in Clients, Hit(c), pc' = pc
  PROVE  /\ GameInProgress /\ serverPc = "loop"
         /\ currentPlayer < Len(players) /\ players[currentPlayer + 1].client = c
         /\ Len(players') = Len(players)
         /\ \E card \in Ranks :
              players'[currentPlayer + 1]
                = [players[currentPlayer + 1] EXCEPT
                     !.hand = AddCard(players[currentPlayer + 1].hand, card)]
         /\ \A i \in 1..Len(players) : i # currentPlayer + 1 => players'[i] = players[i]
         /\ UNCHANGED <<conn, dealer, GameInProgress, currentPlayer, serverPc>>
<1>1. ServerTypeOK /\ players \in Seq(Player) /\ currentPlayer \in Nat
  BY DEF MoveInv, TypeInv, TypeOK, ServerTypeOK
<1>2. /\ GameInProgress /\ serverPc = "loop"
      /\ currentPlayer < Len(players) /\ players[currentPlayer + 1].client = c
  BY AnswerTaken DEF Hit, AnswerMessage
<1> DEFINE n == currentPlayer + 1
<1>3. n \in 1..Len(players) /\ DOMAIN players = 1..Len(players)
  BY <1>1, <1>2, SeatsDomain
<1>4. PlayerIdx(c) = n
  BY <1>1, <1>2, <1>3, SeatOfClient
<1>5. PICK card \in Ranks :
        players' = [players EXCEPT ![n] = [players[n] EXCEPT !.hand = AddCard(players[n].hand, card)]]
  BY <1>4 DEF Hit
<1> DEFINE e == [players[n] EXCEPT !.hand = AddCard(players[n].hand, card)]
<1>6. players' = [players EXCEPT ![n] = e]
  BY <1>5
<1> HIDE DEF e
<1>7. players'[n] = e /\ \A i \in 1..Len(players) : i # n => players'[i] = players[i]
  BY <1>3, <1>6
<1>8. Len(players') = Len(players)
  BY <1>1, <1>6, LenExcept
<1>9. UNCHANGED <<conn, dealer, GameInProgress, currentPlayer, serverPc>>
  BY DEF Hit
<1>10. QED
  BY <1>2, <1>7, <1>8, <1>9 DEF e

\* The turn passes from the player whose turn it is to the next, who bets.
LEMMA StandSeats ==
  ASSUME MoveInv, TypeInv', NEW c \in Clients, Stand(c), pc' = pc
  PROVE  /\ GameInProgress /\ serverPc = "loop" /\ currentPlayer < Len(players)
         /\ UNCHANGED <<conn, dealer, GameInProgress>>
         /\ LastTurn => /\ serverPc' = "dealer"
                        /\ UNCHANGED <<players, currentPlayer>>
         /\ ~LastTurn =>
              /\ currentPlayer + 1 < Len(players)
              /\ serverPc' = "loop" /\ currentPlayer' = currentPlayer + 1
              /\ Len(players') = Len(players)
              /\ players'[currentPlayer + 2]
                   = AddScore(players[currentPlayer + 2], -betScore)
              /\ \A i \in 1..Len(players) :
                   i # currentPlayer + 2 => players'[i] = players[i]
<1>1. /\ players \in Seq(Player) /\ Len(players) \in Nat /\ currentPlayer \in Nat
  BY DEF MoveInv, TypeInv, TypeOK, ServerTypeOK
<1>2. GameInProgress /\ serverPc = "loop" /\ currentPlayer < Len(players)
  BY AnswerTaken DEF Stand, AnswerMessage
<1>3. UNCHANGED <<conn, dealer, GameInProgress>>
  BY DEF Stand
<1>4. ASSUME LastTurn PROVE serverPc' = "dealer" /\ UNCHANGED <<players, currentPlayer>>
  BY <1>4 DEF Stand
<1>5. ASSUME ~LastTurn
      PROVE  /\ currentPlayer + 1 < Len(players)
             /\ serverPc' = "loop" /\ currentPlayer' = currentPlayer + 1
             /\ Len(players') = Len(players)
             /\ players'[currentPlayer + 2]
                  = AddScore(players[currentPlayer + 2], -betScore)
             /\ \A i \in 1..Len(players) :
                  i # currentPlayer + 2 => players'[i] = players[i]
  <2>1. GameLoop(players, currentPlayer + 1) /\ serverPc' = "loop"
    BY <1>2, <1>5 DEF Stand
  <2> DEFINE n == Len(players)
             k == currentPlayer + 1
  <2>2. n \in Nat /\ currentPlayer # n - 1
    BY <1>1, <1>5 DEF LastTurn
  <2>3. k \in Nat /\ k < n /\ k + 1 = currentPlayer + 2
    <3> HIDE DEF n
    <3>1. currentPlayer \in Nat /\ currentPlayer < n
      BY <1>1, <1>2 DEF n
    <3>2. QED
      BY <2>2, <3>1
  <2> HIDE DEF k, n
  <2>4. GameLoop(players, k)
    BY <2>1 DEF k
  <2>5. /\ Len(players') = n
        /\ players'[k + 1] = AddScore(players[k + 1], -betScore)
        /\ \A i \in 1..n : i # k + 1 => players'[i] = players[i]
    BY <1>1, <2>3, <2>4, GameLoopPlayers DEF n
  <2>6. currentPlayer' = k
    BY <2>4 DEF GameLoop
  <2>7. QED
    BY <2>1, <2>3, <2>5, <2>6 DEF k, n
<1>6. QED
  BY <1>2, <1>3, <1>4, <1>5

\* A game starts: everyone gets two cards and the first player bets.
LEMMA StartGameSeats ==
  ASSUME MoveInv, NEW c \in Clients, PlayerReady(c), readyToStart' /\ NoGame
  PROVE  /\ ~GameInProgress /\ GameInProgress'
         /\ serverPc = "loop" /\ serverPc' = "loop" /\ conn' = conn
         /\ Len(players) >= 2 /\ currentPlayer' = 0
         /\ \E x, y \in Ranks : dealer' = AddCard(AddCard(Cleared, x), y)
         /\ Len(players') = Len(players)
         /\ \E cards \in [1..Len(players) -> Ranks \X Ranks] :
              \A i \in 1..Len(players) :
                players'[i] = IF i = 1 THEN AddScore(Dealt(cards)[i], -betScore)
                                       ELSE Dealt(cards)[i]
<1>1. ServerTypeOK /\ players \in Seq(Player) /\ Len(players) \in Nat
  BY DEF MoveInv, TypeInv, TypeOK, ServerTypeOK
<1>2. /\ ~GameInProgress /\ GameInProgress' /\ Len(players) >= 2
      /\ serverPc = "loop" /\ serverPc' = "loop" /\ conn' = conn
  BY DEF PlayerReady, EnoughReady, NoGame, Receive, MoveInv, TypeInv
<1>3. players[1].playerID = 0
  BY <1>1, <1>2, FirstID, SeatsDomain DEF MoveInv
<1>4. StartGame
  BY DEF PlayerReady
<1>5. PICK cards \in [1..Len(players) -> Ranks \X Ranks], up, down \in Ranks :
        /\ dealer' = AddCard(AddCard(Cleared, up), down)
        /\ GameLoop(Dealt(cards), 0)
  BY <1>3, <1>4 DEF StartGame
<1>6. Dealt(cards) \in Seq(Player) /\ Len(Dealt(cards)) = Len(players)
  BY <1>1, DealtTypes
<1>7. /\ Len(players') = Len(players)
      /\ players'[0 + 1] = AddScore(Dealt(cards)[0 + 1], -betScore)
      /\ \A i \in 1..Len(players) : i # 0 + 1 => players'[i] = Dealt(cards)[i]
  BY <1>1, <1>2, <1>5, <1>6, GameLoopPlayers
<1>8. currentPlayer' = 0
  BY <1>5 DEF GameLoop
<1>9. \A i \in 1..Len(players) :
        players'[i] = IF i = 1 THEN AddScore(Dealt(cards)[i], -betScore)
                               ELSE Dealt(cards)[i]
  BY <1>7
<1>10. QED
  BY <1>2, <1>5, <1>7, <1>8, <1>9

LEMMA PlayerReadyWaits ==
  ASSUME MoveInv, NEW c, PlayerReady(c), ~(readyToStart' /\ NoGame)
  PROVE  UNCHANGED <<conn, players, dealer, GameInProgress, currentPlayer, serverPc>>
<1>1. UNCHANGED <<conn, players, dealer, currentPlayer, serverPc>>
  BY DEF PlayerReady
<1>2. GameInProgress' = GameInProgress
  BY DEF PlayerReady, NoGame, MoveInv, TypeInv, TypeOK, ServerTypeOK
<1>3. QED
  BY <1>1, <1>2

LEMMA ShowdownSeats ==
  ASSUME ServerTypeOK, Showdown
  PROVE  /\ Len(players') = Len(players)
         /\ \A i \in 1..Len(players) : players'[i] = Settled(players[i])
<1>1. DOMAIN players = 1..Len(players) /\ Len(players) \in Nat
  BY SeatsDomain
<1>2. players' = [i \in 1..Len(players) |-> Settled(players[i])]
  BY <1>1 DEF Showdown
<1>3. Len(players') = Len(players)
  BY <1>1, <1>2
<1>4. QED
  BY <1>2, <1>3

-----------------------------------------------------------------------------
(* SeatInv is an invariant.                                                *)

LEMMA SeatsKept ==
  ASSUME MoveInv, TypeInv', SeatInv, SameClients, conn' = conn,
         \A d \in Clients : Fewer(Announced(d), Announced(d)')
  PROVE  OneSeatEach' /\ \A d \in Clients : AnnouncedOnce(d)'
<1>1. Seated' = Seated /\ OneSeatEach'
  BY SameClientsSit DEF MoveInv, TypeInv, TypeOK, SeatInv
<1>2. QED
  BY <1>1, AnnouncedKept DEF SeatInv

\* A step that changes neither hand nor turn.
LEMMA HandsKept ==
  ASSUME ServerTypeOK, ServerTypeOK', WaitingHands, Len(players') = Len(players),
         \A i \in 1..Len(players) : players'[i].hand = players[i].hand,
         UNCHANGED <<GameInProgress, currentPlayer>>
  PROVE  WaitingHands'
<1>1. DOMAIN players = 1..Len(players) /\ DOMAIN players' = 1..Len(players)
  BY SeatsDomain DEF ServerTypeOK
<1>2. QED
  BY <1>1 DEF WaitingHands

LEMMA CreateNewPlayerSeatInv ==
  ASSUME MoveInv, TypeInv', SeatInv, NEW c \in Clients, CreateNewPlayer(c)
  PROVE  SeatInv'
<1> DEFINE n == Len(players)
<1>1. /\ ServerTypeOK /\ n \in Nat
      /\ DOMAIN players = 1..n /\ DOMAIN players' = 1..(n + 1) /\ currentPlayer \in Nat
      /\ Receive(c, "NEW_CONNECTION")
  <2>1. ServerTypeOK /\ ServerTypeOK' /\ Receive(c, "NEW_CONNECTION")
    BY DEF MoveInv, TypeInv, TypeOK, CreateNewPlayer
  <2>2. QED
    BY <2>1, SeatsDomain, CreateNewPlayerSeats DEF ServerTypeOK
<1>2. /\ \A i \in 1..n : players'[i] = players[i]
      /\ players'[n + 1] = NewPlayer(c) /\ NewPlayer(c).client = c /\ NewPlayer(c).hand = Cleared
      /\ UNCHANGED <<conn, GameInProgress, currentPlayer, serverPc>>
  BY CreateNewPlayerSeats DEF NewPlayer
<1>3. Announced(c) # {} /\ c \notin Seated /\ Announced(c)' = {} /\ conn[c] # "off"
  BY <1>1, ReceiveAnnounces DEF SeatInv, AnnouncedOnce
<1> HIDE DEF n
<1>4. OneSeatEach'
  <2>1. \A i \in 1..n : players'[i].client # c
    BY <1>1, <1>2, <1>3 DEF Seated
  <2>2. \A i, j \in 1..n : players'[i].client = players'[j].client => i = j
    BY <1>1, <1>2 DEF SeatInv, OneSeatEach
  <2>3. \A i \in 1..(n + 1) : i \in 1..n \/ (i = n + 1 /\ players'[i].client = c)
    BY <1>1, <1>2
  <2>4. QED
    BY <1>1, <2>1, <2>2, <2>3 DEF OneSeatEach
<1>5. Seated' \subseteq Seated \cup {c}
  <2>1. \A i \in 1..(n + 1) : i \in 1..n \/ (i = n + 1 /\ players'[i].client = c)
    BY <1>1, <1>2
  <2>2. QED
    BY <1>1, <1>2, <2>1 DEF Seated
<1>6. ASSUME NEW d \in Clients PROVE AnnouncedOnce(d)'
  <2>1. CASE d = c
    BY <1>2, <1>3, <2>1 DEF AnnouncedOnce, Lone
  <2>2. CASE d # c
    <3>1. Fewer(Announced(d), Announced(d)') /\ (d \in Seated' => d \in Seated)
      BY <1>1, <1>5, <2>2, ReceiveAnnounces
    <3>2. QED
      BY <1>2, <3>1 DEF SeatInv, AnnouncedOnce, Fewer
  <2>3. QED
    BY <2>1, <2>2
<1>7. EndInProgress'
  BY <1>2 DEF SeatInv, EndInProgress
<1>8. WaitingHands'
  <2>1. \A i \in 1..(n + 1) : i \in 1..n \/ (i = n + 1 /\ players'[i].hand = Cleared)
    BY <1>1, <1>2
  <2>2. \A i \in 1..n : players'[i].hand = players[i].hand
    BY <1>2
  <2>3. GameInProgress' => GameInProgress
    BY <1>2
  <2>4. QED
    BY <1>1, <1>2, <2>1, <2>2, <2>3, DealtHandsStand DEF SeatInv, WaitingHands
<1>9. QED
  BY <1>4, <1>6, <1>7, <1>8 DEF SeatInv

LEMMA NameAndHitSeatInv ==
  ASSUME MoveInv, TypeInv', SeatInv, NEW c \in Clients, UpdatePlayerName(c) \/ Hit(c), pc' = pc
  PROVE  SeatInv'
<1>1. ServerTypeOK /\ ServerTypeOK' /\ DOMAIN players = 1..Len(players)
  BY SeatsDomain DEF MoveInv, TypeInv, TypeOK
<1>2. \A d \in Clients : Fewer(Announced(d), Announced(d)')
  BY ReceiveAnnounces DEF UpdatePlayerName, Hit
<1>3. UNCHANGED <<conn, GameInProgress, currentPlayer, serverPc>>
  BY DEF UpdatePlayerName, Hit
<1>4. CASE UpdatePlayerName(c)
  <2>1. SameClients
    BY <1>1, <1>4, UpdatePlayerNameSeats DEF SameClients
  <2>2. WaitingHands'
    BY <1>1, <1>3, <1>4, UpdatePlayerNameSeats, HandsKept DEF SeatInv
  <2>3. QED
    BY <1>2, <1>3, <2>1, <2>2, SeatsKept DEF SeatInv, EndInProgress
<1>5. CASE Hit(c)
  <2> DEFINE n == currentPlayer + 1
  <2>1. /\ Len(players') = Len(players)
        /\ n \in 1..Len(players)
        /\ players'[n].client = players[n].client
        /\ \A i \in 1..Len(players) : i # n => players'[i] = players[i]
    <3>1. currentPlayer < Len(players) /\ currentPlayer \in Nat /\ Len(players) \in Nat
      BY <1>1, <1>5, HitSeats, SeatsDomain DEF SeatInv, ServerTypeOK
    <3>2. n \in 1..Len(players) /\ players[n] \in Player
      BY <1>1, <3>1, SeatsDomain
    <3>3. PICK card \in Ranks :
            players'[n] = [players[n] EXCEPT !.hand = AddCard(players[n].hand, card)]
      BY <1>5, HitSeats DEF SeatInv
    <3>4. players'[n].client = players[n].client
      BY <3>2, <3>3 DEF Player
    <3>5. QED
      BY <1>5, <3>2, <3>4, HitSeats DEF SeatInv
  <2>2. SameClients
    BY <2>1 DEF SameClients
  <2>3. WaitingHands'
    <3>1. DOMAIN players' = 1..Len(players)
      BY <1>1, <2>1 DEF ServerTypeOK
    <3>2. \A i \in 1..Len(players) : i - 1 > currentPlayer => i # n
      BY <1>1 DEF ServerTypeOK
    <3>3. QED
      BY <1>1, <1>3, <2>1, <3>1, <3>2 DEF SeatInv, WaitingHands
  <2>4. QED
    BY <1>2, <1>3, <2>2, <2>3, SeatsKept DEF SeatInv, EndInProgress
<1>6. QED
  BY <1>4, <1>5

LEMMA StandSeatInv ==
  ASSUME MoveInv, TypeInv', SeatInv, NEW c \in Clients, Stand(c), pc' = pc
  PROVE  SeatInv'
<1>1. ServerTypeOK /\ ServerTypeOK' /\ DOMAIN players = 1..Len(players) /\ Len(players) \in Nat
      /\ currentPlayer \in Nat
  BY SeatsDomain DEF MoveInv, TypeInv, TypeOK, ServerTypeOK
<1>2. \A d \in Clients : Fewer(Announced(d), Announced(d)')
  BY ReceiveAnnounces DEF Stand
<1>3. GameInProgress /\ UNCHANGED <<conn, GameInProgress>>
  BY StandSeats
<1>4. CASE LastTurn
  <2>1. serverPc' = "dealer" /\ UNCHANGED <<players, currentPlayer>>
    BY <1>4, StandSeats
  <2>2. QED
    BY <1>1, <1>2, <1>3, <2>1, SeatsKept, HandsKept DEF SameClients, SeatInv, EndInProgress
<1>5. CASE ~LastTurn
  <2> DEFINE n == currentPlayer + 2
  <2>1. /\ currentPlayer + 1 < Len(players)
        /\ serverPc' = "loop" /\ currentPlayer' = currentPlayer + 1
        /\ Len(players') = Len(players)
        /\ players'[n] = AddScore(players[n], -betScore)
        /\ \A i \in 1..Len(players) : i # n => players'[i] = players[i]
    BY <1>5, StandSeats
  <2>2. n \in 1..Len(players) /\ players[n] \in Player
    BY <1>1, <2>1, SeatsDomain
  <2>3. players'[n].client = players[n].client /\ players'[n].hand = players[n].hand
    BY <2>1, <2>2, BetTaken
  <2> HIDE DEF n
  <2>4. \A i \in 1..Len(players) : /\ players'[i].client = players[i].client
                                   /\ players'[i].hand = players[i].hand
    BY <2>1, <2>3
  <2>5. SameClients
    BY <2>1, <2>4 DEF SameClients
  <2>6. WaitingHands'
    <3>1. DOMAIN players' = 1..Len(players)
      BY <1>1, <2>1 DEF ServerTypeOK
    <3>2. \A i \in 1..Len(players) : i - 1 > currentPlayer' => i - 1 > currentPlayer
      BY <1>1, <2>1
    <3>3. QED
      BY <1>1, <1>3, <2>4, <3>1, <3>2 DEF SeatInv, WaitingHands
  <2>7. QED
    BY <1>2, <1>3, <2>1, <2>5, <2>6, SeatsKept DEF SeatInv, EndInProgress
<1>6. QED
  BY <1>4, <1>5

LEMMA PlayerReadySeatInv ==
  ASSUME MoveInv, TypeInv', SeatInv, NEW c \in Clients, PlayerReady(c)
  PROVE  SeatInv'
<1>1. ServerTypeOK /\ ServerTypeOK' /\ DOMAIN players = 1..Len(players) /\ Len(players) \in Nat
  BY SeatsDomain DEF MoveInv, TypeInv, TypeOK
<1>2. \A d \in Clients : Fewer(Announced(d), Announced(d)')
  BY ReceiveAnnounces DEF PlayerReady
<1>3. CASE readyToStart' /\ NoGame
  <2>1. PICK cards \in [1..Len(players) -> Ranks \X Ranks] :
          \A i \in 1..Len(players) :
            players'[i] = IF i = 1 THEN AddScore(Dealt(cards)[i], -betScore)
                                   ELSE Dealt(cards)[i]
    BY <1>3, StartGameSeats
  <2>2. ASSUME NEW i \in 1..Len(players)
        PROVE  players'[i].client = players[i].client /\ ~CheckBust(players'[i].hand)
    <3>1. /\ Dealt(cards)[i].client = players[i].client
          /\ Dealt(cards)[i].hand = AddCard(AddCard(Cleared, cards[i][1]), cards[i][2])
      BY <1>1, DealtPlayers
    <3>2. Dealt(cards)[i] \in Player
      BY <1>1, DealtTypes
    <3>3. players'[i].client = players[i].client /\ players'[i].hand = Dealt(cards)[i].hand
      BY <2>1, <3>1, <3>2, BetTaken
    <3>4. cards[i][1] \in CardValues /\ cards[i][2] \in CardValues
      BY ServerAssumption
    <3>5. QED
      BY <3>1, <3>3, <3>4, DealtHandsStand
  <2>3. Len(players') = Len(players) /\ serverPc' = "loop" /\ conn' = conn
    BY <1>3, StartGameSeats
  <2>4. WaitingHands'
    BY <1>1, <2>2, <2>3 DEF WaitingHands, ServerTypeOK
  <2>5. QED
    BY <1>2, <2>2, <2>3, <2>4, SeatsKept DEF SameClients, SeatInv, EndInProgress
<1>4. CASE ~(readyToStart' /\ NoGame)
  BY <1>1, <1>2, <1>4, PlayerReadyWaits, SeatsKept, HandsKept
     DEF SameClients, SeatInv, EndInProgress
<1>5. QED
  BY <1>3, <1>4

LEMMA DoEndSeatInv ==
  ASSUME MoveInv, TypeInv', SeatInv, DealerDraw \/ Showdown \/ IgnoreKey
  PROVE  SeatInv'
<1>1. ServerTypeOK /\ ServerTypeOK' /\ DOMAIN players = 1..Len(players)
  BY SeatsDomain DEF MoveInv, TypeInv, TypeOK
<1>2. conn' = conn /\ toServer' = toServer
  BY DEF DealerDraw, Showdown, IgnoreKey, netVars
<1>3. \A d \in Clients : Fewer(Announced(d), Announced(d)')
  BY <1>2, KeepsAnnounced
<1>4. SameClients
  <2>1. CASE Showdown
    BY <1>1, <2>1, ShowdownSeats, SettledSeats, SeatsDomain DEF SameClients
  <2>2. CASE DealerDraw \/ IgnoreKey
    BY <2>2 DEF SameClients, DealerDraw, IgnoreKey
  <2>3. QED
    BY <2>1, <2>2
<1>5. EndInProgress' /\ WaitingHands'
  <2>1. CASE Showdown
    BY <2>1 DEF Showdown, EndInProgress, WaitingHands
  <2>2. CASE DealerDraw \/ IgnoreKey
    <3>1. WaitingHands'
      BY <1>1, <2>2, HandsKept DEF DealerDraw, IgnoreKey, SeatInv
    <3>2. EndInProgress'
      BY <2>2 DEF DealerDraw, IgnoreKey, SeatInv, EndInProgress
    <3>3. QED
      BY <3>1, <3>2
  <2>3. QED
    BY <2>1, <2>2
<1>6. QED
  BY <1>2, <1>3, <1>4, <1>5, SeatsKept DEF SeatInv

LEMMA NextSeatInv == MoveInv /\ TypeInv' /\ SeatInv /\ [Next]_vars => SeatInv'
<1> SUFFICES ASSUME MoveInv, TypeInv', SeatInv, [Next]_vars PROVE SeatInv'
  OBVIOUS
<1>1. ServerTypeOK /\ ServerTypeOK'
  BY DEF MoveInv, TypeInv, TypeOK
<1>2. CASE ServerDoEnd
  BY <1>2, DoEndSeatInv DEF ServerDoEnd, ServerEnds
<1>3. ASSUME NEW c \in Clients, ServerThread(c) PROVE SeatInv'
  BY <1>3, CreateNewPlayerSeatInv, NameAndHitSeatInv, StandSeatInv, PlayerReadySeatInv
     DEF ServerThread, ServerReceives, clientVars
<1>4. ASSUME UNCHANGED <<players, GameInProgress, currentPlayer, serverPc>>,
             \A d \in Clients : AnnouncedOnce(d)'
      PROVE  SeatInv'
  BY <1>1, <1>4, SameClientsSit, HandsKept DEF SameClients, SeatInv, EndInProgress
<1>5. CASE Operator \/ UNCHANGED vars
  <2>1. UNCHANGED <<players, GameInProgress, currentPlayer, serverPc, conn, toServer>>
    BY <1>5 DEF Operator, PressEnter, vars, serverVars, netVars
  <2>2. Seated' = Seated
    BY <2>1 DEF Seated
  <2>3. \A d \in Clients : AnnouncedOnce(d)'
    BY <2>1, <2>2, AnnouncedKept, KeepsAnnounced DEF SeatInv
  <2>4. QED
    BY <1>4, <2>1, <2>3
<1>6. ASSUME NEW c \in Clients,
             \/ ClientReceives(c) \/ ClientReady(c) \/ UserStarts(c) \/ UserReady(c)
             \/ UserMoves(c) \/ UserRestarts(c) \/ UserDeclines(c) \/ PeerNotices(c)
      PROVE  SeatInv'
  <2>1. UNCHANGED <<players, GameInProgress, currentPlayer, serverPc>>
    BY <1>6, Bystander DEF serverVars
  <2>2. Seated' = Seated
    BY <2>1 DEF Seated
  <2>3. ASSUME NEW d \in Clients PROVE AnnouncedOnce(d)'
    BY <1>6, <2>2, ClientAnnounces, StartAnnounces, AnnouncedKept DEF SeatInv
  <2>4. QED
    BY <1>4, <2>1, <2>3
<1>7. QED
  BY <1>2, <1>3, <1>5, <1>6 DEF Next

LEMMA InitSeatInv == Init => SeatInv
<1> SUFFICES ASSUME Init PROVE SeatInv
  OBVIOUS
<1>1. players = << >> /\ ~GameInProgress /\ serverPc = "loop"
  BY DEF Init, ServerInit
<1>2. \A d \in Clients : Announced(d) = {}
  BY DEF Init, NetInit, Announced, At
<1>3. DOMAIN players = {}
  BY <1>1
<1>4. QED
  BY <1>1, <1>2, <1>3
     DEF SeatInv, OneSeatEach, AnnouncedOnce, Lone, Seated, EndInProgress, WaitingHands

\* What the seats and the turn are at every moment.
LEMMA SeatsAndTurn == Spec => [](MoveInv /\ SeatInv)
<1>1. Init => MoveInv /\ SeatInv
  BY InitMoveInv, InitSeatInv
<1>2. MoveInv /\ SeatInv /\ [Next]_vars => (MoveInv /\ SeatInv)'
  BY NextMoveInv, NextSeatInv DEF MoveInv
<1>3. QED
  BY <1>1, <1>2, PTL DEF Spec

-----------------------------------------------------------------------------
(* The refinement of RoundTable.                                           *)

LEMMA SeatListIs ==
  ASSUME ServerTypeOK
  PROVE  /\ DOMAIN SeatList = 1..Len(players) /\ Len(SeatList) = Len(players)
         /\ \A i \in 1..Len(players) : SeatList[i] = SeatOf(i)
<1>1. Len(players) \in Nat
  BY SeatsDomain
<1>2. QED
  BY <1>1 DEF SeatList

LEMMA AppendIs ==
  ASSUME NEW n \in Nat, NEW g, NEW h, NEW e,
         g = [i \in 1..n |-> g[i]], h = [i \in 1..(n + 1) |-> h[i]],
         \A i \in 1..n : h[i] = g[i], h[n + 1] = e
  PROVE  h = Append(g, e)
<1> DEFINE S == {g[i] : i \in 1..n} \cup {e}
<1>1. g \in [1..n -> S] /\ e \in S
  OBVIOUS
<1>2. g \in Seq(S) /\ Len(g) = n
  BY <1>1
<1>3. \A i \in 1..(n + 1) : i \in 1..n \/ i = n + 1
  OBVIOUS
<1>4. h \in [1..(n + 1) -> S]
  BY <1>3
<1>5. h \in Seq(S) /\ Len(h) = n + 1
  BY <1>4
<1> HIDE DEF S
<1>6. /\ Append(g, e) \in Seq(S) /\ Len(Append(g, e)) = n + 1
      /\ \A i \in 1..n : Append(g, e)[i] = g[i]
      /\ Append(g, e)[n + 1] = e
  BY <1>1, <1>2, AppendProperties
<1>7. \A i \in 1..(n + 1) : h[i] = Append(g, e)[i]
  BY <1>3, <1>6
<1>8. QED
  BY <1>5, <1>6, <1>7, SeqEqual

SeatFields == {"status", "hand", "money"}

LEMMA SeatEqual ==
  ASSUME NEW s, NEW h, NEW m, NEW r, r = [f \in SeatFields |-> r[f]],
         r.status = s, r.hand = h, r.money = m
  PROVE  r = [status |-> s, hand |-> h, money |-> m]
<1> DEFINE q == [status |-> s, hand |-> h, money |-> m]
<1>1. q = [f \in SeatFields |-> q[f]]
  BY DEF SeatFields
<1>2. q.status = s /\ q.hand = h /\ q.money = m
  OBVIOUS
<1> HIDE DEF q
<1>3. \A f \in SeatFields : r[f] = q[f]
  BY <1>2 DEF SeatFields
<1>4. r = q
  BY <1>1, <1>3
<1>5. QED
  BY <1>4 DEF q

\* What RoundTable does to a seat, by name.
WithCards(r, t, g) == [r EXCEPT !.status = t, !.hand = g]
WithMoney(r, t, g) == [r EXCEPT !.status = t, !.money = g]
WithStatus(r, t) == [r EXCEPT !.status = t]
WithHand(r, g) == [r EXCEPT !.hand = g]

LEMMA SeatExcept ==
  ASSUME NEW s, NEW h, NEW m, NEW t, NEW g, NEW r,
         r = [status |-> s, hand |-> h, money |-> m]
  PROVE  /\ WithCards(r, t, g) = [status |-> t, hand |-> g, money |-> m]
         /\ WithMoney(r, t, g) = [status |-> t, hand |-> h, money |-> g]
         /\ WithStatus(r, t) = [status |-> t, hand |-> h, money |-> m]
         /\ WithHand(r, g) = [status |-> s, hand |-> g, money |-> m]
<1>1. /\ r = [f \in SeatFields |-> r[f]]
      /\ r.status = s /\ r.hand = h /\ r.money = m
  BY DEF SeatFields
<1>2. WithCards(r, t, g) = [status |-> t, hand |-> g, money |-> m]
  <2> DEFINE e == WithCards(r, t, g)
  <2>1. e = [f \in SeatFields |-> e[f]] /\ e.status = t /\ e.hand = g /\ e.money = m
    BY <1>1 DEF SeatFields, WithCards
  <2> HIDE DEF e
  <2>2. e = [status |-> t, hand |-> g, money |-> m]
    BY <2>1, SeatEqual
  <2>3. QED
    BY <2>2 DEF e
<1>3. WithMoney(r, t, g) = [status |-> t, hand |-> h, money |-> g]
  <2> DEFINE e == WithMoney(r, t, g)
  <2>1. e = [f \in SeatFields |-> e[f]] /\ e.status = t /\ e.hand = h /\ e.money = g
    BY <1>1 DEF SeatFields, WithMoney
  <2> HIDE DEF e
  <2>2. e = [status |-> t, hand |-> h, money |-> g]
    BY <2>1, SeatEqual
  <2>3. QED
    BY <2>2 DEF e
<1>4. WithStatus(r, t) = [status |-> t, hand |-> h, money |-> m]
  <2> DEFINE e == WithStatus(r, t)
  <2>1. e = [f \in SeatFields |-> e[f]] /\ e.status = t /\ e.hand = h /\ e.money = m
    BY <1>1 DEF SeatFields, WithStatus
  <2> HIDE DEF e
  <2>2. e = [status |-> t, hand |-> h, money |-> m]
    BY <2>1, SeatEqual
  <2>3. QED
    BY <2>2 DEF e
<1>5. WithHand(r, g) = [status |-> s, hand |-> g, money |-> m]
  <2> DEFINE e == WithHand(r, g)
  <2>1. e = [f \in SeatFields |-> e[f]] /\ e.status = s /\ e.hand = g /\ e.money = m
    BY <1>1 DEF SeatFields, WithHand
  <2> HIDE DEF e
  <2>2. e = [status |-> s, hand |-> g, money |-> m]
    BY <2>1, SeatEqual
  <2>3. QED
    BY <2>2 DEF e
<1>6. QED
  BY <1>2, <1>3, <1>4, <1>5

\* A step that changes nothing RoundTable sees.
LEMMA TableStutters ==
  ASSUME ServerTypeOK, Len(players') = Len(players),
         \A i \in 1..Len(players) : /\ players'[i].hand = players[i].hand
                                    /\ players'[i].score = players[i].score
                                    /\ players'[i].currentBet = players[i].currentBet,
         UNCHANGED <<dealer, GameInProgress, currentPlayer, PhaseOf>>,
         GameInProgress => UNCHANGED serverPc
  PROVE  UNCHANGED Table!tableVars
<1>1. \A i \in 1..Len(players) : SeatOf(i)' = SeatOf(i)
  BY DEF SeatOf, SeatStatus
<1>2. SeatList' = SeatList
  BY <1>1 DEF SeatList
<1>3. QED
  BY <1>2 DEF Table!tableVars, SeatList

LEMMA CreateNewPlayerJoins ==
  ASSUME MoveInv, SeatInv, EveryoneBetsOnce, NEW c \in Clients, CreateNewPlayer(c)
  PROVE  Table!Join
<1> DEFINE n == Len(players)
           e == [status |-> IF PhaseOf = "play" THEN "waiting" ELSE "idle",
                 hand |-> Cleared, money |-> startingScore]
<1>1. /\ n \in Nat /\ currentPlayer \in Nat
      /\ startingScore \in Int
      /\ GameInProgress => currentPlayer < n
  BY SeatsDomain, ServerAssumption
     DEF MoveInv, TypeInv, TypeOK, ServerTypeOK, EveryoneBetsOnce
<1>2. /\ serverPc = "loop" /\ Len(players') = n + 1
      /\ \A i \in 1..n : players'[i] = players[i]
      /\ players'[n + 1] = NewPlayer(c)
      /\ UNCHANGED <<dealer, GameInProgress, currentPlayer, serverPc>>
  BY CreateNewPlayerSeats
<1>3. PhaseOf # "dealer" /\ PhaseOf' = PhaseOf
  BY <1>2 DEF PhaseOf
<1> HIDE DEF n
<1>4. \A i \in 1..n : SeatOf(i)' = SeatOf(i)
  BY <1>2 DEF SeatOf, SeatStatus
<1>5. PICK k \in Nat : k = n + 1
  BY <1>1
<1>6. SeatOf(k)' = e
  <2>1. NewPlayer(c).hand = Cleared /\ NewPlayer(c).score = startingScore
        /\ NewPlayer(c).currentBet = 0
    BY DEF NewPlayer
  <2>2. SeatStatus(k)' = e.status
    BY <1>1, <1>2, <1>5 DEF SeatStatus, PhaseOf
  <2>3. QED
    BY <1>1, <1>2, <1>5, <2>1, <2>2 DEF SeatOf
<1>7. SeatList' = Append(SeatList, e)
  <2>1. /\ SeatList = [i \in 1..n |-> SeatList[i]]
        /\ \A i \in 1..n : SeatList[i] = SeatOf(i)
    BY DEF SeatList, n
  <2>2. /\ SeatList' = [i \in 1..(n + 1) |-> SeatList'[i]]
        /\ \A i \in 1..(n + 1) : SeatList'[i] = SeatOf(i)'
    BY <1>2 DEF SeatList
  <2>3. \A i \in 1..n : SeatList'[i] = SeatList[i]
    BY <1>1, <1>4, <2>1, <2>2
  <2>4. SeatList'[n + 1] = e
    BY <1>1, <1>5, <1>6, <2>2
  <2> HIDE DEF e
  <2>5. QED
    BY <1>1, <2>1, <2>2, <2>3, <2>4, AppendIs
<1>8. QED
  BY <1>2, <1>3, <1>7 DEF Table!Join, SeatList, Table!Cleared, Cleared

LEMMA StartGameDeals ==
  ASSUME MoveInv, NEW c \in Clients, PlayerReady(c), readyToStart' /\ NoGame
  PROVE  Table!Deal
<1> DEFINE n == Len(players)
           Two(x, y) == AddCard(AddCard(Cleared, x), y)
           First(i) == IF i = 1 THEN "playing" ELSE "waiting"
<1>1. /\ ~GameInProgress /\ GameInProgress' /\ serverPc' = "loop"
      /\ n >= 2 /\ currentPlayer' = 0 /\ Len(players') = n
  BY StartGameSeats
<1>2. PhaseOf = "lobby" /\ PhaseOf' = "play"
  BY <1>1 DEF PhaseOf
<1>3. PICK up, down \in Ranks : dealer' = Two(up, down)
  BY StartGameSeats
<1>4. PICK cards \in [1..n -> Ranks \X Ranks] :
        \A i \in 1..n : players'[i] = IF i = 1 THEN AddScore(Dealt(cards)[i], -betScore)
                                               ELSE Dealt(cards)[i]
  BY StartGameSeats
<1>5. ServerTypeOK /\ n \in Nat /\ betScore \in Nat
  BY SeatsDomain, ServerAssumption DEF MoveInv, TypeInv, TypeOK
<1>6. ASSUME NEW i \in 1..n
      PROVE  SeatOf(i)' = WithCards(SeatOf(i), First(i), Two(cards[i][1], cards[i][2]))
  <2>1. /\ Dealt(cards)[i] \in Player /\ players[i] \in Player
        /\ Dealt(cards)[i].score = players[i].score /\ Dealt(cards)[i].currentBet = 0
        /\ Dealt(cards)[i].hand = Two(cards[i][1], cards[i][2])
    BY <1>5, DealtPlayers, DealtTypes, SeatsDomain
  <2>2. players[i].score \in Int
    BY <2>1 DEF Player
  <2>3. /\ players'[i].hand = Two(cards[i][1], cards[i][2])
        /\ players'[i].score + players'[i].currentBet = players[i].score
    <3>1. CASE i = 1
      BY <1>4, <1>5, <2>1, <2>2, <3>1, BetTaken
    <3>2. CASE i # 1
      BY <1>4, <2>1, <2>2, <3>2
    <3>3. QED
      BY <3>1, <3>2
  <2>4. SeatOf(i).money = players[i].score
    BY <1>1, <2>2 DEF SeatOf
  <2>5. SeatStatus(i)' = First(i)
    BY <1>1, <1>5 DEF SeatStatus
  <2> HIDE DEF Two, First
  <2>6. SeatOf(i)' = [status |-> First(i), hand |-> Two(cards[i][1], cards[i][2]),
                      money |-> players[i].score]
    BY <1>1, <2>3, <2>5 DEF SeatOf
  <2>7. SeatOf(i) = [status |-> SeatStatus(i), hand |-> players[i].hand,
                     money |-> players[i].score]
    BY <2>4 DEF SeatOf
  <2>8. QED
    BY <2>6, <2>7, SeatExcept
<1>7. SeatList' = [i \in 1..n |-> WithCards(SeatList[i], First(i),
                                           Two(cards[i][1], cards[i][2]))]
  <2>1. SeatList' = [i \in 1..n |-> SeatOf(i)']
    BY <1>1 DEF SeatList
  <2>2. \A i \in 1..n : SeatList[i] = SeatOf(i)
    BY <1>5, SeatListIs
  <2> HIDE DEF Two, First, n
  <2>3. QED
    BY <1>6, <2>1, <2>2
<1>8. Len(SeatList) = n
  BY <1>5, SeatListIs
<1>9. \A u, v : Table!TwoCards(u, v) = Two(u, v)
  BY DEF Table!TwoCards, Table!AddCard, AddCard, Table!Cleared, Cleared, Table!AceLow, AceLow
<1>10. \E d \in [1..Len(SeatList) -> Ranks \X Ranks] :
         SeatList' = [i \in 1..Len(SeatList) |->
                       WithCards(SeatList[i], IF i = 1 THEN "playing" ELSE "waiting",
                                 Table!TwoCards(d[i][1], d[i][2]))]
  <2> HIDE DEF Two, n
  <2>1. cards \in [1..Len(SeatList) -> Ranks \X Ranks]
    BY <1>8
  <2>2. SeatList' = [i \in 1..Len(SeatList) |->
                      WithCards(SeatList[i], IF i = 1 THEN "playing" ELSE "waiting",
                                Table!TwoCards(cards[i][1], cards[i][2]))]
    BY <1>7, <1>8, <1>9
  <2>3. QED
    BY <2>1, <2>2
<1>11. \E x, y \in Ranks : dealer' = Table!TwoCards(x, y)
  <2> HIDE DEF Two
  <2>1. QED
    BY <1>3, <1>9
<1>12. QED
  BY <1>1, <1>2, <1>8, <1>10, <1>11 DEF Table!Deal, WithCards

\* A step that changes one seat at most.
LEMMA OneSeatChanges ==
  ASSUME ServerTypeOK, Len(players') = Len(players), NEW k \in 1..Len(players), NEW e,
         SeatOf(k)' = e, \A i \in 1..Len(players) : i # k => SeatOf(i)' = SeatOf(i)
  PROVE  SeatList' = [SeatList EXCEPT ![k] = e]
<1>1. SeatList' = [i \in 1..Len(players) |-> SeatOf(i)']
  BY DEF SeatList
<1>2. SeatList = [i \in 1..Len(players) |-> SeatOf(i)]
  BY DEF SeatList
<1>3. \A i \in 1..Len(players) : SeatOf(i)' = IF i = k THEN e ELSE SeatOf(i)
  OBVIOUS
<1>4. QED
  BY <1>1, <1>2, <1>3

LEMMA HitTakesCard ==
  ASSUME MoveInv, TypeInv', OneSeatEach, NEW c \in Clients, Hit(c), pc' = pc
  PROVE  \E i \in 1..Len(SeatList) : Table!TakeCard(i)
<1>1. /\ GameInProgress /\ serverPc = "loop"
      /\ currentPlayer < Len(players) /\ Len(players') = Len(players)
      /\ UNCHANGED <<dealer, GameInProgress, currentPlayer, serverPc>>
  BY HitSeats
<1>2. ServerTypeOK /\ Len(players) \in Nat /\ currentPlayer \in Nat
  BY SeatsDomain DEF MoveInv, TypeInv, TypeOK, ServerTypeOK
<1>3. PICK k \in 1..Len(players) : k = currentPlayer + 1
  BY <1>1, <1>2
<1>4. PICK card \in Ranks :
        players'[k] = [players[k] EXCEPT !.hand = AddCard(players[k].hand, card)]
  BY <1>3, HitSeats
<1>5. /\ players'[k].hand = AddCard(players[k].hand, card)
      /\ players'[k].score = players[k].score
      /\ players'[k].currentBet = players[k].currentBet
  <2>1. players[k] \in Player
    BY <1>2, SeatsDomain
  <2>2. QED
    BY <1>4, <2>1 DEF Player
<1>6. PhaseOf = "play" /\ PhaseOf' = "play" /\ SeatStatus(k) = "playing"
  BY <1>1, <1>2, <1>3 DEF PhaseOf, SeatStatus
<1>7. \A i \in 1..Len(players) : i # k => SeatOf(i)' = SeatOf(i)
  <2>1. \A i \in 1..Len(players) : i # k => players'[i] = players[i]
    BY <1>3, HitSeats
  <2>2. QED
    BY <1>1, <2>1 DEF SeatOf, SeatStatus
<1> DEFINE h == AddCard(players[k].hand, card)
           m == players[k].score + IF GameInProgress THEN players[k].currentBet ELSE 0
           s == SeatStatus(k)
<1>8. SeatOf(k) = [status |-> s, hand |-> players[k].hand, money |-> m]
  BY DEF SeatOf
<1>9. SeatOf(k)' = [status |-> s, hand |-> h, money |-> m]
  <2>1. SeatStatus(k)' = s
    BY <1>1 DEF SeatStatus
  <2>2. QED
    BY <1>1, <1>5, <2>1 DEF SeatOf
<1> HIDE DEF h, m, s
<1>10. SeatOf(k)' = WithHand(SeatOf(k), h)
  BY <1>8, <1>9, SeatExcept
<1>11. SeatList' = [SeatList EXCEPT ![k] = WithHand(SeatList[k], AddCard(SeatList[k].hand, card))]
  <2>1. SeatList[k] = SeatOf(k) /\ SeatOf(k).hand = players[k].hand
    BY <1>2, <1>8, SeatListIs
  <2>2. SeatList' = [SeatList EXCEPT ![k] = WithHand(SeatOf(k), h)]
    BY <1>1, <1>2, <1>7, <1>10, OneSeatChanges
  <2>3. QED
    BY <2>1, <2>2 DEF h
<1>12. SeatList[k].status = "playing" /\ k \in 1..Len(SeatList)
  BY <1>2, <1>6, <1>8, SeatListIs DEF s
<1>13. \A hand : Table!AddCard(hand, card) = AddCard(hand, card)
  BY DEF Table!AddCard, AddCard, Table!AceLow, AceLow
<1>14. Table!TakeCard(k)
  BY <1>1, <1>6, <1>11, <1>12, <1>13 DEF Table!TakeCard, WithHand
<1>15. QED
  BY <1>12, <1>14

\* A seat keeps its money when the turn passes: the bet is still the player's.
LEMMA StandKeepsMoney ==
  ASSUME MoveInv, TypeInv', NEW c \in Clients, Stand(c), pc' = pc, NEW k \in 1..Len(players)
  PROVE  /\ players'[k].hand = players[k].hand
         /\ players'[k].score + players'[k].currentBet
              = players[k].score + players[k].currentBet
         /\ players'[k].wins = players[k].wins /\ players'[k].losses = players[k].losses
<1>1. ServerTypeOK
  BY DEF MoveInv, TypeInv, TypeOK
<1>2. CASE players'[k] = players[k]
  BY <1>2
<1>3. CASE players'[k] = AddScore(players[k], -betScore)
  <2>1. players[k] \in Player
    BY <1>1, SeatsDomain
  <2> DEFINE q == AddScore(players[k], -betScore)
  <2>2. /\ q.hand = players[k].hand
        /\ q.score = players[k].score - betScore
        /\ q.currentBet = players[k].currentBet + betScore
        /\ q.wins = players[k].wins /\ q.losses = players[k].losses
    BY <2>1, BetTaken
  <2>3. players'[k] = q
    BY <1>3
  <2> HIDE DEF q
  <2>4. players[k].score \in Int /\ players[k].currentBet \in Int /\ betScore \in Int
    BY <2>1, ServerAssumption DEF Player
  <2>5. QED
    BY <2>2, <2>3, <2>4
<1>4. QED
  BY <1>2, <1>3, StandSeats

LEMMA StandPassesTurn ==
  ASSUME MoveInv, TypeInv', NEW c \in Clients, Stand(c), pc' = pc
  PROVE  \E i \in 1..Len(SeatList) : Table!PassTurn(i)
<1> DEFINE n == Len(players)
           Passed(i, k) == IF k = i THEN "done"
                           ELSE IF k = i + 1 THEN "playing" ELSE SeatStatus(k)
<1>1. ServerTypeOK /\ n \in Nat /\ currentPlayer \in Nat
  BY SeatsDomain DEF MoveInv, TypeInv, TypeOK, ServerTypeOK
<1>2. /\ GameInProgress /\ serverPc = "loop" /\ currentPlayer < n
      /\ UNCHANGED <<dealer, GameInProgress>>
      /\ LastTurn => serverPc' = "dealer" /\ UNCHANGED <<players, currentPlayer>>
      /\ ~LastTurn => serverPc' = "loop" /\ currentPlayer' = currentPlayer + 1 /\ Len(players') = n
  BY StandSeats
<1>3. Len(players') = n
  BY <1>2
<1> HIDE DEF n
<1>4. PICK i \in 1..n : i = currentPlayer + 1
  BY <1>1, <1>2
<1>5. LastTurn <=> i = n
  BY <1>1, <1>4 DEF LastTurn, n
<1>6. ASSUME NEW k \in 1..n PROVE SeatStatus(k)' = Passed(i, k)
  <2>1. CASE LastTurn
    BY <1>1, <1>2, <1>4, <1>5, <2>1 DEF SeatStatus
  <2>2. CASE ~LastTurn
    BY <1>1, <1>2, <1>4, <1>5, <2>2 DEF SeatStatus
  <2>3. QED
    BY <2>1, <2>2
<1>7. ASSUME NEW k \in 1..n PROVE SeatOf(k)' = WithStatus(SeatOf(k), Passed(i, k))
  <2> DEFINE m == players[k].score + players[k].currentBet
             h == players[k].hand
             s == Passed(i, k)
             r == SeatStatus(k)
  <2>1. SeatOf(k) = [status |-> r, hand |-> h, money |-> m]
    BY <1>2 DEF SeatOf
  <2>2. /\ players'[k].hand = h /\ players'[k].score + players'[k].currentBet = m
        /\ SeatStatus(k)' = s
    BY <1>6, StandKeepsMoney DEF n
  <2> HIDE DEF m, h, s, r
  <2>3. SeatOf(k)' = [status |-> s, hand |-> h, money |-> m]
    BY <1>2, <2>2 DEF SeatOf
  <2>4. SeatOf(k)' = WithStatus(SeatOf(k), s)
    BY <2>1, <2>3, SeatExcept
  <2>5. QED
    BY <2>4 DEF s
<1>8. Len(SeatList) = n /\ \A k \in 1..n : SeatList[k] = SeatOf(k)
  BY <1>1, SeatListIs DEF n
<1>9. \A k \in 1..n : SeatOf(k).status = SeatStatus(k)
  BY DEF SeatOf
<1> HIDE DEF Passed
<1>10. SeatList' = [k \in 1..n |-> WithStatus(SeatList[k], Passed(i, k))]
  <2>1. SeatList' = [k \in 1..n |-> SeatOf(k)']
    BY <1>3 DEF SeatList
  <2>2. QED
    BY <1>7, <1>8, <2>1
<1>11. SeatList' = [k \in 1..Len(SeatList) |->
                     WithStatus(SeatList[k], IF k = i THEN "done"
                                             ELSE IF k = i + 1 THEN "playing"
                                             ELSE SeatList[k].status)]
  BY <1>8, <1>9, <1>10 DEF Passed
<1>12. SeatList[i].status = "playing"
  BY <1>1, <1>2, <1>4, <1>8, <1>9 DEF SeatStatus
<1>13. PhaseOf = "play" /\ PhaseOf' = IF i = n THEN "dealer" ELSE "play"
  BY <1>2, <1>5 DEF PhaseOf
<1>14. Table!PassTurn(i)
  BY <1>2, <1>8, <1>11, <1>12, <1>13 DEF Table!PassTurn, WithStatus
<1>15. QED
  BY <1>8, <1>14

-----------------------------------------------------------------------------
(* The showdown, seat by seat.                                             *)

LEMMA WonSeat ==
  ASSUME NEW p \in Player, NEW credit \in Nat
  PROVE  LET q == Won(p, credit)
         IN  /\ q.hand = p.hand /\ q.score = p.score + credit
             /\ q.wins = p.wins + 1 /\ q.losses = p.losses
<1> DEFINE a == p.score + credit
           b == IF credit < 0 THEN p.currentBet - credit ELSE p.currentBet
           w == p.wins + 1
           r == [p EXCEPT !.score = a, !.currentBet = b]
<1>1. r = AddScore(p, credit)
  BY DEF AddScore
<1>2. p = [f \in DOMAIN p |-> p[f]] /\ {"score", "wins", "losses", "hand", "currentBet"} \subseteq DOMAIN p
  BY DEF Player
<1> HIDE DEF a, b, w
<1>3. /\ r.score = a /\ r.wins = p.wins /\ r.losses = p.losses /\ r.hand = p.hand
      /\ "wins" \in DOMAIN r
  BY <1>2
<1> HIDE DEF r
<1>4. Won(p, credit) = [r EXCEPT !.wins = r.wins + 1]
  BY <1>1 DEF Won
<1>5. QED
  BY <1>3, <1>4 DEF a

LEMMA LostSeat ==
  ASSUME NEW p \in Player
  PROVE  LET q == Lost(p)
         IN  /\ q.hand = p.hand /\ q.score = p.score
             /\ q.wins = p.wins /\ q.losses = p.losses + 1
  BY DEF Lost, Player

\* CheckWins pays what RoundTable says the hand has gained, on top of the bet
\* GameLoop took.
LEMMA SettledSeat ==
  ASSUME NEW p \in Player, p.currentBet = betScore
  PROVE  LET q == Settled(p)
         IN  /\ q.hand = p.hand
             /\ q.score = p.score + betScore + Table!Gain(p.hand)
             /\ \/ /\ q.wins = p.wins + 1 /\ q.losses = p.losses
                   /\ q.score = p.score + betScore * 2
                      \/ q.score = p.score + (betScore * 5) \div 2
                \/ /\ q.wins = p.wins /\ q.losses = p.losses + 1
                   /\ q.score = p.score
<1> DEFINE five == (betScore * 5) \div 2
           two == betScore * 2
           gain == Table!Gain(p.hand)
           q == Settled(p)
<1>1. betScore \in Nat /\ five \in Nat /\ two \in Nat /\ two = betScore + betScore
      /\ p.score \in Int
  BY ServerAssumption DEF Player
<1>2. /\ \A h : Table!GetValue(h) = GetValue(h) /\ Table!CheckBust(h) = CheckBust(h)
  BY DEF Table!GetValue, GetValue, Table!CheckBust, CheckBust
<1>3. gain = IF CheckBust(p.hand) THEN -betScore
             ELSE IF GetValue(p.hand) = 21 THEN five - betScore
             ELSE IF CheckBust(dealer) \/ GetValue(p.hand) > GetValue(dealer) THEN betScore
             ELSE -betScore
  BY <1>2 DEF Table!Gain
<1>4. q = IF CheckBust(p.hand) THEN Lost(p)
          ELSE IF GetValue(p.hand) = 21 THEN Won(p, five)
          ELSE IF CheckBust(dealer) \/ GetValue(p.hand) > GetValue(dealer) THEN Won(p, two)
          ELSE Lost(p)
  BY DEF Settled
<1> HIDE DEF five, two, gain, q
<1>5. \/ q = Lost(p) /\ gain = -betScore
      \/ q = Won(p, five) /\ gain = five - betScore
      \/ q = Won(p, two) /\ gain = betScore
  BY <1>3, <1>4
<1>6. CASE q = Lost(p) /\ gain = -betScore
  <2>1. q.hand = p.hand /\ q.score = p.score /\ q.wins = p.wins /\ q.losses = p.losses + 1
    BY <1>6, LostSeat
  <2>2. q.score = p.score + betScore + gain
    BY <1>1, <1>6, <2>1
  <2>3. QED
    BY <2>1, <2>2 DEF q, gain
<1>7. ASSUME NEW credit \in {five, two}, q = Won(p, credit), gain = credit - betScore
      PROVE  /\ q.hand = p.hand /\ q.score = p.score + credit
             /\ q.wins = p.wins + 1 /\ q.losses = p.losses
             /\ q.score = p.score + betScore + gain
  <2>1. credit \in Nat
    BY <1>1
  <2>2. /\ q.hand = p.hand /\ q.score = p.score + credit
        /\ q.wins = p.wins + 1 /\ q.losses = p.losses
    BY <1>7, <2>1, WonSeat
  <2>3. QED
    BY <1>1, <1>7, <2>1, <2>2
<1>8. CASE q = Won(p, five) /\ gain = five - betScore
  BY <1>7, <1>8 DEF q, gain, five
<1>9. CASE q = Won(p, two) /\ gain = betScore
  <2>1. gain = two - betScore
    BY <1>1, <1>9
  <2>2. QED
    BY <1>7, <1>9, <2>1 DEF q, gain, two
<1>10. QED
  BY <1>5, <1>6, <1>8, <1>9

\* At the showdown everyone has bet.
LEMMA AllHaveBet ==
  ASSUME MoveInv, EveryoneBetsOnce, GameInProgress, serverPc = "dealer",
         NEW i \in 1..Len(players)
  PROVE  players[i].currentBet = betScore
<1>1. Len(players) \in Nat /\ DOMAIN players = 1..Len(players)
  BY SeatsDomain DEF MoveInv, TypeInv, TypeOK
<1>2. currentPlayer = Len(players) - 1
  BY DEF EveryoneBetsOnce
<1>3. i - 1 <= currentPlayer
  BY <1>1, <1>2
<1>4. QED
  BY <1>1, <1>3 DEF EveryoneBetsOnce

LEMMA ShowdownSettles ==
  ASSUME MoveInv, SeatInv, EveryoneBetsOnce, Showdown
  PROVE  Table!Settle
<1> DEFINE n == Len(players)
<1>1. /\ ServerTypeOK /\ n \in Nat /\ currentPlayer \in Nat
      /\ DOMAIN players = 1..n
  BY SeatsDomain DEF MoveInv, TypeInv, TypeOK, ServerTypeOK
<1>2. /\ serverPc = "dealer" /\ GameInProgress /\ ~GameInProgress' /\ dealer' = dealer
      /\ ~(GetValue(dealer) < 16)
  BY DEF Showdown, DealerDraws, SeatInv, EndInProgress
<1>3. PhaseOf = "dealer" /\ PhaseOf' = "lobby"
  BY <1>2 DEF PhaseOf
<1>4. Len(players') = n /\ \A i \in 1..n : players'[i] = Settled(players[i])
  BY <1>1, ShowdownSeats
<1>5. \A i \in 1..n : players[i].currentBet = betScore
  BY <1>2, AllHaveBet
<1> HIDE DEF n
<1>6. ASSUME NEW i \in 1..n
      PROVE  SeatOf(i)' = WithMoney(SeatOf(i), "idle",
                                    SeatOf(i).money + Table!Gain(SeatOf(i).hand))
  <2> DEFINE h == players[i].hand
             m == players[i].score + betScore
             s == SeatStatus(i)
             g == Table!Gain(h)
  <2>1. SeatOf(i) = [status |-> s, hand |-> h, money |-> m]
    BY <1>2, <1>5 DEF SeatOf
  <2>2. /\ players'[i].hand = h
        /\ players'[i].score = m + g
    BY <1>1, <1>4, <1>5, SettledSeat, SeatsDomain DEF n
  <2>3. players'[i].score \in Int
    <3>1. players[i] \in Player
      BY <1>1, SeatsDomain DEF n
    <3> DEFINE five == (betScore * 5) \div 2
    <3>2. players[i].score \in Int /\ betScore \in Nat /\ five \in Int
      BY <3>1, ServerAssumption DEF Player
    <3>3. players'[i].score = players[i].score + betScore * 2
          \/ players'[i].score = players[i].score + five
          \/ players'[i].score = players[i].score
      BY <1>1, <1>4, <1>5, <3>1, SettledSeat
    <3> HIDE DEF five
    <3>4. QED
      BY <3>2, <3>3
  <2>4. SeatStatus(i)' = "idle"
    BY <1>2 DEF SeatStatus
  <2> HIDE DEF h, m, s, g
  <2>5. SeatOf(i)' = [status |-> "idle", hand |-> h, money |-> m + g]
    BY <1>2, <2>2, <2>3, <2>4 DEF SeatOf
  <2>6. SeatOf(i)' = WithMoney(SeatOf(i), "idle", m + g)
    BY <2>1, <2>5, SeatExcept
  <2>7. SeatOf(i).hand = h /\ SeatOf(i).money = m
    BY <2>1
  <2>8. QED
    BY <2>6, <2>7 DEF g
<1>7. Len(SeatList) = n /\ \A i \in 1..n : SeatList[i] = SeatOf(i)
  BY <1>1, SeatListIs DEF n
<1>8. SeatList' = [i \in 1..Len(SeatList) |->
                    WithMoney(SeatList[i], "idle",
                              SeatList[i].money + Table!Gain(SeatList[i].hand))]
  <2>1. SeatList' = [i \in 1..n |-> SeatOf(i)']
    BY <1>4 DEF SeatList
  <2>2. QED
    BY <1>6, <1>7, <2>1
<1>9. Table!GetValue(dealer) >= 16
  <2>1. GetValue(dealer) \in Int
    <3>1. dealer \in HandType
      BY <1>1 DEF ServerTypeOK
    <3>2. QED
      BY <3>1 DEF HandType, GetValue
  <2>2. Table!GetValue(dealer) = GetValue(dealer)
    BY DEF Table!GetValue, GetValue
  <2>3. QED
    BY <1>2, <2>1, <2>2
<1>10. QED
  BY <1>2, <1>3, <1>8, <1>9 DEF Table!Settle, WithMoney

LEMMA DealerDrawsForTable ==
  ASSUME MoveInv, SeatInv, DealerDraw
  PROVE  Table!HouseDraws
<1>1. /\ PhaseOf = "dealer" /\ PhaseOf' = "dealer"
  BY DEF DealerDraw, SeatInv, EndInProgress, PhaseOf
<1>2. SeatList' = SeatList
  <2>1. \A i : SeatOf(i)' = SeatOf(i)
    BY DEF DealerDraw, SeatOf, SeatStatus
  <2>2. QED
    BY <2>1 DEF SeatList, DealerDraw
<1>3. /\ Table!GetValue(dealer) = GetValue(dealer)
      /\ \A card : Table!AddCard(dealer, card) = AddCard(dealer, card)
  BY DEF Table!GetValue, GetValue, Table!AddCard, AddCard, Table!AceLow, AceLow
<1>4. QED
  BY <1>1, <1>2, <1>3 DEF Table!HouseDraws, DealerDraw, DealerDraws

-----------------------------------------------------------------------------
(* Every step is a step of RoundTable, or none.                            *)

\* A step that changes at most the names leaves the table as it is.
LEMMA NothingSeen ==
  ASSUME ServerTypeOK, UNCHANGED <<players, dealer, GameInProgress, currentPlayer, serverPc>>
  PROVE  UNCHANGED Table!tableVars
<1>1. PhaseOf' = PhaseOf
  BY DEF PhaseOf
<1>2. QED
  BY <1>1, TableStutters

LEMMA NextPlaysTable ==
  ASSUME MoveInv, TypeInv', SeatInv, EveryoneBetsOnce, [Next]_vars
  PROVE  [Table!TableNext]_(Table!tableVars)
<1>1. ServerTypeOK
  BY DEF MoveInv, TypeInv, TypeOK
<1>2. CASE ServerDoEnd
  <2>1. CASE DealerDraw
    BY <2>1, DealerDrawsForTable DEF Table!TableNext
  <2>2. CASE Showdown
    BY <2>2, ShowdownSettles DEF Table!TableNext
  <2>3. CASE IgnoreKey
    <3>1. /\ UNCHANGED <<players, dealer, GameInProgress, currentPlayer>>
          /\ ~GameInProgress
      BY <2>3 DEF IgnoreKey, SeatInv, EndInProgress
    <3>2. PhaseOf' = PhaseOf
      BY <3>1 DEF PhaseOf
    <3>3. QED
      BY <1>1, <3>1, <3>2, TableStutters
  <2>4. QED
    BY <1>2, <2>1, <2>2, <2>3 DEF ServerDoEnd, ServerEnds
<1>3. ASSUME NEW c \in Clients, ServerThread(c)
      PROVE  [Table!TableNext]_(Table!tableVars)
  <2>1. pc' = pc
    BY <1>3 DEF ServerThread, clientVars
  <2>2. CASE CreateNewPlayer(c)
    BY <2>2, CreateNewPlayerJoins DEF Table!TableNext
  <2>3. CASE UpdatePlayerName(c)
    <3>1. /\ Len(players') = Len(players)
          /\ \A i \in 1..Len(players) : /\ players'[i].hand = players[i].hand
                                        /\ players'[i].score = players[i].score
                                        /\ players'[i].currentBet = players[i].currentBet
          /\ UNCHANGED <<dealer, GameInProgress, currentPlayer, serverPc>>
      BY <1>1, <2>3, UpdatePlayerNameSeats
    <3>2. PhaseOf' = PhaseOf
      BY <3>1 DEF PhaseOf
    <3>3. QED
      BY <1>1, <3>1, <3>2, TableStutters
  <2>4. CASE Hit(c)
    BY <2>1, <2>4, HitTakesCard DEF SeatInv, Table!TableNext
  <2>5. CASE Stand(c)
    BY <2>1, <2>5, StandPassesTurn DEF Table!TableNext
  <2>6. CASE PlayerReady(c)
    <3>1. CASE readyToStart' /\ NoGame
      BY <2>6, <3>1, StartGameDeals DEF Table!TableNext
    <3>2. CASE ~(readyToStart' /\ NoGame)
      BY <1>1, <2>6, <3>2, PlayerReadyWaits, NothingSeen
    <3>3. QED
      BY <3>1, <3>2
  <2>7. QED
    BY <1>3, <2>2, <2>3, <2>4, <2>5, <2>6 DEF ServerThread, ServerReceives
<1>4. CASE Operator \/ UNCHANGED vars
  BY <1>1, <1>4, NothingSeen DEF Operator, PressEnter, vars, serverVars
<1>5. ASSUME NEW c \in Clients,
             \/ ClientReceives(c) \/ ClientReady(c) \/ UserStarts(c) \/ UserReady(c)
             \/ UserMoves(c) \/ UserRestarts(c) \/ UserDeclines(c) \/ PeerNotices(c)
      PROVE  [Table!TableNext]_(Table!tableVars)
  BY <1>1, <1>5, Bystander, NothingSeen DEF serverVars
<1>6. QED
  BY <1>2, <1>3, <1>4, <1>5 DEF Next

LEMMA InitSetsTable == Init => Table!TableInit
<1> SUFFICES ASSUME Init PROVE Table!TableInit
  OBVIOUS
<1>1. players = << >> /\ dealer = Cleared /\ ~GameInProgress
  BY DEF Init, ServerInit
<1>2. SeatList = << >>
  BY <1>1 DEF SeatList
<1>3. QED
  BY <1>1, <1>2 DEF Table!TableInit, PhaseOf, Table!Cleared, Cleared

\* The server, its clients and the network between them play RoundTable: every
\* step is a newcomer sitting down, a deal, a card for the seat whose turn it
\* is, the turn passing to the next seat, a card for the dealer, the
\* settlement, or nothing a table would show (the receive loop, GameLoop,
\* SetHitStandRecieved and DoEnd of main.cpp).
THEOREM TablePlayed == Spec => ImplementsTable
<1>1. Init => Table!TableInit
  BY InitSetsTable
<1>2. MoveInv /\ MoveInv' /\ SeatInv /\ EveryoneBetsOnce /\ [Next]_vars
        => [Table!TableNext]_(Table!tableVars)
  BY NextPlaysTable DEF MoveInv
<1>3. QED
  BY <1>1, <1>2, SeatsAndTurn, BetsOnce, PTL DEF Spec, ImplementsTable, Table!TableSpec

-----------------------------------------------------------------------------
(* The scores: what a player has, with the bet that is on the table, is    *)
(* what the wins and losses account for.                                   *)

InBalance(money, wins, losses) ==
  LET extra == money - startingScore - betScore * (wins - losses)
  IN  0 <= 2 * extra /\ 2 * extra <= betScore * wins

Pending(p) == IF GameInProgress THEN p.currentBet ELSE 0

SeatBalanced(p) == InBalance(p.score + Pending(p), p.wins, p.losses)

LEMMA LedgerIs ==
  ASSUME ServerTypeOK
  PROVE  Ledger <=> \A i \in 1..Len(players) : SeatBalanced(players[i])
<1> DEFINE Line(p) ==
             LET pending == IF GameInProgress THEN p.currentBet ELSE 0
                 extra == p.score + pending - startingScore - betScore * (p.wins - p.losses)
             IN  0 <= 2 * extra /\ 2 * extra <= betScore * p.wins
<1>1. Ledger <=> \A i \in 1..Len(players) : Line(players[i])
  BY SeatsDomain, Zenon DEF Ledger
<1>2. ASSUME NEW p \in Player PROVE Line(p) <=> SeatBalanced(p)
  <2> DEFINE s == p.score
             b == Pending(p)
             x == betScore * (p.wins - p.losses)
             y == betScore * p.wins
  <2>1. s \in Int /\ b \in Int /\ startingScore \in Int /\ x \in Int /\ y \in Int
    BY ServerAssumption DEF Player, Pending
  <2>2. Line(p) <=> LET extra == s + b - startingScore - x
                    IN  0 <= 2 * extra /\ 2 * extra <= y
    BY Zenon DEF Pending
  <2>3. SeatBalanced(p) <=> LET extra == (s + b) - startingScore - x
                            IN  0 <= 2 * extra /\ 2 * extra <= y
    BY Zenon DEF SeatBalanced, InBalance
  <2> HIDE DEF s, b, x, y
  <2>4. s + b - startingScore - x = (s + b) - startingScore - x
    BY <2>1
  <2>5. QED
    BY <2>2, <2>3, <2>4, Zenon
<1> HIDE DEF Line
<1>3. QED
  BY <1>1, <1>2, SeatsDomain

LEMMA NewcomerInBalance == InBalance(startingScore, 0, 0)
<1>1. startingScore \in Int /\ betScore * (0 - 0) = 0 /\ betScore * 0 = 0
  BY ServerAssumption
<1>2. QED
  BY <1>1 DEF InBalance

\* A win at even money and a loss keep the balance; 21 adds half a bet.
LEMMA SettledInBalance ==
  ASSUME NEW s \in Int, NEW w \in Nat, NEW l \in Nat, InBalance(s + betScore, w, l)
  PROVE  /\ InBalance(s, w, l + 1)
         /\ InBalance(s + betScore * 2, w + 1, l)
         /\ InBalance(s + (betScore * 5) \div 2, w + 1, l)
<1> DEFINE a == betScore * (w - l)
           c == betScore * w
           five == (betScore * 5) \div 2
<1>1. betScore \in Nat /\ startingScore \in Int
  BY ServerAssumption
<1>2. a \in Int /\ c \in Int
  BY <1>1
<1>3. betScore * (w - (l + 1)) = a - betScore
  BY <1>1
<1>4. betScore * ((w + 1) - l) = a + betScore
  BY <1>1
<1>5. betScore * (w + 1) = c + betScore
  BY <1>1
<1>6. five \in Int /\ 4 * betScore <= 2 * five /\ 2 * five <= 5 * betScore
  BY <1>1
<1> HIDE DEF a, c, five
<1>7. LET extra == (s + betScore) - startingScore - a
      IN  0 <= 2 * extra /\ 2 * extra <= c
  BY Zenon DEF InBalance, a, c
<1>8. LET extra == s - startingScore - (a - betScore)
      IN  0 <= 2 * extra /\ 2 * extra <= c
  BY <1>1, <1>2, <1>7
<1>9. LET extra == (s + betScore * 2) - startingScore - (a + betScore)
      IN  0 <= 2 * extra /\ 2 * extra <= c + betScore
  BY <1>1, <1>2, <1>7
<1>10. LET extra == (s + five) - startingScore - (a + betScore)
       IN  0 <= 2 * extra /\ 2 * extra <= c + betScore
  BY <1>1, <1>2, <1>6, <1>7
<1>11. InBalance(s, w, l + 1)
  BY <1>3, <1>8 DEF InBalance, c
<1>12. InBalance(s + betScore * 2, w + 1, l)
  BY <1>4, <1>5, <1>9, Zenon DEF InBalance
<1>13. InBalance(s + five, w + 1, l)
  BY <1>4, <1>5, <1>10, Zenon DEF InBalance
<1>14. QED
  BY <1>11, <1>12, <1>13 DEF five

\* A step after which everybody has the money, the wins and the losses they had.
LEMMA BalanceStays ==
  ASSUME ServerTypeOK, ServerTypeOK', Ledger, Len(players') = Len(players),
         \A i \in 1..Len(players) :
           /\ players'[i].score + Pending(players[i])' = players[i].score + Pending(players[i])
           /\ players'[i].wins = players[i].wins
           /\ players'[i].losses = players[i].losses
  PROVE  Ledger'
<1>1. \A i \in 1..Len(players) : SeatBalanced(players[i])
  BY LedgerIs
<1>2. ASSUME NEW i \in 1..Len(players) PROVE SeatBalanced(players[i])'
  BY <1>1, Zenon DEF SeatBalanced, InBalance
<1>3. (Ledger <=> \A i \in 1..Len(players) : SeatBalanced(players[i]))'
  BY LedgerIs, PTL
<1>4. QED
  BY <1>2, <1>3

LEMMA JoinBalance ==
  ASSUME MoveInv, TypeInv', Ledger, NEW c \in Clients, CreateNewPlayer(c)
  PROVE  Ledger'
<1> DEFINE n == Len(players)
<1>1. ServerTypeOK /\ ServerTypeOK' /\ n \in Nat
  BY SeatsDomain DEF MoveInv, TypeInv, TypeOK
<1>2. /\ \A i \in 1..n : players'[i] = players[i]
      /\ players'[n + 1] = NewPlayer(c) /\ Len(players') = n + 1
      /\ GameInProgress' = GameInProgress
  BY CreateNewPlayerSeats
<1>3. \A i \in 1..n : SeatBalanced(players[i])
  BY <1>1, LedgerIs
<1> HIDE DEF n
<1>4. ASSUME NEW q, q = NewPlayer(c) PROVE SeatBalanced(q)'
  <2>1. q.score = startingScore /\ q.currentBet = 0 /\ q.wins = 0 /\ q.losses = 0
    BY <1>4 DEF NewPlayer
  <2>2. q.score + Pending(q)' = startingScore
    BY <2>1, ServerAssumption DEF Pending
  <2>3. QED
    BY <2>1, <2>2, NewcomerInBalance, Zenon DEF SeatBalanced
<1>5. ASSUME NEW q, SeatBalanced(q) PROVE SeatBalanced(q)'
  <2>1. Pending(q)' = Pending(q)
    BY <1>2 DEF Pending
  <2>2. QED
    BY <1>5, <2>1, Zenon DEF SeatBalanced
<1>6. \A i \in 1..(n + 1) : i \in 1..n \/ i = n + 1
  BY <1>1
<1>7. (Ledger <=> \A i \in 1..Len(players) : SeatBalanced(players[i]))'
  BY <1>1, LedgerIs, PTL
<1>8. ASSUME NEW i \in 1..(n + 1) PROVE SeatBalanced(players[i])'
  <2>1. PICK q : q = players'[i]
    OBVIOUS
  <2>2. SeatBalanced(q)'
    BY <1>2, <1>3, <1>4, <1>5, <1>6, <2>1
  <2>3. QED
    BY <2>1, <2>2, Zenon DEF SeatBalanced, Pending
<1>9. QED
  BY <1>2, <1>7, <1>8

\* The deal takes the old bets off the table; they had been settled.
LEMMA StartBalance ==
  ASSUME MoveInv, TypeInv', Ledger, NEW c \in Clients, PlayerReady(c),
         readyToStart' /\ NoGame
  PROVE  Ledger'
<1>1. ServerTypeOK /\ ServerTypeOK'
  BY DEF MoveInv, TypeInv, TypeOK
<1>2. /\ ~GameInProgress /\ GameInProgress' /\ Len(players') = Len(players)
  BY StartGameSeats
<1>3. PICK cards \in [1..Len(players) -> Ranks \X Ranks] :
        \A i \in 1..Len(players) :
          players'[i] = IF i = 1 THEN AddScore(Dealt(cards)[i], -betScore) ELSE Dealt(cards)[i]
  BY StartGameSeats
<1>4. ASSUME NEW i \in 1..Len(players)
      PROVE  /\ players'[i].score + players'[i].currentBet = players[i].score
             /\ players'[i].wins = players[i].wins
             /\ players'[i].losses = players[i].losses
  <2> DEFINE d == Dealt(cards)[i]
  <2>1. d \in Player /\ players[i] \in Player
    BY <1>1, DealtTypes, SeatsDomain
  <2>2. /\ d.score = players[i].score /\ d.currentBet = 0
        /\ d.wins = players[i].wins /\ d.losses = players[i].losses
    BY <1>1, DealtPlayers
  <2> DEFINE q == AddScore(d, -betScore)
  <2>3. /\ q.score = d.score - betScore /\ q.currentBet = d.currentBet + betScore
        /\ q.wins = d.wins /\ q.losses = d.losses
    BY <2>1, BetTaken
  <2>4. players'[i] = q \/ players'[i] = d
    BY <1>3
  <2> HIDE DEF d, q
  <2>5. players[i].score \in Int /\ betScore \in Int
    BY <2>1, ServerAssumption DEF Player
  <2>6. QED
    BY <2>2, <2>3, <2>4, <2>5
<1>5. ASSUME NEW i \in 1..Len(players)
      PROVE  players'[i].score + Pending(players[i])' = players[i].score + Pending(players[i])
  <2>1. players[i].score \in Int
    BY <1>1, SeatsDomain DEF Player
  <2>2. Pending(players[i])' = players'[i].currentBet /\ Pending(players[i]) = 0
    BY <1>2 DEF Pending
  <2>3. QED
    BY <1>4, <2>1, <2>2
<1>6. QED
  BY <1>1, <1>2, <1>4, <1>5, BalanceStays

LEMMA StandBalance ==
  ASSUME MoveInv, TypeInv', Ledger, NEW c \in Clients, Stand(c), pc' = pc
  PROVE  Ledger'
<1>1. ServerTypeOK /\ ServerTypeOK'
  BY DEF MoveInv, TypeInv, TypeOK
<1>2. GameInProgress /\ GameInProgress' /\ Len(players') = Len(players)
  BY StandSeats
<1>3. \A i \in 1..Len(players) : Pending(players[i])' = players'[i].currentBet
                              /\ Pending(players[i]) = players[i].currentBet
  BY <1>2 DEF Pending
<1>4. QED
  BY <1>1, <1>2, <1>3, StandKeepsMoney, BalanceStays

\* A step that leaves scores, bets, wins and losses alone, and the game on or
\* off.
LEMMA OtherBalance ==
  ASSUME MoveInv, TypeInv', Ledger, Len(players') = Len(players),
         GameInProgress' = GameInProgress,
         \A i \in 1..Len(players) : /\ players'[i].score = players[i].score
                                    /\ players'[i].currentBet = players[i].currentBet
                                    /\ players'[i].wins = players[i].wins
                                    /\ players'[i].losses = players[i].losses
  PROVE  Ledger'
<1>1. \A i \in 1..Len(players) : Pending(players[i])' = Pending(players[i])
  BY DEF Pending
<1>2. QED
  BY <1>1, BalanceStays DEF MoveInv, TypeInv, TypeOK

LEMMA ShowdownBalance ==
  ASSUME MoveInv, TypeInv', SeatInv, EveryoneBetsOnce, Ledger, Showdown
  PROVE  Ledger'
<1> DEFINE n == Len(players)
<1>1. /\ ServerTypeOK /\ ServerTypeOK' /\ n \in Nat /\ currentPlayer \in Nat
      /\ DOMAIN players = 1..n
  BY SeatsDomain DEF MoveInv, TypeInv, TypeOK, ServerTypeOK
<1>2. serverPc = "dealer" /\ GameInProgress /\ ~GameInProgress'
  BY DEF Showdown, SeatInv, EndInProgress
<1>3. Len(players') = n /\ \A i \in 1..n : players'[i] = Settled(players[i])
  BY <1>1, ShowdownSeats
<1>4. \A i \in 1..n : players[i].currentBet = betScore
  BY <1>1, <1>2, AllHaveBet
<1>5. ASSUME NEW i \in 1..n
      PROVE  InBalance(players'[i].score, players'[i].wins, players'[i].losses)
  <2> DEFINE s == players[i].score
             w == players[i].wins
             l == players[i].losses
  <2>1. players[i] \in Player
    BY <1>1, SeatsDomain
  <2>2. s \in Int /\ w \in Nat /\ l \in Nat
    BY <2>1 DEF Player
  <2>3. InBalance(s + betScore, w, l)
    <3>1. Pending(players[i]) = betScore
      BY <1>2, <1>4 DEF Pending
    <3>2. SeatBalanced(players[i])
      BY <1>1, LedgerIs
    <3>3. QED
      BY <3>1, <3>2, Zenon DEF SeatBalanced
  <2> DEFINE t == players'[i].score
             v == players'[i].wins
             k == players'[i].losses
  <2>4. \/ v = w + 1 /\ k = l /\ (t = s + betScore * 2 \/ t = s + (betScore * 5) \div 2)
        \/ v = w /\ k = l + 1 /\ t = s
    BY <1>3, <1>4, <2>1, SettledSeat
  <2> HIDE DEF s, w, l, t, v, k
  <2>5. InBalance(t, v, k)
    BY <2>2, <2>3, <2>4, SettledInBalance
  <2>6. QED
    BY <2>5 DEF t, v, k
<1>6. ASSUME NEW i \in 1..n PROVE SeatBalanced(players[i])'
  <2>1. players'[i].score + Pending(players[i])' = players'[i].score
    <3>1. players'[i].score \in Int
      <4>1. players'[i] \in Player
        BY <1>1, <1>3 DEF ServerTypeOK
      <4>2. QED
        BY <4>1 DEF Player
    <3>2. Pending(players[i])' = 0
      BY <1>2 DEF Pending
    <3>3. QED
      BY <3>1, <3>2
  <2>2. QED
    BY <1>5, <2>1, Zenon DEF SeatBalanced
<1>7. (Ledger <=> \A i \in 1..Len(players) : SeatBalanced(players[i]))'
  BY <1>1, LedgerIs, PTL
<1>8. QED
  BY <1>3, <1>6, <1>7

LEMMA NextLedger ==
  ASSUME MoveInv, TypeInv', SeatInv, EveryoneBetsOnce, Ledger, [Next]_vars
  PROVE  Ledger'
<1>1. ServerTypeOK
  BY DEF MoveInv, TypeInv, TypeOK
<1>2. ASSUME UNCHANGED <<players, GameInProgress>> PROVE Ledger'
  BY <1>2, OtherBalance
<1>3. CASE ServerDoEnd
  BY <1>2, <1>3, ShowdownBalance DEF ServerDoEnd, ServerEnds, DealerDraw, IgnoreKey
<1>4. ASSUME NEW c \in Clients, ServerThread(c) PROVE Ledger'
  <2>1. pc' = pc
    BY <1>4 DEF ServerThread, clientVars
  <2>2. CASE CreateNewPlayer(c)
    BY <2>2, JoinBalance
  <2>3. CASE UpdatePlayerName(c)
    BY <1>1, <2>3, UpdatePlayerNameSeats, OtherBalance
  <2>4. CASE Hit(c)
    <3>1. /\ Len(players') = Len(players) /\ GameInProgress' = GameInProgress
          /\ currentPlayer \in Nat /\ currentPlayer < Len(players) /\ Len(players) \in Nat
      BY <1>1, <2>1, <2>4, HitSeats, SeatsDomain DEF SeatInv, ServerTypeOK
    <3>2. PICK k \in 1..Len(players) : k = currentPlayer + 1
      BY <3>1
    <3>3. PICK card \in Ranks :
            players'[k] = [players[k] EXCEPT !.hand = AddCard(players[k].hand, card)]
      BY <2>1, <2>4, <3>2, HitSeats DEF SeatInv
    <3>4. players[k] \in Player
      BY <1>1, SeatsDomain
    <3>5. /\ players'[k].score = players[k].score
          /\ players'[k].currentBet = players[k].currentBet
          /\ players'[k].wins = players[k].wins
          /\ players'[k].losses = players[k].losses
      BY <3>3, <3>4 DEF Player
    <3>6. \A i \in 1..Len(players) : i # k => players'[i] = players[i]
      BY <2>1, <2>4, <3>2, HitSeats DEF SeatInv
    <3>7. QED
      BY <3>1, <3>5, <3>6, OtherBalance
  <2>5. CASE Stand(c)
    BY <2>1, <2>5, StandBalance
  <2>6. CASE PlayerReady(c)
    BY <1>2, <2>6, StartBalance, PlayerReadyWaits
  <2>7. QED
    BY <1>4, <2>2, <2>3, <2>4, <2>5, <2>6 DEF ServerThread, ServerReceives
<1>5. CASE Operator \/ UNCHANGED vars
  BY <1>2, <1>5 DEF Operator, PressEnter, vars, serverVars
<1>6. ASSUME NEW c \in Clients,
             \/ ClientReceives(c) \/ ClientReady(c) \/ UserStarts(c) \/ UserReady(c)
             \/ UserMoves(c) \/ UserRestarts(c) \/ UserDeclines(c) \/ PeerNotices(c)
      PROVE  Ledger'
  BY <1>2, <1>6, Bystander DEF serverVars
<1>7. QED
  BY <1>3, <1>4, <1>5, <1>6 DEF Next

\* However many games are played, and whoever joins in the middle of one, a
\* player's score is what the wins and losses account for: a loss costs the
\* bet once, a win earns it once or, with 21, one and a half times
\* (Player::AddScore in GameLoop and CheckWins).
THEOREM ScoresAccounted == Spec => []Ledger
<1>1. Init => Ledger
  BY DEF Init, ServerInit, Ledger
<1>2. /\ MoveInv /\ MoveInv' /\ SeatInv /\ EveryoneBetsOnce /\ Ledger /\ [Next]_vars
      => Ledger'
  BY NextLedger DEF MoveInv
<1>3. QED
  BY <1>1, <1>2, SeatsAndTurn, BetsOnce, PTL DEF Spec

\* No two seats belong to one client: a connection is announced once in its
\* life and the client has no seat before it, so the search for the address
\* of a sender (findPlayerIdxForIPAddr) finds the only one there is.
THEOREM SeatsDiffer == Spec => []OneSeatEach
<1>1. SeatInv => OneSeatEach
  BY DEF SeatInv
<1>2. QED
  BY <1>1, SeatsAndTurn, PTL

-----------------------------------------------------------------------------
(* A turn, once begun, is held: until the player stands there is a request,*)
(* a prompt or an answer somewhere.                                        *)

LEMMA AtStays ==
  ASSUME NEW S, NEW q \in Seq(S), NEW X, At(q, X) # {}
  PROVE  /\ \A m \in S : At(Append(q, m), X) # {}
         /\ q # << >> /\ Head(q) \notin X => At(Tail(q), X) # {}
<1>1. PICK i \in DOMAIN q : q[i] \in X
  BY DEF At
<1>2. Len(q) \in Nat /\ DOMAIN q = 1..Len(q)
  BY LenProperties
<1>3. ASSUME NEW m \in S PROVE At(Append(q, m), X) # {}
  <2>1. i \in DOMAIN Append(q, m) /\ Append(q, m)[i] = q[i]
    BY <1>2, AppendProperties
  <2>2. QED
    BY <1>1, <2>1 DEF At
<1>4. ASSUME q # << >>, Head(q) \notin X PROVE At(Tail(q), X) # {}
  <2>1. i # 1
    BY <1>1, <1>4
  <2>2. PICK k \in Nat : k = i - 1 /\ k \in 1..(Len(q) - 1) /\ i = k + 1
    BY <1>2, <2>1
  <2>3. k \in DOMAIN Tail(q) /\ Tail(q)[k] = q[i]
    BY <1>4, <2>2, HeadTailProperties
  <2>4. QED
    BY <1>1, <2>3 DEF At
<1>5. QED
  BY <1>3, <1>4

LEMMA AtAppended ==
  ASSUME NEW S, NEW q \in Seq(S), NEW X, NEW m \in S, m \in X
  PROVE  At(Append(q, m), X) # {}
<1>1. /\ Len(q) + 1 \in DOMAIN Append(q, m)
      /\ Append(q, m)[Len(q) + 1] = m
  BY LenProperties, AppendProperties
<1>2. QED
  BY <1>1 DEF At

\* What is on the way of a move stays there until it is taken.
MoveStays(d) ==
  /\ Asks(d) # {} => Asks(d)' # {}
  /\ Answers(d) # {} => Answers(d)' # {}
  /\ pc[d] = "move" => pc'[d] = "move"

LEMMA MoveStaysPending ==
  ASSUME NEW d, MoveStays(d), MovePending(d)
  PROVE  MovePending(d)'
  BY DEF MoveStays, MovePending

LEMMA Undisturbed ==
  ASSUME NEW d, toClient'[d] = toClient[d], toServer'[d] = toServer[d], pc'[d] = pc[d]
  PROVE  MoveStays(d)
  BY DEF MoveStays, Asks, Answers

LEMMA DownStays ==
  ASSUME NetTypeOK, NetTypeOK', NEW d \in Clients,
         \/ toClient'[d] = toClient[d]
         \/ \E m \in DownMessage : toClient'[d] = Append(toClient[d], m)
         \/ /\ toClient[d] # << >> /\ Head(toClient[d]).type # "HIT_STAND"
            /\ toClient'[d] = Tail(toClient[d])
  PROVE  Asks(d) # {} => Asks(d)' # {}
<1>1. /\ toClient[d] \in Seq(DownMessage)
      /\ Asks(d) = At(toClient[d], AskMessage) /\ Asks(d)' = At(toClient'[d], AskMessage)
  BY MovesAt, MovesAtNext DEF NetTypeOK
<1>2. ASSUME toClient[d] # << >>, Head(toClient[d]).type # "HIT_STAND"
      PROVE  Head(toClient[d]) \notin AskMessage
  BY <1>2 DEF AskMessage
<1>3. QED
  BY <1>1, <1>2, AtStays

LEMMA UpStays ==
  ASSUME NetTypeOK, NetTypeOK', NEW d \in Clients,
         \/ toServer'[d] = toServer[d]
         \/ \E m \in UpMessage : toServer'[d] = Append(toServer[d], m)
         \/ /\ toServer[d] # << >> /\ Head(toServer[d]) \notin AnswerMessage
            /\ toServer'[d] = Tail(toServer[d])
  PROVE  Answers(d) # {} => Answers(d)' # {}
<1>1. /\ toServer[d] \in Seq(UpMessage)
      /\ Answers(d) = At(toServer[d], AnswerMessage)
      /\ Answers(d)' = At(toServer'[d], AnswerMessage)
  BY MovesAt, MovesAtNext DEF NetTypeOK
<1>2. QED
  BY <1>1, AtStays

LEMMA OthersUndisturbed ==
  ASSUME MoveInv, TypeInv', NEW c \in Clients,
         \/ ClientReceives(c) \/ ClientReady(c) \/ UserStarts(c) \/ UserReady(c)
         \/ UserMoves(c) \/ UserRestarts(c) \/ UserDeclines(c) \/ PeerNotices(c)
  PROVE  OthersStay(c)
<1>1. CASE HitorStand(c)
  BY <1>1 DEF HitorStand, Take, Taken, Goto, OthersStay, MoveInv, TypeInv, TypeOK,
              NetTypeOK, ClientTypeOK
<1>2. CASE \E key \in UserKeys : TestTest(c, key)
  BY <1>2 DEF TestTest, Goto, OthersStay, MoveInv, TypeInv, TypeOK, NetTypeOK, ClientTypeOK
<1>3. CASE PeerNotices(c)
  BY <1>3 DEF PeerNotices, ConnectionLost, clientVars, OthersStay
<1>4. QED
  BY <1>1, <1>2, <1>3, QuietReceive, QuietUser, QuietVanish, QuietStart
     DEF ClientReceives, ClientReady, UserStarts, UserReady, UserMoves, UserRestarts,
         UserDeclines

\* In this step no user types a key for which TestTest sends nothing.
KeyCounts ==
  \A c \in Clients : \A key \in UserKeys : TestTest(c, key) => key \in {"h", "s"}

\* A client takes nothing of a move but to pass it on, as long as it is there
\* and the user types 'h' or 's' at the prompt.
LEMMA ClientHolds ==
  ASSUME MoveInv, TypeInv', KeyCounts,
         NEW c \in Clients, conn[c] # "off", conn'[c] = "on", MovePending(c),
         \/ ClientReceives(c) \/ ClientReady(c) \/ UserStarts(c) \/ UserReady(c)
         \/ UserMoves(c) \/ UserRestarts(c) \/ UserDeclines(c) \/ PeerNotices(c)
  PROVE  MovePending(c)'
<1> USE DEF MoveInv, TypeInv, TypeOK
<1>1. CASE HitorStand(c)
  <2>1. pc'[c] = "move"
    BY <1>1 DEF HitorStand, Goto, ClientTypeOK
  <2>2. QED
    BY <2>1 DEF MovePending
<1>2. ASSUME NEW key \in UserKeys, TestTest(c, key) PROVE MovePending(c)'
  <2>1. toServer' = [toServer EXCEPT ![c] = toServer[c] \o Answer(key)]
    BY <1>2 DEF TestTest
  <2>2. PICK m \in AnswerMessage : Answer(key) = <<m>>
    BY <1>2 DEF KeyCounts, Answer, AnswerMessage
  <2>3. m \in UpMessage /\ toServer[c] \in Seq(UpMessage)
    BY DEF AnswerMessage, UpMessage, NetTypeOK
  <2>4. toServer[c] \o <<m>> = Append(toServer[c], m)
    BY <2>3
  <2>5. toServer'[c] = Append(toServer[c], m)
    BY <2>1, <2>2, <2>4 DEF NetTypeOK
  <2>6. Answers(c)' # {}
    BY <2>3, <2>5, AtAppended, MovesAtNext
  <2>7. QED
    BY <2>6 DEF MovePending
<1>3. CASE \/ Accepted(c) \/ SetPlayerID(c) \/ PrintCurrentPlayers(c)
           \/ UpdatePlayers(c) \/ RecieveAllCards(c) \/ RecieveString(c)
  <2>1. /\ toClient[c] # << >> /\ Head(toClient[c]).type # "HIT_STAND"
        /\ toClient'[c] = Tail(toClient[c]) /\ pc[c] # "move"
    BY <1>3 DEF Accepted, SetPlayerID, PrintCurrentPlayers, UpdatePlayers, RecieveAllCards,
                RecieveString, Take, Taken, NetTypeOK
  <2>2. toServer' = toServer \/ toServer' = Uploaded(c, "PLAYERNAME")
    BY <1>3 DEF Accepted, SetPlayerID, PrintCurrentPlayers, UpdatePlayers, RecieveAllCards,
                RecieveString
  <2>3. \/ toServer'[c] = toServer[c]
        \/ /\ "PLAYERNAME" \in UpMessage
           /\ toServer'[c] = Append(toServer[c], "PLAYERNAME")
    BY <2>2 DEF Uploaded, UpMessage, NetTypeOK
  <2>4. MoveStays(c)
    BY <2>1, <2>3, DownStays, UpStays DEF MoveStays
  <2>5. QED
    BY <2>4, MoveStaysPending
<1>4. CASE SendReady(c)
  <2>1. /\ toClient'[c] = toClient[c] /\ pc[c] # "move"
        /\ "READY" \in UpMessage /\ toServer'[c] = Append(toServer[c], "READY")
    BY <1>4 DEF SendReady, Uploaded, UpMessage, NetTypeOK
  <2>2. MoveStays(c)
    BY <2>1, DownStays, UpStays DEF MoveStays
  <2>3. QED
    BY <2>2, MoveStaysPending
<1>5. CASE EnterReady(c) \/ AnswerYes(c) \/ AnswerOther(c)
  <2>1. toClient'[c] = toClient[c] /\ toServer'[c] = toServer[c] /\ pc[c] # "move"
    BY <1>5 DEF EnterReady, AnswerYes, AnswerOther, netVars
  <2>2. MoveStays(c)
    BY <2>1, DownStays, UpStays DEF MoveStays
  <2>3. QED
    BY <2>2, MoveStaysPending
<1>6. CASE AnswerNo(c) \/ CloseClient(c)
  BY <1>6 DEF AnswerNo, CloseClient, Vanish, NetTypeOK
<1>7. CASE StartClient(c)
  BY <1>7 DEF StartClient, Connect
<1>8. CASE PeerNotices(c)
  BY <1>8 DEF PeerNotices, ConnectionLost, NetTypeOK
<1>9. QED
  BY <1>1, <1>2, <1>3, <1>4, <1>5, <1>6, <1>7, <1>8
     DEF ClientReceives, ClientReady, UserStarts, UserReady, UserMoves, UserRestarts,
         UserDeclines

\* What the server receives that is no answer, and what it sends, leave a
\* move where it is.
LEMMA ReceiveHolds ==
  ASSUME MoveInv, TypeInv', NEW c \in Clients, NEW m, m \notin AnswerMessage, Receive(c, m),
         pc' = pc, NEW d \in Clients, Asks(d) # {} => Asks(d)' # {}, MovePending(d)
  PROVE  MovePending(d)'
<1> USE DEF MoveInv, TypeInv, TypeOK
<1>1. /\ toServer[c] # << >> /\ Head(toServer[c]) = m
      /\ toServer'[c] = Tail(toServer[c])
      /\ d # c => toServer'[d] = toServer[d]
  BY ReceiveQueue
<1>2. Answers(d) # {} => Answers(d)' # {}
  BY <1>1, UpStays
<1>3. QED
  BY <1>2, MoveStaysPending DEF MoveStays

\* Whoever is asked for a move has one.
LEMMA AskedHolds ==
  ASSUME MoveInv, TypeInv', NEW d \in Clients, conn[d] = "on",
         toClient' = Sent({d}, Plain("HIT_STAND"))
  PROVE  MovePending(d)'
<1> USE DEF MoveInv, TypeInv, TypeOK
<1> DEFINE m == Plain("HIT_STAND")
<1>1. m \in DownMessage /\ m \in AskMessage
  BY MessageTypes DEF AskMessage, Plain
<1>2. toClient'[d] = Append(toClient[d], m) /\ toClient[d] \in Seq(DownMessage)
  BY DEF Sent, NetTypeOK
<1> HIDE DEF m
<1>3. Asks(d)' # {}
  BY <1>1, <1>2, AtAppended, MovesAtNext
<1>4. QED
  BY <1>3 DEF MovePending

LEMMA TurnHeldNext ==
  ASSUME GameInProgress' /\ serverPc' = "loop" =>
           \A e : /\ e = players'[currentPlayer' + 1].client
                  /\ conn'[e] = "on"
                  => MovePending(e)'
  PROVE  TurnHeld'
<1> SUFFICES ASSUME GameInProgress', serverPc' = "loop",
                    conn'[players'[currentPlayer' + 1].client] = "on"
             PROVE  MovePending(players[currentPlayer + 1].client)'
  BY DEF TurnHeld
<1>1. PICK e : e = players'[currentPlayer' + 1].client
  OBVIOUS
<1>2. MovePending(e)'
  BY <1>1
<1>3. QED
  BY <1>1, <1>2 DEF MovePending, Asks, Answers

\* The turn stays with a player who keeps the move, or goes away.
LEMMA TurnStaysHeld ==
  ASSUME MoveInv, TypeInv', EveryoneBetsOnce, TurnHeld, TurnStays,
         \A d \in Seated : conn'[d] = "on" =>
                             conn[d] = "on" /\ (MovePending(d) => MovePending(d)')
  PROVE  TurnHeld'
<1> SUFFICES ASSUME GameInProgress', serverPc' = "loop",
                    NEW e, e = players'[currentPlayer' + 1].client, conn'[e] = "on"
             PROVE  MovePending(e)'
  BY TurnHeldNext
<1>1. GameInProgress /\ serverPc = "loop" /\ currentPlayer' = currentPlayer
  BY DEF TurnStays
<1>2. currentPlayer + 1 \in DOMAIN players
  BY <1>1 DEF EveryoneBetsOnce, MoveInv, TypeInv, TypeOK, ServerTypeOK
<1>3. PICK d \in Seated : d = players[currentPlayer + 1].client
  BY <1>2 DEF Seated
<1>4. e = d
  BY <1>1, <1>2, <1>3 DEF TurnStays
<1>5. conn[d] = "on" => MovePending(d)
  BY <1>1, <1>3 DEF TurnHeld
<1>6. QED
  BY <1>3, <1>4, <1>5

\* Only a client that had not been started comes to be connected.
LEMMA OnlyStartConnects ==
  ASSUME MoveInv, NEW c \in Clients, NEW d \in Clients, conn[d] # "off", conn'[d] = "on",
         \/ ClientReceives(c) \/ ClientReady(c) \/ UserStarts(c) \/ UserReady(c)
         \/ UserMoves(c) \/ UserRestarts(c) \/ UserDeclines(c) \/ PeerNotices(c)
  PROVE  conn[d] = "on"
<1> USE DEF MoveInv, TypeInv, TypeOK, NetTypeOK
<1>1. CASE ClientReceives(c)
  BY <1>1 DEF ClientReceives, Accepted, SetPlayerID, PrintCurrentPlayers, UpdatePlayers,
              HitorStand, RecieveAllCards, RecieveString, Take
<1>2. CASE ClientReady(c) \/ UserReady(c) \/ UserMoves(c) \/ UserRestarts(c)
  BY <1>2 DEF ClientReady, SendReady, UserReady, EnterReady, UserMoves, TestTest,
              UserRestarts, AnswerYes, netVars
<1>3. CASE UserStarts(c)
  BY <1>3 DEF UserStarts, StartClient, Connect
<1>4. CASE UserDeclines(c)
  BY <1>4 DEF UserDeclines, AnswerOther, AnswerNo, CloseClient, Vanish, netVars
<1>5. CASE PeerNotices(c)
  BY <1>5 DEF PeerNotices, ConnectionLost
<1>6. QED
  BY <1>1, <1>2, <1>3, <1>4, <1>5

LEMMA ClientTurnHeld ==
  ASSUME MoveInv, TypeInv', SeatInv, EveryoneBetsOnce, TurnHeld, KeyCounts,
         NEW c \in Clients,
         \/ ClientReceives(c) \/ ClientReady(c) \/ UserStarts(c) \/ UserReady(c)
         \/ UserMoves(c) \/ UserRestarts(c) \/ UserDeclines(c) \/ PeerNotices(c)
  PROVE  TurnHeld'
<1>1. TurnStays
  BY Bystander DEF serverVars, TurnStays, MoveInv, TypeInv, TypeOK, ServerTypeOK
<1>2. ASSUME NEW d \in Seated, conn'[d] = "on"
      PROVE  conn[d] = "on" /\ (MovePending(d) => MovePending(d)')
  <2>1. d \in Clients
    BY SeatsDomain DEF Seated, Player, MoveInv, TypeInv, TypeOK
  <2>2. conn[d] # "off"
    BY <2>1 DEF SeatInv, AnnouncedOnce
  <2>3. conn[d] = "on"
    BY <1>2, <2>1, <2>2, OnlyStartConnects
  <2>4. CASE d = c
    BY <1>2, <2>2, <2>3, <2>4, ClientHolds
  <2>5. CASE d # c
    BY <2>1, <2>3, <2>5, OthersUndisturbed, Undisturbed, MoveStaysPending DEF OthersStay
  <2>6. QED
    BY <2>4, <2>5
<1>3. QED
  BY <1>1, <1>2, TurnStaysHeld

\* A message that is no answer arrives, and the turn stays.
LEMMA OtherTurnHeld ==
  ASSUME MoveInv, TypeInv', EveryoneBetsOnce, TurnHeld, TurnStays, pc' = pc, conn' = conn,
         NEW c \in Clients, NEW m, m \notin AnswerMessage, Receive(c, m),
         \A d \in Seated : Asks(d)' = Asks(d)
  PROVE  TurnHeld'
<1>1. Seated \subseteq Clients
  BY SeatsDomain DEF Seated, Player, MoveInv, TypeInv, TypeOK
<1>2. \A d \in Seated : MovePending(d) => MovePending(d)'
  BY <1>1, ReceiveHolds
<1>3. QED
  BY <1>2, TurnStaysHeld

LEMMA JoinTurnHeld ==
  ASSUME MoveInv, TypeInv', SeatInv, EveryoneBetsOnce, TurnHeld, pc' = pc,
         NEW c \in Clients, CreateNewPlayer(c)
  PROVE  TurnHeld'
<1>1. TurnStays
  <2>1. DOMAIN players = 1..Len(players) /\ Len(players) \in Nat
    BY SeatsDomain DEF MoveInv, TypeInv, TypeOK
  <2>2. QED
    BY <2>1, CreateNewPlayerSeats DEF TurnStays
<1>2. Receive(c, "NEW_CONNECTION") /\ conn' = conn
  BY DEF CreateNewPlayer
<1>3. c \notin Seated
  BY <1>2, ReceiveAnnounces DEF SeatInv, AnnouncedOnce
<1>4. ASSUME NEW d \in Seated PROVE Asks(d)' = Asks(d)
  <2>1. d # c /\ d \in Clients
    BY <1>3, SeatsDomain DEF Seated, Player, MoveInv, TypeInv, TypeOK
  <2>2. toClient'[d] = toClient[d]
    BY <2>1 DEF CreateNewPlayer, MoveInv, TypeInv, TypeOK, NetTypeOK
  <2>3. QED
    BY <2>2, DownSame
<1>5. QED
  BY <1>1, <1>2, <1>4, OtherTurnHeld DEF AnswerMessage

LEMMA NameTurnHeld ==
  ASSUME MoveInv, TypeInv', EveryoneBetsOnce, TurnHeld, pc' = pc,
         NEW c \in Clients, UpdatePlayerName(c)
  PROVE  TurnHeld'
<1>1. TurnStays
  <2>1. ServerTypeOK /\ DOMAIN players = 1..Len(players) /\ Len(players) \in Nat
    BY SeatsDomain DEF MoveInv, TypeInv, TypeOK
  <2>2. QED
    BY <2>1, UpdatePlayerNameSeats DEF TurnStays
<1>2. Receive(c, "PLAYERNAME") /\ conn' = conn
  BY DEF UpdatePlayerName
<1>3. \A d \in Seated : Asks(d)' = Asks(d)
  BY NamesAskNobody, SeatsDomain DEF Seated, Player, MoveInv, TypeInv, TypeOK
<1>4. QED
  BY <1>1, <1>2, <1>3, OtherTurnHeld DEF AnswerMessage

\* The player whose turn it has become is asked for a move.
LEMMA AskedTurnHeld ==
  ASSUME MoveInv, TypeInv', conn' = conn, NEW d \in Clients,
         d = players'[currentPlayer' + 1].client, toClient' = Sent({d}, Plain("HIT_STAND"))
  PROVE  TurnHeld'
<1>1. ASSUME NEW e, e = players'[currentPlayer' + 1].client, conn'[e] = "on"
      PROVE  MovePending(e)'
  BY <1>1, AskedHolds
<1>2. QED
  BY <1>1, TurnHeldNext

LEMMA HitTurnHeld ==
  ASSUME MoveInv, TypeInv', SeatInv, pc' = pc, NEW c \in Clients, Hit(c)
  PROVE  TurnHeld'
<1>1. /\ currentPlayer' = currentPlayer /\ conn' = conn /\ Len(players') = Len(players)
      /\ currentPlayer < Len(players) /\ players[currentPlayer + 1].client = c
  BY HitSeats DEF SeatInv
<1>2. ServerTypeOK /\ currentPlayer \in Nat /\ Len(players) \in Nat
  BY SeatsDomain DEF MoveInv, TypeInv, TypeOK, ServerTypeOK
<1>3. PICK k \in 1..Len(players) : k = currentPlayer + 1
  BY <1>1, <1>2
<1>4. players'[k].client = c
  BY <1>1, <1>2, <1>3, NameOrHandSeats DEF SeatsStay
<1>5. toClient' = Sent({c}, Plain("HIT_STAND"))
  BY DEF Hit, AsksAgain
<1>6. QED
  BY <1>1, <1>3, <1>4, <1>5, AskedTurnHeld

\* The hand of the next player is not bust: GameLoop asks.
LEMMA StandTurnHeld ==
  ASSUME MoveInv, TypeInv', SeatInv, pc' = pc, NEW c \in Clients, Stand(c)
  PROVE  TurnHeld'
<1>1. CASE LastTurn
  BY <1>1, StandSeats DEF TurnHeld
<1>2. CASE ~LastTurn
  <2>1. ServerTypeOK /\ currentPlayer \in Nat /\ Len(players) \in Nat
        /\ DOMAIN players = 1..Len(players)
    BY SeatsDomain DEF MoveInv, TypeInv, TypeOK, ServerTypeOK
  <2>2. /\ GameInProgress /\ currentPlayer + 1 < Len(players)
        /\ currentPlayer' = currentPlayer + 1 /\ conn' = conn
        /\ players'[currentPlayer + 2] = AddScore(players[currentPlayer + 2], -betScore)
    BY <1>2, StandSeats
  <2>3. PICK k \in 1..Len(players) : k = currentPlayer + 2
    BY <2>1, <2>2
  <2>4. k = currentPlayer' + 1 /\ k = currentPlayer + 1 + 1 /\ k - 1 > currentPlayer
    BY <2>1, <2>2, <2>3
  <2>5. ~CheckBust(players[k].hand)
    BY <2>1, <2>2, <2>4 DEF SeatInv, WaitingHands
  <2>6. players[k] \in Player
    BY <2>1, SeatsDomain
  <2>7. players'[k].client = players[k].client /\ players[k].client \in Clients
    BY <2>2, <2>3, <2>6, BetTaken DEF Player
  <2>8. GameLoop(players, currentPlayer + 1)
    BY <1>2 DEF Stand
  <2>9. toClient' = Sent({players[k].client}, Plain("HIT_STAND"))
    BY <2>4, <2>5, <2>8 DEF GameLoop, AskedIs
  <2>10. QED
    BY <2>2, <2>4, <2>7, <2>9, AskedTurnHeld
<1>3. QED
  BY <1>1, <1>2

\* Two cards are never bust: the first player is asked.
LEMMA FirstAsked ==
  ASSUME MoveInv, NEW c \in Clients, PlayerReady(c), readyToStart' /\ NoGame
  PROVE  /\ conn' = conn /\ currentPlayer' = 0
         /\ \E e \in Clients : /\ players'[1].client = e
                               /\ toClient' = Sent({e}, Plain("HIT_STAND"))
<1>1. ServerTypeOK /\ Len(players) \in Nat
  BY SeatsDomain DEF MoveInv, TypeInv, TypeOK
<1>2. Len(players) >= 2 /\ conn' = conn
  BY StartGameSeats
<1>3. players[1].playerID = 0
  BY <1>1, <1>2, FirstID, SeatsDomain DEF MoveInv
<1>4. PICK cards \in [1..Len(players) -> Ranks \X Ranks] : GameLoop(Dealt(cards), 0)
  BY <1>3 DEF PlayerReady, StartGame
<1> DEFINE d == Dealt(cards)[1].client
<1>5. 1 \in 1..Len(players) /\ currentPlayer' = 0
  BY <1>1, <1>2, <1>4 DEF GameLoop
<1>6. Dealt(cards) \in Seq(Player) /\ Len(Dealt(cards)) = Len(players)
      /\ Dealt(cards)[1] \in Player
  BY <1>1, <1>5, DealtTypes
<1>7. d \in Clients
  BY <1>6 DEF Player
<1>8. ~CheckBust(Dealt(cards)[1].hand)
  <2>1. Dealt(cards)[1].hand = AddCard(AddCard(Cleared, cards[1][1]), cards[1][2])
    BY <1>1, <1>5, DealtPlayers
  <2>2. cards[1][1] \in CardValues /\ cards[1][2] \in CardValues
    BY <1>5, ServerAssumption
  <2>3. QED
    BY <2>1, <2>2, DealtHandsStand
<1>9. toClient' = Sent({d}, Plain("HIT_STAND"))
  <2>1. 0 + 1 = 1
    OBVIOUS
  <2>2. QED
    BY <1>4, <1>8, <2>1 DEF GameLoop, AskedIs
<1>10. players'[1].client = d
  <2>1. players'[1] = AddScore(Dealt(cards)[1], -betScore)
    BY <1>1, <1>2, <1>4, <1>6, GameLoopPlayers
  <2>2. QED
    BY <1>6, <2>1, BetTaken
<1>11. QED
  BY <1>2, <1>5, <1>7, <1>9, <1>10

LEMMA StartTurnHeld ==
  ASSUME MoveInv, TypeInv', NEW c \in Clients, PlayerReady(c), readyToStart' /\ NoGame
  PROVE  TurnHeld'
<1>1. PICK d \in Clients : /\ players'[1].client = d /\ currentPlayer' = 0
                           /\ conn' = conn /\ toClient' = Sent({d}, Plain("HIT_STAND"))
  BY FirstAsked
<1>2. d = players'[currentPlayer' + 1].client
  BY <1>1
<1>3. QED
  BY <1>1, <1>2, AskedTurnHeld

LEMMA ReadyTurnHeld ==
  ASSUME MoveInv, TypeInv', EveryoneBetsOnce, TurnHeld, pc' = pc,
         NEW c \in Clients, PlayerReady(c)
  PROVE  TurnHeld'
<1>1. CASE readyToStart' /\ NoGame
  BY <1>1, StartTurnHeld
<1>2. CASE ~(readyToStart' /\ NoGame)
  <2>1. UNCHANGED <<conn, players, GameInProgress, currentPlayer, serverPc>>
    BY <1>2, PlayerReadyWaits
  <2>2. TurnStays
    BY <2>1 DEF TurnStays, MoveInv, TypeInv, TypeOK, ServerTypeOK
  <2>3. \A d \in Seated : Asks(d)' = Asks(d)
    BY <1>2, DownSame DEF PlayerReady
  <2>4. QED
    BY <2>1, <2>2, <2>3, OtherTurnHeld DEF PlayerReady, AnswerMessage
<1>3. QED
  BY <1>1, <1>2

LEMMA NextTurnHeld ==
  ASSUME MoveInv, TypeInv', SeatInv, EveryoneBetsOnce, TurnHeld, KeyCounts,
         [Next]_vars
  PROVE  TurnHeld'
<1>1. CASE ServerDoEnd
  BY <1>1 DEF ServerDoEnd, ServerEnds, DealerDraw, Showdown, IgnoreKey, SeatInv,
              EndInProgress, TurnHeld
<1>2. ASSUME NEW c \in Clients, ServerThread(c) PROVE TurnHeld'
  <2>1. pc' = pc
    BY <1>2 DEF ServerThread, clientVars
  <2>2. QED
    BY <1>2, <2>1, JoinTurnHeld, NameTurnHeld, HitTurnHeld, StandTurnHeld, ReadyTurnHeld
       DEF ServerThread, ServerReceives
<1>3. CASE Operator \/ UNCHANGED vars
  <2>1. /\ UNCHANGED <<players, GameInProgress, currentPlayer, serverPc>>
        /\ UNCHANGED <<conn, toClient, toServer, pc>>
    BY <1>3 DEF Operator, PressEnter, vars, serverVars, netVars, clientVars
  <2>2. TurnStays
    BY <2>1 DEF TurnStays, MoveInv, TypeInv, TypeOK, ServerTypeOK
  <2>3. \A d \in Seated : MovePending(d) => MovePending(d)'
    BY <2>1, Undisturbed, MoveStaysPending
  <2>4. QED
    BY <2>1, <2>2, <2>3, TurnStaysHeld
<1>4. ASSUME NEW c \in Clients,
             \/ ClientReceives(c) \/ ClientReady(c) \/ UserStarts(c) \/ UserReady(c)
             \/ UserMoves(c) \/ UserRestarts(c) \/ UserDeclines(c) \/ PeerNotices(c)
      PROVE  TurnHeld'
  BY <1>4, ClientTurnHeld
<1>5. QED
  BY <1>1, <1>2, <1>3, <1>4 DEF Next

\* A game can always go on: while it does, the player whose turn it is has a
\* request, a prompt or an answer on the way, as long as that player is there.
\* No request is lost on a bust hand, with a late joiner or behind another
\* message (GameLoop, SetHitStandRecieved; HitorStand and TestTest of the
\* client).  The users answer 'h' or 's': TestTest sends nothing for the other
\* keys ValidInput_char lets through, and the game then stops.
THEOREM TurnIsHeld ==
  ASSUME UserKeys \subseteq {"h", "s"}
  PROVE  Spec => []TurnHeld
<1>1. Init => TurnHeld
  BY DEF Init, ServerInit, TurnHeld
<1>2. /\ MoveInv /\ MoveInv' /\ SeatInv /\ EveryoneBetsOnce /\ TurnHeld /\ [Next]_vars
      => TurnHeld'
  BY NextTurnHeld DEF MoveInv, KeyCounts
<1>3. QED
  BY <1>1, <1>2, SeatsAndTurn, BetsOnce, PTL DEF Spec

\* Whatever the users type, nothing else lets go of a turn: the one step that
\* leaves a player who is there without request, prompt and answer is TestTest
\* called with a key it does not know, which ValidInput_char should not have
\* returned.
THEOREM OnlyKeysDropTurns ==
  Spec => [][TurnHeld /\ ~TurnHeld' => \E c \in Clients : TestTest(c, "other")]_vars
<1>1. /\ MoveInv /\ MoveInv' /\ SeatInv /\ EveryoneBetsOnce /\ [Next]_vars
      => [TurnHeld /\ ~TurnHeld' => \E c \in Clients : TestTest(c, "other")]_vars
  <2> SUFFICES ASSUME MoveInv, MoveInv', SeatInv, EveryoneBetsOnce, [Next]_vars,
                      TurnHeld, ~TurnHeld', \A c \in Clients : ~TestTest(c, "other")
               PROVE  FALSE
    OBVIOUS
  <2>1. KeyCounts
    BY ClientAssumption DEF KeyCounts
  <2>2. QED
    BY <2>1, NextTurnHeld DEF MoveInv
<1>2. QED
  BY <1>1, SeatsAndTurn, BetsOnce, PTL DEF Spec
-----------------------------------------------------------------------------
(* The turns that are over, by the record of them in TurnOrder.            *)

\* How many have stood: all before the turn, and everybody once the dealer draws.
TurnsOver == IF ~GameInProgress THEN 0
             ELSE IF serverPc = "dealer" THEN Len(players) ELSE currentPlayer

\* They are the first of the table.
StoodInv ==
  /\ stood \in Seq(Clients)
  /\ Len(stood) = TurnsOver
  /\ \A i \in 1..Len(stood) : stood[i] = players[i].client

\* Behind the turn or not, seats keep their clients: a step that ends no turn.
TurnsAsTheyWere ==
  /\ GameInProgress' = GameInProgress /\ currentPlayer' = currentPlayer
  /\ serverPc' = "dealer" <=> serverPc = "dealer"
  /\ Len(players') >= Len(players)
  /\ serverPc = "dealer" => Len(players') = Len(players)
  /\ \A i \in 1..Len(players) : players'[i].client = players[i].client

LEMMA OverWithinTable ==
  ASSUME MoveInv, EveryoneBetsOnce
  PROVE  TurnsOver \in Nat /\ TurnsOver <= Len(players) /\ Len(players) \in Nat
<1>1. currentPlayer \in Nat /\ Len(players) \in Nat
  BY SeatsDomain DEF MoveInv, TypeInv, TypeOK, ServerTypeOK
<1>2. GameInProgress => currentPlayer < Len(players)
  BY DEF EveryoneBetsOnce
<1>3. QED
  BY <1>1, <1>2 DEF TurnsOver

LEMMA SameTurnsOver ==
  ASSUME MoveInv, EveryoneBetsOnce, StoodInv, TurnsAsTheyWere, stood' = stood
  PROVE  StoodInv'
<1>1. TurnsOver' = TurnsOver
  BY DEF TurnsOver, TurnsAsTheyWere
<1>2. \A i \in 1..Len(stood) : i \in 1..Len(players)
  BY OverWithinTable DEF StoodInv
<1>3. QED
  BY <1>1, <1>2 DEF StoodInv, TurnsAsTheyWere

\* The one whose answer it is stands, and is the next of the table.
LEMMA StandIsRecorded ==
  ASSUME MoveInv, TypeInv', EveryoneBetsOnce, StoodInv, NEW c \in Clients,
         ActsOnStand(c), stood' = Append(stood, c)
  PROVE  StoodInv'
<1> DEFINE n == Len(players)
<1>1. ServerTypeOK /\ n \in Nat /\ currentPlayer \in Nat
  BY SeatsDomain DEF MoveInv, TypeInv, TypeOK, ServerTypeOK
<1>2. Stand(c) /\ pc' = pc
  BY DEF ActsOnStand, clientVars
<1>3. /\ GameInProgress /\ serverPc = "loop"
      /\ currentPlayer < n /\ players[currentPlayer + 1].client = c
  BY <1>2, AnswerTaken DEF Stand, AnswerMessage
<1>4. Len(stood) = currentPlayer /\ stood \in Seq(Clients)
  BY <1>3 DEF StoodInv, TurnsOver
<1>5. /\ stood' \in Seq(Clients) /\ Len(stood') = currentPlayer + 1
      /\ \A i \in 1..currentPlayer : stood'[i] = stood[i]
      /\ stood'[currentPlayer + 1] = c
  BY <1>4, AppendProperties
<1>6. Len(players') = n /\ \A i \in 1..n : players'[i].client = players[i].client
  <2>1. CASE LastTurn
    BY <1>2, <2>1, StandSeats
  <2>2. CASE ~LastTurn
    <3> DEFINE k == currentPlayer + 2
    <3>1. /\ Len(players') = n /\ k \in 1..n
          /\ players'[k] = AddScore(players[k], -betScore)
          /\ \A i \in 1..n : i # k => players'[i] = players[i]
      <4>1. /\ currentPlayer + 1 < n /\ Len(players') = n
            /\ players'[k] = AddScore(players[k], -betScore)
            /\ \A i \in 1..n : i # k => players'[i] = players[i]
        BY <1>2, <2>2, StandSeats
      <4> HIDE DEF n
      <4>2. k \in 1..n
        BY <1>1, <4>1
      <4>3. QED
        BY <4>1, <4>2
    <3> HIDE DEF k, n
    <3>2. players[k] \in Player
      BY <1>1, <3>1, SeatsDomain DEF n
    <3>3. AddScore(players[k], -betScore).client = players[k].client
      BY <3>2 DEF AddScore, Player
    <3>4. QED
      BY <3>1, <3>3
  <2>3. QED
    BY <2>1, <2>2
<1>7. Len(stood') = TurnsOver'
  <2>1. CASE LastTurn
    <3>1. /\ serverPc' = "dealer" /\ GameInProgress' /\ Len(players') = n
          /\ currentPlayer = n - 1
      BY <1>2, <1>3, <1>6, <2>1, StandSeats DEF LastTurn
    <3>2. TurnsOver' = n
      BY <3>1 DEF TurnsOver
    <3> HIDE DEF n
    <3>3. QED
      BY <1>1, <1>5, <3>1, <3>2
  <2>2. CASE ~LastTurn
    <3>1. serverPc' = "loop" /\ GameInProgress' /\ currentPlayer' = currentPlayer + 1
      BY <1>2, <1>3, <2>2, StandSeats
    <3>2. TurnsOver' = currentPlayer + 1
      BY <3>1 DEF TurnsOver
    <3>3. QED
      BY <1>5, <3>2
  <2>3. QED
    BY <2>1, <2>2
<1>8. ASSUME NEW i \in 1..(currentPlayer + 1) PROVE stood'[i] = players'[i].client
  <2> HIDE DEF n
  <2>1. i \in 1..n
    BY <1>1, <1>3
  <2>2. CASE i = currentPlayer + 1
    BY <1>3, <1>5, <1>6, <2>1, <2>2
  <2>3. CASE i # currentPlayer + 1
    <3>1. i \in 1..currentPlayer
      BY <1>1, <2>3
    <3>2. QED
      BY <1>4, <1>5, <1>6, <2>1, <3>1 DEF StoodInv
  <2>4. QED
    BY <2>2, <2>3
<1>9. QED
  BY <1>5, <1>7, <1>8 DEF StoodInv

LEMMA ReadyEndsNoTurn ==
  ASSUME MoveInv, NEW c \in Clients, PlayerReady(c), EveryoneBetsOnce, StoodInv,
         stood' = stood
  PROVE  StoodInv'
<1>1. CASE readyToStart' /\ NoGame
  <2>1. ~GameInProgress /\ GameInProgress' /\ serverPc' = "loop" /\ currentPlayer' = 0
    BY <1>1, StartGameSeats
  <2>2. TurnsOver = 0 /\ TurnsOver' = 0
    BY <2>1 DEF TurnsOver
  <2>3. QED
    BY <2>2 DEF StoodInv
<1>2. CASE ~(readyToStart' /\ NoGame)
  <2>1. Len(players) \in Nat
    BY SeatsDomain DEF MoveInv, TypeInv, TypeOK
  <2>2. UNCHANGED <<players, GameInProgress, currentPlayer, serverPc>>
    BY <1>2, PlayerReadyWaits
  <2>3. QED
    BY <2>1, <2>2, SameTurnsOver DEF TurnsAsTheyWere
<1>3. QED
  BY <1>1, <1>2

\* What is neither a 'stand' nor the showdown ends no turn.
LEMMA OthersEndNoTurn ==
  ASSUME MoveInv, TypeInv', SeatInv, EveryoneBetsOnce, StoodInv, [Next]_vars,
         stood' = stood, ~Settles, \A c \in Clients : ~ActsOnStand(c)
  PROVE  StoodInv'
<1>1. ServerTypeOK /\ Len(players) \in Nat /\ DOMAIN players = 1..Len(players)
      /\ \A i \in 1..Len(players) : players[i] \in Player
  BY SeatsDomain DEF MoveInv, TypeInv, TypeOK
<1>2. CASE ServerDoEnd
  <2>1. CASE DealerDraw
    BY <1>1, <2>1, SameTurnsOver DEF DealerDraw, TurnsAsTheyWere
  <2>2. CASE IgnoreKey
    BY <1>1, <2>2, SameTurnsOver DEF IgnoreKey, TurnsAsTheyWere
  <2>3. QED
    BY <1>2, <2>1, <2>2 DEF ServerDoEnd, ServerEnds, Settles
<1>3. ASSUME NEW c \in Clients, ServerThread(c) PROVE StoodInv'
  <2>1. pc' = pc /\ UNCHANGED <<clientVars, restarts>>
    BY <1>3 DEF ServerThread, clientVars
  <2>2. CASE CreateNewPlayer(c)
    <3>1. /\ serverPc = "loop" /\ Len(players') = Len(players) + 1
          /\ \A i \in 1..Len(players) : players'[i] = players[i]
          /\ UNCHANGED <<GameInProgress, currentPlayer, serverPc>>
      BY <2>2, CreateNewPlayerSeats
    <3>2. QED
      BY <1>1, <3>1, SameTurnsOver DEF TurnsAsTheyWere
  <2>3. CASE UpdatePlayerName(c)
    BY <1>1, <2>3, UpdatePlayerNameSeats, SameTurnsOver DEF TurnsAsTheyWere
  <2>4. CASE Hit(c)
    <3> DEFINE k == currentPlayer + 1
    <3>1. /\ currentPlayer < Len(players) /\ Len(players') = Len(players)
          /\ UNCHANGED <<GameInProgress, currentPlayer, serverPc>>
          /\ \A i \in 1..Len(players) : i # k => players'[i] = players[i]
      BY <2>1, <2>4, HitSeats DEF SeatInv
    <3>2. PICK card \in Ranks :
            players'[k] = [players[k] EXCEPT !.hand = AddCard(players[k].hand, card)]
      BY <2>1, <2>4, HitSeats DEF SeatInv
    <3>3. k \in 1..Len(players)
      BY <1>1, <3>1 DEF ServerTypeOK
    <3> HIDE DEF k
    <3>4. players'[k].client = players[k].client
      BY <1>1, <3>2, <3>3 DEF Player
    <3>5. QED
      BY <1>1, <3>1, <3>4, SameTurnsOver DEF TurnsAsTheyWere
  <2>5. CASE Stand(c) /\ UNCHANGED consent
    BY <2>1, <2>5 DEF ActsOnStand
  <2>6. CASE PlayerReady(c)
    BY <2>6, ReadyEndsNoTurn
  <2>7. QED
    BY <1>3, <2>2, <2>3, <2>4, <2>5, <2>6 DEF ServerThread, ServerReceives
<1>4. CASE Operator \/ UNCHANGED vars
  <2>1. UNCHANGED <<players, GameInProgress, currentPlayer, serverPc>>
    BY <1>4 DEF Operator, PressEnter, vars, serverVars
  <2>2. QED
    BY <1>1, <2>1, SameTurnsOver DEF TurnsAsTheyWere
<1>5. ASSUME NEW c \in Clients,
             \/ ClientReceives(c) \/ ClientReady(c) \/ UserStarts(c) \/ UserReady(c)
             \/ UserMoves(c) \/ UserRestarts(c) \/ UserDeclines(c) \/ PeerNotices(c)
      PROVE  StoodInv'
  <2>1. UNCHANGED <<players, GameInProgress, currentPlayer, serverPc>>
    BY <1>5, Bystander DEF serverVars
  <2>2. QED
    BY <1>1, <2>1, SameTurnsOver DEF TurnsAsTheyWere
<1>6. QED
  BY <1>2, <1>3, <1>4, <1>5 DEF Next

LEMMA TurnNextRecords ==
  ASSUME MoveInv, TypeInv', SeatInv, EveryoneBetsOnce, StoodInv, [TurnNext]_turnVars
  PROVE  StoodInv'
<1>1. ASSUME NEW c \in Clients, ActsOnStand(c), stood' = Append(stood, c)
      PROVE  StoodInv'
  BY <1>1, StandIsRecorded
<1>2. CASE Settles /\ stood' = << >>
  <2>1. ~GameInProgress'
    BY <1>2 DEF Settles, Showdown
  <2>2. TurnsOver' = 0 /\ stood' \in Seq(Clients) /\ Len(stood') = 0
    BY <1>2, <2>1, EmptySeq DEF TurnsOver
  <2>3. QED
    BY <2>2 DEF StoodInv
<1>3. CASE [Next]_vars /\ stood' = stood /\ ~Settles /\ \A c \in Clients : ~ActsOnStand(c)
  BY <1>3, OthersEndNoTurn
<1>4. CASE UNCHANGED turnVars
  <2>1. UNCHANGED <<players, GameInProgress, currentPlayer, serverPc>> /\ stood' = stood
    BY <1>4 DEF turnVars, vars, serverVars
  <2>2. TurnsAsTheyWere
    BY <2>1, SeatsDomain DEF TurnsAsTheyWere, MoveInv, TypeInv, TypeOK
  <2>3. QED
    BY <2>1, <2>2, SameTurnsOver
<1>5. QED
  BY <1>1, <1>2, <1>3, <1>4 DEF TurnNext

\* The record does not disturb the game.
LEMMA TurnsAreBlackjack == TurnSpec => Spec
<1>1. [TurnNext]_turnVars => [Next]_vars
  <2>1. ASSUME NEW c \in Clients, ActsOnStand(c) PROVE Next
    BY <2>1 DEF ActsOnStand, Next, ServerThread, ServerReceives
  <2>2. Settles => Next
    BY DEF Settles, Next, ServerDoEnd, ServerEnds
  <2>3. QED
    BY <2>1, <2>2 DEF TurnNext, turnVars
<1>2. QED
  BY <1>1, PTL DEF TurnSpec, TurnInit, Spec

\* In every game everybody stands once, newcomers included, in the order of the
\* seats; the next of them is the only one that is asked or answers; the dealer
\* draws when all have stood.  (SetHitStandRecieved trusts the senders of the
\* answers and moves an index; that the index says who has played is the point.)
THEOREM EveryoneStandsInTurn == TurnSpec => []TurnsGoRound
<1>1. TurnInit => StoodInv
  <2>1. TurnInit => stood = << >> /\ ~GameInProgress
    BY DEF TurnInit, Init, ServerInit
  <2>2. QED
    BY <2>1, EmptySeq DEF StoodInv, TurnsOver
<1>2. /\ MoveInv /\ MoveInv' /\ SeatInv /\ EveryoneBetsOnce /\ StoodInv
      /\ [TurnNext]_turnVars
      => StoodInv'
  BY TurnNextRecords DEF MoveInv
<1>3. MoveInv /\ SeatInv /\ EveryoneBetsOnce /\ StoodInv => TurnsGoRound
  <2> SUFFICES ASSUME MoveInv, SeatInv, EveryoneBetsOnce, StoodInv PROVE TurnsGoRound
    OBVIOUS
  <2>1. TurnsOver <= Len(players) /\ DOMAIN stood = 1..Len(stood)
    BY OverWithinTable DEF StoodInv
  <2>2. ASSUME NEW c \in Clients, MovePending(c)
        PROVE  Len(stood) < Len(players) /\ players[Len(stood) + 1].client = c
    <3>1. /\ GameInProgress /\ serverPc = "loop" /\ currentPlayer < Len(players)
          /\ players[currentPlayer + 1].client = c
      BY <2>2 DEF MoveInv, OnlyCurrentMoves
    <3>2. Len(stood) = currentPlayer
      BY <3>1 DEF StoodInv, TurnsOver
    <3>3. QED
      BY <3>1, <3>2
  <2>3. serverPc = "dealer" => Len(stood) = Len(players)
    BY DEF StoodInv, TurnsOver, SeatInv, EndInProgress
  <2>4. QED
    BY <2>1, <2>2, <2>3 DEF TurnsGoRound, StoodInv
<1>4. QED
  BY <1>1, <1>2, <1>3, TurnsAreBlackjack, SeatsAndTurn, BetsOnce, PTL DEF TurnSpec
=============================================================================
