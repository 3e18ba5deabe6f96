----------------------------- MODULE GameServer -----------------------------
(***************************************************************************)
(* The server process, Blackjack_RakNet/main.cpp: one thread that receives *)
(* a packet, runs its handler to the end and receives the next.  A handler *)
(* is one action, except DoEnd: its dealer loop is one action per card and *)
(* its last statement, cin.ignore(), blocks the thread until the console   *)
(* has a character, so serverPc says where in DoEnd the thread is.         *)
(*                                                                         *)
(* A card is drawn from Ranks at will: module Deck says which sequences of *)
(* cards the deck can really produce.  turnCount, insurance, turn, DoneEnd *)
(* and hitStandRecieved are written and only printed, or never read, and   *)
(* are left out; draws is never changed.                                   *)
(***************************************************************************)
EXTENDS Net, HandTotals

CONSTANTS
  Ranks,         \* the card values the deck deals
  startingScore, \* Player.cpp: 200
  betScore       \* main.cpp: 10

ASSUME ServerAssumption ==
  /\ Ranks \subseteq CardValues
  /\ startingScore \in Int
  /\ betScore \in Nat \ {0}

VARIABLES
  players,               \* vector<Player>: nobody is ever removed from it
  dealer,                \* the dealer's hand
  lastPlayerID,
  numPlayersReadyToStart,
  readyToStart,
  GameInProgress,
  currentPlayer,         \* an index of the vector: 0 is players[1] here
  serverPc,              \* where the server's thread is
  console                \* characters waiting on the server's console

serverVars == <<players, dealer, lastPlayerID, numPlayersReadyToStart,
                readyToStart, GameInProgress, currentPlayer, serverPc,
                console>>

Player == [client: Clients, name: Names, playerID: Nat, score: Int,
           currentBet: Nat, wins: Nat, losses: Nat, hand: HandType]

ServerTypeOK ==
  /\ players \in Seq(Player)
  /\ dealer \in HandType
  /\ lastPlayerID \in Nat
  /\ numPlayersReadyToStart \in Nat
  /\ readyToStart \in BOOLEAN
  /\ GameInProgress \in BOOLEAN
  /\ currentPlayer \in Nat
  /\ serverPc \in {"loop",    \* RunGame: waiting for a packet
                   "dealer",  \* DoEnd: the dealer draws
                   "ignore"}  \* DoEnd: in cin.ignore()
  /\ console \in Nat

\* The globals before main runs, and the newline that "cin >> PortNum" left
\* on the console.
ServerInit ==
  /\ players = << >>
  /\ dealer = Cleared
  /\ lastPlayerID = 0
  /\ numPlayersReadyToStart = 0
  /\ readyToStart = FALSE
  /\ GameInProgress = FALSE
  /\ currentPlayer = 0
  /\ serverPc = "loop"
  /\ console = 1

Seated == {players[i].client : i \in DOMAIN players}

\* findPlayerIdxForIPAddr, counted from 1: the first player with the
\* address, Len(players) + 1 if there is none.
PlayerIdx(c) ==
  IF c \in Seated
  THEN CHOOSE i \in DOMAIN players : /\ players[i].client = c
                                     /\ \A j \in 1..(i - 1) : players[j].client # c
  ELSE Len(players) + 1

\* mutant: the sign of the bet is lost
AddScoreSign(p, adding) ==
  [p EXCEPT !.score = @ + adding,
            !.currentBet = IF adding < 0 THEN @ + adding ELSE @]

AddScore(p, adding) ==
  [p EXCEPT !.score = @ + adding,
            !.currentBet = IF adding < 0 THEN @ - adding ELSE @]

-----------------------------------------------------------------------------
(* Joining                                                                 *)

\* mutant: the ID is taken after lastPlayerID++
NewPlayerFrom1(c) ==
  [client |-> c, name |-> NoName, playerID |-> lastPlayerID + 1,
   score |-> startingScore, currentBet |-> 0,
   wins |-> 0, losses |-> 0, hand |-> Cleared]

NewPlayer(c) == [client |-> c, name |-> NoName, playerID |-> lastPlayerID,
                 score |-> startingScore, currentBet |-> 0,
                 wins |-> 0, losses |-> 0, hand |-> Cleared]

Receive(c, m) ==
  /\ serverPc = "loop"
  /\ toServer[c] # << >>
  /\ Head(toServer[c]) = m
  /\ toServer' = Received(c)

\* ID_NEW_INCOMING_CONNECTION: CreateNewPlayer, then SendCurrentPlayers,
\* both to the new client alone.
CreateNewPlayer(c) ==
  /\ Receive(c, "NEW_CONNECTION")
  /\ players' = Append(players, NewPlayer(c))
  /\ lastPlayerID' = lastPlayerID + 1
  /\ toClient' = IF conn[c] = "on"
                 THEN [toClient EXCEPT ![c] =
                        @ \o <<PlayerId(lastPlayerID), Current(Len(players'))>>]
                 ELSE toClient
  /\ UNCHANGED <<conn, dealer, numPlayersReadyToStart, readyToStart,
                 GameInProgress, currentPlayer, serverPc, console>>

ListFirst(ps) == Joined(Len(ps), ps[1].name) \* mutant: newest name first
NameList(ps) == Joined(Len(ps), ps[Len(ps)].name)

ToSender(c) == {c} \* mutant: sent to the one client, as SendCurrentPlayers does
NameListTo(c) == Seated

\* ID_PLAYERNAME: the name is stored, then SendPlayerNamesToClients tells
\* every client the number of players and all names; a client acts on the
\* number and on the last name.
UpdatePlayerName(c) ==
  /\ Receive(c, "PLAYERNAME")
  /\ IF PlayerIdx(c) <= Len(players)
     THEN /\ players' = [players EXCEPT ![PlayerIdx(c)].name = NameOf[c]]
          /\ toClient' = Sent(NameListTo(c), NameList(players'))
     ELSE UNCHANGED <<players, toClient>>
  /\ UNCHANGED <<conn, dealer, lastPlayerID, numPlayersReadyToStart,
                 readyToStart, GameInProgress, currentPlayer, serverPc, console>>

-----------------------------------------------------------------------------
(* A turn                                                                  *)

ToEveryone(i, ps) == {ps[k].client : k \in DOMAIN ps} \* mutant: all are asked
AskedIs(i, ps) == {ps[i].client}

\* GameLoop, called with the vector ps and the index cur: the player bets,
\* and is asked for a move unless the hand is bust already.
GameLoop(ps, cur) ==
  /\ currentPlayer' = cur
  /\ players' = [ps EXCEPT ![cur + 1] = AddScore(@, -betScore)]
  /\ toClient' = IF CheckBust(ps[cur + 1].hand)
                 THEN toClient
                 ELSE Sent(AskedIs(cur + 1, ps), Plain("HIT_STAND"))

\* mutant: the bets of the last game stay
DealtOnBets(cards) ==
  [i \in DOMAIN players |->
     [players[i] EXCEPT !.hand = AddCard(AddCard(Cleared, cards[i][1]), cards[i][2])]]

\* StartGame's loop over the players and its two calls of DrawForAll.
Dealt(cards) ==
  [i \in DOMAIN players |->
     [players[i] EXCEPT !.currentBet = 0,
                        !.hand = AddCard(AddCard(Cleared, cards[i][1]), cards[i][2])]]

StartGame ==
  \E cards \in [1..Len(players) -> Ranks \X Ranks], up, down \in Ranks :
    /\ dealer' = AddCard(AddCard(Cleared, up), down)
    /\ GameLoop(Dealt(cards), players[1].playerID)

MoreThanReady(n) == Len(players) >= 2 /\ n > Len(players) \* mutant: > for >=
EnoughReady(n) == Len(players) >= 2 /\ n >= Len(players)

Whenever == TRUE \* mutant: GameInProgress is not looked at
NoGame == ~GameInProgress

\* ID_PLAYER_READY_TO_START: one counter for all, whoever sent the message.
PlayerReady(c) ==
  /\ Receive(c, "READY")
  /\ numPlayersReadyToStart' = numPlayersReadyToStart + 1
  /\ readyToStart' = (readyToStart \/ (EnoughReady(numPlayersReadyToStart') /\ NoGame))
  /\ GameInProgress' = (GameInProgress \/ readyToStart')
  /\ IF readyToStart' /\ NoGame
     THEN StartGame
     ELSE UNCHANGED <<players, dealer, currentPlayer, toClient>>
  /\ UNCHANGED <<conn, lastPlayerID, serverPc, console>>

\* mutant: nothing is asked of a player who has gone bust, as in GameLoop
AsksUnlessBust(c, ps) ==
  IF CheckBust(ps[PlayerIdx(c)].hand) THEN toClient ELSE Sent({c}, Plain("HIT_STAND"))

AsksAgain(c, ps) == Sent({c}, Plain("HIT_STAND"))

\* SetHitStandRecieved, 'h': the sender's hand grows and the sender is asked
\* again, whoever that is and whatever the hand is worth.
Hit(c) ==
  /\ Receive(c, "HIT")
  /\ \E card \in Ranks :
       players' = [players EXCEPT ![PlayerIdx(c)].hand = AddCard(@, card)]
  /\ toClient' = AsksAgain(c, players')
  /\ UNCHANGED <<conn, dealer, lastPlayerID, numPlayersReadyToStart,
                 readyToStart, GameInProgress, currentPlayer, serverPc, console>>

AllButOne == currentPlayer + 2 >= Len(players) \* mutant: off by one
\* mutant: the players the game was dealt to, without the newcomers
LastDealt == currentPlayer = Cardinality({i \in DOMAIN players : players[i].hand.count > 0}) - 1
LastTurn == currentPlayer = Len(players) - 1

\* SetHitStandRecieved, 's': the turn passes, from whoever has it.
Stand(c) ==
  /\ Receive(c, "STAND")
  /\ IF LastTurn
     THEN /\ serverPc' = "dealer"
          /\ UNCHANGED <<players, currentPlayer, toClient>>
     ELSE /\ GameLoop(players, currentPlayer + 1)
          /\ UNCHANGED serverPc
  /\ UNCHANGED <<conn, dealer, lastPlayerID, numPlayersReadyToStart,
                 readyToStart, GameInProgress, console>>

-----------------------------------------------------------------------------
(* The end of a game: DoEnd                                                *)

DealerDraws == GetValue(dealer) < 16

DealerDraw ==
  /\ serverPc = "dealer"
  /\ DealerDraws
  /\ \E card \in Ranks : dealer' = AddCard(dealer, card)
  /\ UNCHANGED <<netVars, players, lastPlayerID, numPlayersReadyToStart,
                 readyToStart, GameInProgress, currentPlayer, serverPc, console>>

Won(p, credit) == [AddScore(p, credit) EXCEPT !.wins = @ + 1]

\* mutant: the bet is taken a second time, as the message sent suggests
LostTwice(p) == [AddScore(p, -betScore) EXCEPT !.losses = @ + 1]
Lost(p) == [p EXCEPT !.losses = @ + 1]

\* CheckWins for one player.  The bet was taken in GameLoop; 21 pays it two
\* and a half times, converted to int by AddScore's parameter.
Settled(p) ==
  IF CheckBust(p.hand) THEN Lost(p)
  ELSE IF GetValue(p.hand) = 21 THEN Won(p, (p.currentBet * 5) \div 2)
  ELSE IF CheckBust(dealer) THEN Won(p, p.currentBet * 2)
  ELSE IF GetValue(p.hand) > GetValue(dealer) THEN Won(p, p.currentBet * 2)
  ELSE Lost(p)

\* "end" is sent at the bottom of the loop body for the last player, which
\* the two "continue" statements skip.
SaysEnd ==
  LET p == players[Len(players)]
  IN  CheckBust(p.hand) \/ (GetValue(p.hand) # 21 /\ ~CheckBust(dealer))

Results == <<AllCards(Len(players))>> \o (IF SaysEnd THEN <<Plain("END")>> ELSE << >>)

StillReady == numPlayersReadyToStart \* mutant: not reset
NobodyReady == 0

Showdown ==
  /\ serverPc = "dealer"
  /\ ~DealerDraws
  /\ players' = [i \in DOMAIN players |-> Settled(players[i])]
  /\ toClient' = [c \in Clients |-> IF c \in Seated /\ conn[c] = "on"
                                    THEN toClient[c] \o Results
                                    ELSE toClient[c]]
  /\ numPlayersReadyToStart' = NobodyReady
  /\ GameInProgress' = FALSE
  /\ readyToStart' = FALSE
  /\ serverPc' = "ignore"
  /\ UNCHANGED <<conn, toServer, dealer, lastPlayerID, currentPlayer, console>>

\* cin.ignore() returns once it has eaten a character of the console.
IgnoreKey ==
  /\ serverPc = "ignore"
  /\ console > 0
  /\ console' = console - 1
  /\ serverPc' = "loop"
  /\ UNCHANGED <<netVars, players, dealer, lastPlayerID, numPlayersReadyToStart,
                 readyToStart, GameInProgress, currentPlayer>>

\* The operator presses Enter in the server's window.
PressEnter ==
  /\ console' = console + 1
  /\ UNCHANGED <<netVars, players, dealer, lastPlayerID, numPlayersReadyToStart,
                 readyToStart, GameInProgress, currentPlayer, serverPc>>
=============================================================================
