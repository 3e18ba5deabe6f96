----------------------------- MODULE Blackjack ------------------------------
(***************************************************************************)
(* The whole system: the server, the clients, their users, the operator at *)
(* the server's console and the network between the processes.             *)
(***************************************************************************)
EXTENDS GameServer, GameClient

CONSTANTS
  Leavers,      \* clients that may go away, by answering 'n' or by closing
  MaxCards,     \* bound: a user asks for no card beyond this many
  MaxRestarts,  \* bound: a user answers 'y' at most this often
  MaxConsole    \* bound: keys the operator types ahead

ASSUME SystemAssumption ==
  /\ Leavers \subseteq Clients
  /\ MaxCards \in Nat
  /\ MaxRestarts \in Nat
  /\ MaxConsole \in Nat \ {0}

VARIABLES
  restarts, \* restarts[c]: how often the user of c has answered 'y'
  consent   \* history: the clients whose READY was received since the last
            \* showdown

vars == <<netVars, serverVars, clientVars, restarts, consent>>

Init ==
  /\ NetInit
  /\ ServerInit
  /\ ClientInit
  /\ restarts = [c \in Clients |-> 0]
  /\ consent = {}

-----------------------------------------------------------------------------
ServerReceives(c) ==
  \/ /\ CreateNewPlayer(c) \/ UpdatePlayerName(c) \/ Hit(c) \/ Stand(c)
     /\ UNCHANGED consent
  \/ /\ PlayerReady(c)
     /\ consent' = consent \cup {c}

ServerEnds ==
  \/ /\ DealerDraw \/ IgnoreKey
     /\ UNCHANGED consent
  \/ /\ Showdown
     /\ consent' = {}

ServerThread(c) == ServerReceives(c) /\ UNCHANGED <<clientVars, restarts>>
ServerDoEnd     == ServerEnds /\ UNCHANGED <<clientVars, restarts>>

Operator ==
  /\ console < MaxConsole
  /\ PressEnter
  /\ UNCHANGED <<clientVars, restarts, consent>>

ClientReceives(c) ==
  /\ \/ Accepted(c) \/ SetPlayerID(c) \/ PrintCurrentPlayers(c)
     \/ UpdatePlayers(c) \/ HitorStand(c) \/ RecieveAllCards(c)
     \/ RecieveString(c)
  /\ UNCHANGED <<serverVars, restarts, consent>>

ClientReady(c) == SendReady(c) /\ UNCHANGED <<serverVars, restarts, consent>>

MayHit(c) == c \in Seated /\ players[PlayerIdx(c)].hand.count < MaxCards

UserMoves(c) ==
  /\ \E key \in UserKeys : /\ key = "h" => MayHit(c)
                           /\ TestTest(c, key)
  /\ UNCHANGED <<serverVars, restarts, consent>>

UserRestarts(c) ==
  /\ restarts[c] < MaxRestarts
  /\ AnswerYes(c)
  /\ restarts' = [restarts EXCEPT ![c] = @ + 1]
  /\ UNCHANGED <<serverVars, consent>>

UserReady(c) == EnterReady(c) /\ UNCHANGED <<serverVars, restarts, consent>>

UserDeclines(c) ==
  /\ \/ AnswerOther(c)
     \/ c \in Leavers /\ (AnswerNo(c) \/ CloseClient(c))
  /\ UNCHANGED <<serverVars, restarts, consent>>

UserStarts(c) == StartClient(c) /\ UNCHANGED <<serverVars, restarts, consent>>

PeerNotices(c) ==
  ConnectionLost(c) /\ UNCHANGED <<serverVars, clientVars, restarts, consent>>

Next ==
  \/ ServerDoEnd
  \/ Operator
  \/ \E c \in Clients :
       \/ ServerThread(c)
       \/ ClientReceives(c) \/ ClientReady(c)
       \/ UserStarts(c) \/ UserReady(c) \/ UserMoves(c)
       \/ UserRestarts(c) \/ UserDeclines(c)
       \/ PeerNotices(c)

Spec == Init /\ [][Next]_vars

\* Both threads spin: the server receives what has arrived from any client,
\* a client what has arrived for it.
ThreadFairness ==
  /\ WF_vars(ServerDoEnd)
  /\ \A c \in Clients : /\ WF_vars(ServerThread(c))
                        /\ WF_vars(ClientReceives(c))
                        /\ WF_vars(ClientReady(c))

\* Users answer the prompts that ask for a key, and do not ask for cards for
\* ever (MaxCards).
UserFairness ==
  \A c \in Clients : WF_vars(UserMoves(c)) /\ WF_vars(UserReady(c))

\* Somebody presses Enter at the server's console now and then.
OperatorFairness == WF_vars(Operator)

FairSpec == Spec /\ ThreadFairness /\ UserFairness /\ OperatorFairness

\* The same with nobody at the server's console.
UnattendedSpec == Spec /\ ThreadFairness /\ UserFairness

-----------------------------------------------------------------------------
(* Properties                                                              *)

\* Type correctness of the whole state.
TypeOK ==
  /\ NetTypeOK
  /\ ServerTypeOK
  /\ ClientTypeOK
  /\ restarts \in [Clients -> Nat]
  /\ consent \subseteq Clients

\* Where a move of client c can be: asked for, at the prompt, answered.
Asks(c)    == {i \in DOMAIN toClient[c] : toClient[c][i].type = "HIT_STAND"}
Answers(c) == {i \in DOMAIN toServer[c] : toServer[c][i] \in {"HIT", "STAND"}}

MovePending(c) == Asks(c) # {} \/ pc[c] = "move" \/ Answers(c) # {}

\* SetHitStandRecieved trusts the sender of an answer: it checks neither that
\* a game is on nor that it is the sender's turn.  The protocol makes that
\* safe: only the player whose turn it is has a request, a prompt or an answer
\* outstanding, and only while the game is on and the server's thread is not
\* in DoEnd.
OnlyCurrentMoves ==
  \A c \in Clients :
    MovePending(c) => /\ GameInProgress
                      /\ serverPc = "loop"
                      /\ currentPlayer < Len(players)
                      /\ players[currentPlayer + 1].client = c

\* At most one of them is outstanding at a time: no answer is ever counted
\* twice, so no turn is passed over.
OneMovePending ==
  \A c \in Clients :
    /\ \A i, j \in Asks(c) : i = j
    /\ \A i, j \in Answers(c) : i = j
    /\ Asks(c) # {} => pc[c] # "move" /\ Answers(c) = {}
    /\ pc[c] = "move" => Answers(c) = {}

\* GameLoop takes the bet of a player exactly once in a game, when the turn
\* reaches the player; players that join while it runs are reached too, so
\* everyone has bet when the dealer's cards are compared.
EveryoneBetsOnce ==
  GameInProgress =>
    /\ currentPlayer < Len(players)
    /\ \A i \in DOMAIN players :
         players[i].currentBet = IF i - 1 <= currentPlayer THEN betScore ELSE 0
    /\ serverPc = "dealer" => currentPlayer = Len(players) - 1

\* A player's score is what the wins and losses account for: a loss costs the
\* bet, a win earns it once, or one and a half times with 21.
Ledger ==
  \A i \in DOMAIN players :
    LET p       == players[i]
        pending == IF GameInProgress THEN p.currentBet ELSE 0
        extra   == p.score + pending - startingScore - betScore * (p.wins - p.losses)
    IN  /\ 0 <= 2 * extra
        /\ 2 * extra <= betScore * p.wins

\* RecieveAllCards reads numPlayers entries from the message of the final
\* hands, and SendAllPlayersCardsString writes one for each player: they are
\* the same number, although numPlayers is only as fresh as the last list of
\* names.  Whoever joined meanwhile had to be named, and the list sent to
\* all, before it could answer and let the showdown come.
FinalHandsComplete ==
  \A c \in Clients :
    toClient[c] # << >> /\ Head(toClient[c]).type = "CARDS_STRING"
      => numPlayers[c] = Head(toClient[c]).n

\* GameLoop asks for a move only if the hand is not bust, and nothing else
\* would move the game on: a turn that begins is always asked for, and until
\* the player stands the request, the prompt or the answer is somewhere.
TurnHeld ==
  GameInProgress /\ serverPc = "loop" =>
    LET current == players[currentPlayer + 1].client
    IN  conn[current] = "on" => MovePending(current)

\* Restart reads the answer into an uninitialized char.  The ready prompt
\* leaves cin failed when it is answered with a letter, as it asks to be; a
\* player who was there from the start has had a turn since, whose prompt
\* cleared it.
RestartReadsAnswer ==
  \A c \in Clients : pc[c] = "restart" => ~cinFail[c]

GameStarts == ~GameInProgress /\ GameInProgress'

\* client.cpp:722: "all players have indicated they are ready to start" when a
\* game starts (numPlayersReadyToStart counts messages, not players).
AllReadyAtStart ==
  [][GameStarts => Seated \subseteq consent']_vars

\* A game that has started comes to its showdown.
GameEnds == GameInProgress ~> ~GameInProgress

\* With players that leave, a game that does not end has stopped at a player
\* that is no longer connected: nothing else holds it up.
GameEndsOrIsLeft ==
  GameInProgress ~>
    (~GameInProgress \/ conn[players[currentPlayer + 1].client] # "on")

Waiting(c) ==
  /\ c \in Seated
  /\ c \in consent \/ \E i \in DOMAIN toServer[c] : toServer[c][i] = "READY"

\* When every client has got ready the next game starts.
ReadyStarts ==
  (~GameInProgress /\ \A c \in Clients : Waiting(c)) ~> GameInProgress

\* A client that was the newest when its name arrived is asked to get ready
\* and does; the list it sees ends with its own name.
NewestGetsReady ==
  \A c \in Clients :
    (players # << >> /\ players[Len(players)].client = c
                    /\ players[Len(players)].name = NameOf[c]) ~> readySent[c]
=============================================================================
