----------------------------- MODULE GameClient -----------------------------
(***************************************************************************)
(* The client processes, Client/client.cpp.  A client is one thread that   *)
(* handles the packets it receives in order; a handler that asks the user  *)
(* something blocks the thread on cin until the user answers, and packets  *)
(* wait.  pc[c] is "loop" between packets and names the prompt otherwise.  *)
(*                                                                         *)
(* gameInProgress, myTurn and the list Players are never read, and         *)
(* playerID only chooses a line to print; playerID and numPlayers are kept *)
(* because the reading of a message depends on numPlayers.                 *)
(***************************************************************************)
EXTENDS Net

CONSTANT
  UserKeys  \* what users type at the hit or stand prompt: "h", "s", or
            \* "other" for what ValidInput_char lets through beside these
            \* (a capital, or a byte that lies behind the array valid)

ASSUME ClientAssumption == UserKeys \subseteq {"h", "s", "other"}

VARIABLES
  pc,               \* pc[c]: where the thread of client c is
  preReadyToStart,
  readySent,        \* readyToStart of client.cpp
  numPlayers,
  playerID,
  cinFail           \* the failbit of cin

clientVars == <<pc, preReadyToStart, readySent, numPlayers, playerID, cinFail>>

ClientPc == {"off",      \* not started
             "loop",     \* PlayGame
             "ready",    \* UpdatePlayers: "input (e) to indicate ready"
             "move",     \* HitorStand: ValidInput_char
             "restart",  \* Restart: "Would you like to restart"
             "again",    \* Restart: Restartinput
             "exit"}     \* no longer running

ClientTypeOK ==
  /\ pc \in [Clients -> ClientPc]
  /\ preReadyToStart \in [Clients -> BOOLEAN]
  /\ readySent \in [Clients -> BOOLEAN]
  /\ numPlayers \in [Clients -> Nat]
  /\ playerID \in [Clients -> Nat]
  /\ cinFail \in [Clients -> BOOLEAN]

ClientInit ==
  /\ pc = [c \in Clients |-> "off"]
  /\ preReadyToStart = [c \in Clients |-> FALSE]
  /\ readySent = [c \in Clients |-> FALSE]
  /\ numPlayers = [c \in Clients |-> 0]
  /\ playerID = [c \in Clients |-> 0]
  /\ cinFail = [c \in Clients |-> FALSE]

Goto(c, where) == pc' = [pc EXCEPT ![c] = where]

\* main up to PlayGame: the name is typed in, then connectToServer.
StartClient(c) ==
  /\ Connect(c)
  /\ Goto(c, "loop")
  /\ UNCHANGED <<preReadyToStart, readySent, numPlayers, playerID, cinFail>>

-----------------------------------------------------------------------------
(* Packets.                                                                *)

Take(c, type) ==
  /\ pc[c] = "loop"
  /\ toClient[c] # << >>
  /\ Head(toClient[c]).type = type
  /\ toClient' = Taken(c)
  /\ UNCHANGED conn

\* ID_CONNECTION_REQUEST_ACCEPTED: sendPlayerName.
Accepted(c) ==
  /\ Take(c, "ACCEPTED")
  /\ toServer' = Uploaded(c, "PLAYERNAME")
  /\ UNCHANGED clientVars

SetPlayerID(c) ==
  /\ Take(c, "PLAYER_ID")
  /\ playerID' = [playerID EXCEPT ![c] = Head(toClient[c]).n]
  /\ UNCHANGED <<toServer, pc, preReadyToStart, readySent, numPlayers, cinFail>>

PrintCurrentPlayers(c) ==
  /\ Take(c, "CURRENT_PLAYERS")
  /\ numPlayers' = [numPlayers EXCEPT ![c] = Head(toClient[c]).n]
  /\ UNCHANGED <<toServer, pc, preReadyToStart, readySent, playerID, cinFail>>

\* ID_PLAYER_JOINED_GAME: the user is asked to get ready if the last name of
\* the list is the client's own.
UpdatePlayers(c) ==
  /\ Take(c, "JOINED_GAME")
  /\ numPlayers' = [numPlayers EXCEPT ![c] = Head(toClient[c]).n]
  /\ Goto(c, IF Head(toClient[c]).last = NameOf[c] THEN "ready" ELSE "loop")
  /\ UNCHANGED <<toServer, preReadyToStart, readySent, playerID, cinFail>>

HitorStand(c) ==
  /\ Take(c, "HIT_STAND")
  /\ Goto(c, "move")
  /\ UNCHANGED <<toServer, preReadyToStart, readySent, numPlayers, playerID, cinFail>>

\* ID_SEND_CARDS_STRING: reads the cards of numPlayers players off the
\* message, however many it holds, and prints them.
RecieveAllCards(c) ==
  /\ Take(c, "CARDS_STRING")
  /\ UNCHANGED <<toServer, clientVars>>

\* ID_SEND_STRING "end".
RecieveString(c) ==
  /\ Take(c, "END")
  /\ Goto(c, "restart")
  /\ UNCHANGED <<toServer, preReadyToStart, readySent, numPlayers, playerID, cinFail>>

-----------------------------------------------------------------------------
(* The user.                                                               *)

\* "cin >> input" into an int: a letter, as the prompt asks for, sets the
\* failbit; a number does not; with the failbit set the read returns at once.
\* "if (input = 'e')" is always true.
EnterReady(c) ==
  /\ pc[c] \in {"ready", "again"}
  /\ \E letter \in BOOLEAN : cinFail' = [cinFail EXCEPT ![c] = @ \/ letter]
  /\ preReadyToStart' = [preReadyToStart EXCEPT ![c] = TRUE]
  /\ Goto(c, "loop")
  /\ UNCHANGED <<netVars, readySent, numPlayers, playerID>>

\* What TestTest sends for a key: nothing unless it is 'h' or 's'.
Answer(key) == IF key = "h" THEN <<"HIT">> ELSE IF key = "s" THEN <<"STAND">> ELSE << >>

StillFailed(c) == cinFail \* mutant: no cin.clear()
CinCleared(c) == [cinFail EXCEPT ![c] = FALSE]

\* ValidInput_char clears the failbit and returns a key, which TestTest sends.
TestTest(c, key) ==
  /\ pc[c] = "move"
  /\ toServer' = [toServer EXCEPT ![c] = @ \o Answer(key)]
  /\ cinFail' = CinCleared(c)
  /\ Goto(c, "loop")
  /\ UNCHANGED <<conn, toClient, preReadyToStart, readySent, numPlayers, playerID>>

\* Restart reads a char.  With the failbit set nothing is read and response
\* stays uninitialized: every answer is possible then too.
AnswerYes(c) ==
  /\ pc[c] = "restart"
  /\ readySent' = [readySent EXCEPT ![c] = FALSE]
  /\ Goto(c, "again")
  /\ UNCHANGED <<netVars, preReadyToStart, numPlayers, playerID, cinFail>>

AnswerNo(c) ==
  /\ pc[c] = "restart"
  /\ Vanish(c)
  /\ Goto(c, "exit")
  /\ UNCHANGED <<preReadyToStart, readySent, numPlayers, playerID, cinFail>>

AnswerOther(c) ==
  /\ pc[c] = "restart"
  /\ Goto(c, "loop")
  /\ UNCHANGED <<netVars, preReadyToStart, readySent, numPlayers, playerID, cinFail>>

\* Between two packets, when Receive() has returned null.
MustSendReady(c) == preReadyToStart[c] /\ ~readySent[c]

SendReady(c) ==
  /\ pc[c] = "loop"
  /\ MustSendReady(c)
  /\ toServer' = Uploaded(c, "READY")
  /\ readySent' = [readySent EXCEPT ![c] = TRUE]
  /\ UNCHANGED <<conn, toClient, pc, preReadyToStart, numPlayers, playerID, cinFail>>

\* The process dies or its window is closed.
CloseClient(c) ==
  /\ conn[c] = "on"
  /\ Vanish(c)
  /\ Goto(c, "exit")
  /\ UNCHANGED <<preReadyToStart, readySent, numPlayers, playerID, cinFail>>
=============================================================================
