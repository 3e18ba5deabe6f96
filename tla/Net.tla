-------------------------------- MODULE Net ---------------------------------
(***************************************************************************)
(* The RakNet connection between each client process and the server, as    *)
(* the game uses it: every game message is sent RELIABLE_ORDERED on        *)
(* channel 0, so each direction of a connection is a FIFO queue.  The      *)
(* server is told of a new connection before any message of that client;   *)
(* the client is told that its request was accepted before any message of  *)
(* the server.  Queues of different clients are independent: the arrival   *)
(* order the server's single receive loop sees is any interleaving.        *)
(*                                                                         *)
(* Only the messages that can change what a program does next are kept;    *)
(* those that are printed and forgotten (score lines, hands, turn count,   *)
(* dealer's cards, result strings other than "end") are left out.          *)
(***************************************************************************)
EXTENDS Integers, Sequences, FiniteSets

CONSTANTS
  Clients,      \* the client processes that may be started, each once
  NameOf,       \* the name the user of each client types in
  NoName,       \* the empty name a Player has before its name arrives
  MAX_PLAYERS   \* connections the server's peer accepts at a time

ASSUME NetAssumption ==
  /\ IsFiniteSet(Clients)
  /\ MAX_PLAYERS \in Nat \ {0}

Names == {NameOf[c] : c \in Clients} \cup {NoName}

VARIABLES
  conn,         \* conn[c]: the server's view of the connection to client c
  toServer,     \* toServer[c]: messages of c the server has not received yet
  toClient      \* toClient[c]: messages to c that c has not received yet

netVars == <<conn, toServer, toClient>>

ConnState == {"off",     \* client not started
              "refused", \* no free slot, the client waits for ever
              "on",      \* connected
              "gone",    \* the client is no more, the server's peer not aware
              "lost"}    \* the peer has noticed and freed the slot

\* Messages to the server.
UpMessage == {"NEW_CONNECTION", "PLAYERNAME", "READY", "HIT", "STAND"}

\* Messages to a client.
Plain(t)      == [type |-> t]
PlayerId(id)  == [type |-> "PLAYER_ID", n |-> id]
Current(n)    == [type |-> "CURRENT_PLAYERS", n |-> n]
AllCards(n)   == [type |-> "CARDS_STRING", n |-> n]
Joined(n, nm) == [type |-> "JOINED_GAME", n |-> n, last |-> nm]

DownMessage ==
  [type: {"ACCEPTED", "HIT_STAND", "END"}]
    \cup [type: {"PLAYER_ID", "CURRENT_PLAYERS", "CARDS_STRING"}, n: Nat]
    \cup [type: {"JOINED_GAME"}, n: Nat, last: Names]

NetTypeOK ==
  /\ conn \in [Clients -> ConnState]
  /\ toServer \in [Clients -> Seq(UpMessage)]
  /\ toClient \in [Clients -> Seq(DownMessage)]

NetInit ==
  /\ conn = [c \in Clients |-> "off"]
  /\ toServer = [c \in Clients |-> << >>]
  /\ toClient = [c \in Clients |-> << >>]

SlotsInUse == {c \in Clients : conn[c] \in {"on", "gone"}}

\* The queues after the server sends m to each client of S: what is sent to
\* an address that is not connected is dropped by the peer.
Sent(S, m) ==
  [c \in Clients |-> IF c \in S /\ conn[c] = "on"
                     THEN Append(toClient[c], m)
                     ELSE toClient[c]]

\* The queues after the server receives the next message of c.
Received(c) == [toServer EXCEPT ![c] = Tail(@)]

\* The queues after client c receives its next message.
Taken(c) == [toClient EXCEPT ![c] = Tail(@)]

\* The queues after client c sends m.
Uploaded(c, m) == [toServer EXCEPT ![c] = Append(@, m)]

\* connectToServer: RakNet either opens the connection, and tells both
\* sides, or answers that no slot is free, which the client only prints.
Connect(c) ==
  /\ conn[c] = "off"
  /\ IF Cardinality(SlotsInUse) < MAX_PLAYERS
     THEN /\ conn' = [conn EXCEPT ![c] = "on"]
          /\ toServer' = Uploaded(c, "NEW_CONNECTION")
          /\ toClient' = [toClient EXCEPT ![c] = <<Plain("ACCEPTED")>>]
     ELSE /\ conn' = [conn EXCEPT ![c] = "refused"]
          /\ UNCHANGED <<toServer, toClient>>

\* The client process ends (exit(0), a crash, a closed window).  It takes
\* no leave of the server: what it had sent and the network had not yet
\* delivered may be cut short anywhere, what was sent to it is never read.
Vanish(c) ==
  /\ conn' = [conn EXCEPT ![c] = "gone"]
  /\ \E k \in 0..Len(toServer[c]) :
       toServer' = [toServer EXCEPT ![c] = SubSeq(@, 1, k)]
  /\ toClient' = [toClient EXCEPT ![c] = << >>]

\* The server's peer gives the connection up and frees its slot.  The game
\* prints a line and keeps the player.
ConnectionLost(c) ==
  /\ conn[c] = "gone"
  /\ conn' = [conn EXCEPT ![c] = "lost"]
  /\ UNCHANGED <<toServer, toClient>>
=============================================================================
