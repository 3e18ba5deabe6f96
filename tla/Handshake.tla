----------------------------- MODULE Handshake ------------------------------
(***************************************************************************)
(* How RakNet opens and closes a connection (RakPeer.cpp): each client     *)
(* process asks the server once.  REQUEST_1, REPLY_1, REQUEST_2, REPLY_2   *)
(* and the refusals are bare datagrams, sent again or lost; with REPLY_2   *)
(* both ends have a slot with a reliability layer in it, and what follows  *)
(* (CONNECTION_REQUEST, ACCEPTED, NEW_INCOMING and the game's messages) is *)
(* reliable.  Every stage has its deadline, at either end.                 *)
(*                                                                         *)
(* Each end has a thread for the network, whose handlers are the actions,  *)
(* and one for the program: what the program sends waits in a queue        *)
(* (bufferedCommands) for the network thread.  A program that ends says no *)
(* goodbye: neither the client nor the server closes a connection.         *)
(*                                                                         *)
(* A slot's deadline passes only when the client no longer asks and no     *)
(* REQUEST_2 is on its way: the slot lives for 10 seconds, a client asks   *)
(* 7 times, a second apart, and a datagram is assumed to take less than    *)
(* the 3 seconds between.                                                  *)
(***************************************************************************)
EXTENDS Naturals, Sequences, FiniteSets

CONSTANTS
  Clients,     \* the client processes, each with an address of its own
  MAX_PLAYERS, \* the server's slots, and the connections it allows
  Attempts     \* sendConnectionAttemptCount

ASSUME HandshakeAssumption ==
  /\ IsFiniteSet(Clients)
  /\ MAX_PLAYERS \in Nat \ {0}
  /\ Attempts \in Nat

VARIABLES
  process,      \* process[c]: "off", "on", "gone"
  requestedConnectionQueue, \* the clients that are asking
  requestsMade,
  clientMode,   \* connectMode of the client's one slot, "INACTIVE" if free
  serverMode,   \* connectMode of the server's slot for c
  wire,         \* wire[c]: datagrams of either direction, outside any slot
  up,           \* reliable messages of the client that have not arrived
  down,         \* ... and of the server
  name,         \* the client's first message to the game: "unsent",
                \* "buffered" in the queue of commands, "sent"
  told,         \* told[c]: the packets about the connection given to c's program
  heard,        \* heard[c]: the packets of c given to the server's program
  banList

serverVars == <<serverMode, heard, banList>>
clientVars == <<process, requestedConnectionQueue, requestsMade, clientMode,
                name, told>>
linkVars == <<wire, up, down>>
handshakeVars == <<serverVars, clientVars, linkVars>>

Refusals == {"NO_FREE", "ALREADY_CONNECTED", "BANNED"}
Offline == {"REQUEST_1", "REPLY_1", "REQUEST_2", "REPLY_2"} \cup Refusals

HandshakeTypeOK ==
  /\ process \in [Clients -> {"off", "on", "gone"}]
  /\ requestedConnectionQueue \subseteq Clients
  /\ requestsMade \in [Clients -> 0..(Attempts + 1)]
  /\ clientMode \in [Clients -> {"INACTIVE", "REQUESTED_CONNECTION", "CONNECTED"}]
  /\ serverMode \in [Clients -> {"INACTIVE", "UNVERIFIED_SENDER",
                                 "HANDLING_CONNECTION_REQUEST", "CONNECTED"}]
  /\ wire \in [Clients -> SUBSET Offline]
  /\ up \in [Clients -> SUBSET {"CONNECTION_REQUEST", "NEW_INCOMING", "NAME"}]
  /\ down \in [Clients -> SUBSET {"ACCEPTED"}]
  /\ name \in [Clients -> {"unsent", "buffered", "sent"}]
  /\ told \in [Clients -> Seq({"ACCEPTED", "ATTEMPT_FAILED", "LOST"} \cup Refusals)]
  /\ heard \in [Clients -> Seq({"NEW", "NAME", "LOST"})]
  /\ banList \subseteq Clients

HandshakeInit ==
  /\ process = [c \in Clients |-> "off"]
  /\ requestedConnectionQueue = {}
  /\ requestsMade = [c \in Clients |-> 0]
  /\ clientMode = [c \in Clients |-> "INACTIVE"]
  /\ serverMode = [c \in Clients |-> "INACTIVE"]
  /\ wire = [c \in Clients |-> {}]
  /\ up = [c \in Clients |-> {}]
  /\ down = [c \in Clients |-> {}]
  /\ name = [c \in Clients |-> "unsent"]
  /\ told = [c \in Clients |-> << >>]
  /\ heard = [c \in Clients |-> << >>]
  /\ banList = {}

\* One datagram less, or answered by another.
Consume(c, m) == wire' = [wire EXCEPT ![c] = @ \ {m}]
Answer(c, m, reply) == wire' = [wire EXCEPT ![c] = (@ \ {m}) \cup {reply}]

\* AddPacketToProducer at either end.
Tell(c, m) == told' = [told EXCEPT ![c] = Append(@, m)]
Hear(c, m) == heard' = [heard EXCEPT ![c] = Append(@, m)]

-----------------------------------------------------------------------------
(* The client asks.                                                        *)

Connect(c) ==
  /\ process[c] = "off"
  /\ process' = [process EXCEPT ![c] = "on"]
  /\ requestedConnectionQueue' = requestedConnectionQueue \cup {c}
  /\ UNCHANGED <<requestsMade, clientMode, name, told, serverVars, linkVars>>

OneMore(c) == requestsMade[c] = Attempts + 2 \* mutant: the last one counted late
NoMoreRequests(c) == requestsMade[c] = Attempts + 1

Asking(c) == process[c] = "on" /\ c \in requestedConnectionQueue

SendRequest(c) ==
  /\ Asking(c)
  /\ ~NoMoreRequests(c)
  /\ requestsMade' = [requestsMade EXCEPT ![c] = @ + 1]
  /\ wire' = [wire EXCEPT ![c] = @ \cup {"REQUEST_1"}]
  /\ UNCHANGED <<process, requestedConnectionQueue, clientMode, name, told,
                 serverVars, up, down>>

GiveUp(c) ==
  /\ Asking(c)
  /\ NoMoreRequests(c)
  /\ requestedConnectionQueue' = requestedConnectionQueue \ {c}
  /\ Tell(c, "ATTEMPT_FAILED")
  /\ UNCHANGED <<process, requestsMade, clientMode, name, serverVars, linkVars>>

\* REPLY_1 is answered only while the client is asking.
HandleReply1(c) ==
  /\ process[c] = "on"
  /\ "REPLY_1" \in wire[c]
  /\ IF Asking(c) THEN Answer(c, "REPLY_1", "REQUEST_2") ELSE Consume(c, "REPLY_1")
  /\ UNCHANGED <<clientVars, serverVars, up, down>>

\* The first REPLY_2 gives the client its slot; the game starts one
\* connection, so the slot is free.
HandleReply2(c) ==
  /\ process[c] = "on"
  /\ "REPLY_2" \in wire[c]
  /\ Consume(c, "REPLY_2")
  /\ IF Asking(c)
     THEN /\ requestedConnectionQueue' = requestedConnectionQueue \ {c}
          /\ clientMode' = [clientMode EXCEPT ![c] = "REQUESTED_CONNECTION"]
          /\ up' = [up EXCEPT ![c] = @ \cup {"CONNECTION_REQUEST"}]
     ELSE UNCHANGED <<requestedConnectionQueue, clientMode, up>>
  /\ UNCHANGED <<process, requestsMade, name, told, serverVars, down>>

HandleRefusal(c) ==
  /\ process[c] = "on"
  /\ \E m \in Refusals \cap wire[c] :
       /\ Consume(c, m)
       /\ IF Asking(c)
          THEN /\ requestedConnectionQueue' = requestedConnectionQueue \ {c}
               /\ Tell(c, m)
          ELSE UNCHANGED <<requestedConnectionQueue, told>>
  /\ UNCHANGED <<process, requestsMade, clientMode, name, serverVars, up, down>>

-----------------------------------------------------------------------------
(* The server answers.                                                     *)

InMode(mode) == {c \in Clients : serverMode[c] = mode}
ActiveSlots == Clients \ InMode("INACTIVE")

AllowIncomingConnections == Cardinality(InMode("CONNECTED")) < MAX_PLAYERS

\* The answer to a datagram; an address that is banned gets no other.
Reply(c, m) == IF c \in banList THEN "BANNED" ELSE m

HandleRequest1(c) ==
  /\ "REQUEST_1" \in wire[c]
  /\ Answer(c, "REQUEST_1", Reply(c, "REPLY_1"))
  /\ UNCHANGED <<clientVars, serverVars, up, down>>

\* REQUEST_2 from an address that has no slot.  AllowIncomingConnections
\* counts the connections that are complete; if handshakes in progress hold
\* the other slots, none is assigned and REPLY_2 is sent all the same.
HandleNewRequest2(c) ==
  /\ "REQUEST_2" \in wire[c]
  /\ serverMode[c] = "INACTIVE"
  /\ Answer(c, "REQUEST_2",
            Reply(c, IF AllowIncomingConnections THEN "REPLY_2" ELSE "NO_FREE"))
  /\ serverMode' =
       IF /\ c \notin banList
          /\ AllowIncomingConnections
          /\ Cardinality(ActiveSlots) < MAX_PLAYERS
       THEN [serverMode EXCEPT ![c] = "UNVERIFIED_SENDER"]
       ELSE serverMode
  /\ UNCHANGED <<heard, banList, clientVars, up, down>>

\* REQUEST_2 from an address that has one: the same answer again while
\* nothing else came from it.
HandleRequest2Again(c) ==
  /\ "REQUEST_2" \in wire[c]
  /\ c \in ActiveSlots
  /\ Answer(c, "REQUEST_2",
            Reply(c, IF serverMode[c] = "UNVERIFIED_SENDER"
                     THEN "REPLY_2" ELSE "ALREADY_CONNECTED"))
  /\ UNCHANGED <<serverVars, clientVars, up, down>>

-----------------------------------------------------------------------------
(* Reliable messages.  All are RELIABLE_ORDERED on one channel but         *)
(* CONNECTION_REQUEST, which is only RELIABLE.  A second one (both ends    *)
(* connect to each other) does not come up: the server connects to nobody. *)

NothingOrdered == << >> \* mutant: sent RELIABLE
Ordered == <<"NEW_INCOMING", "NAME">>

\* What of c may arrive next: no ordered message before an earlier one.
MayArrive(c, m) ==
  /\ m \in up[c]
  /\ \A i, j \in DOMAIN Ordered : i < j /\ Ordered[j] = m => Ordered[i] \notin up[c]

\* The next reliable message of c reaches the server.
Arrives(c, m) ==
  /\ c \notin banList
  /\ MayArrive(c, m)
  /\ up' = [up EXCEPT ![c] = @ \ {m}]

\* A client of which nothing is known may only ask to be connected.
ReceiveUnverified(c) ==
  /\ serverMode[c] = "UNVERIFIED_SENDER"
  /\ \E m \in up[c] :
       /\ Arrives(c, m)
       /\ IF m = "CONNECTION_REQUEST"
          THEN /\ serverMode' = [serverMode EXCEPT ![c] = "HANDLING_CONNECTION_REQUEST"]
               /\ down' = [down EXCEPT ![c] = @ \cup {"ACCEPTED"}]
               /\ UNCHANGED banList
          ELSE /\ serverMode' = [serverMode EXCEPT ![c] = "INACTIVE"]
               /\ banList' = banList \cup {c}
               /\ UNCHANGED down
  /\ UNCHANGED <<heard, wire, clientVars>>

\* NEW_INCOMING completes a connection, once.
ReceiveNewIncoming(c) ==
  /\ serverMode[c] \in {"HANDLING_CONNECTION_REQUEST", "CONNECTED"}
  /\ Arrives(c, "NEW_INCOMING")
  /\ IF serverMode[c] = "HANDLING_CONNECTION_REQUEST"
     THEN /\ serverMode' = [serverMode EXCEPT ![c] = "CONNECTED"]
          /\ Hear(c, "NEW")
     ELSE UNCHANGED <<serverMode, heard>>
  /\ UNCHANGED <<wire, down, banList, clientVars>>

\* A message of the game is passed on whether the connection is complete or
\* not.
ReceiveMessage(c) ==
  /\ serverMode[c] \in {"HANDLING_CONNECTION_REQUEST", "CONNECTED"}
  /\ Arrives(c, "NAME")
  /\ Hear(c, "NAME")
  /\ UNCHANGED <<serverMode, wire, down, banList, clientVars>>

ReceiveAccepted(c) ==
  /\ process[c] = "on"
  /\ "ACCEPTED" \in down[c]
  /\ clientMode[c] # "INACTIVE"
  /\ down' = [down EXCEPT ![c] = @ \ {"ACCEPTED"}]
  /\ IF clientMode[c] = "REQUESTED_CONNECTION"
     THEN /\ clientMode' = [clientMode EXCEPT ![c] = "CONNECTED"]
          /\ Tell(c, "ACCEPTED")
          /\ up' = [up EXCEPT ![c] = @ \cup {"NEW_INCOMING"}]
     ELSE UNCHANGED <<clientMode, told, up>>
  /\ UNCHANGED <<process, requestedConnectionQueue, requestsMade, name,
                 serverVars, wire>>

\* The client's program, told that it is accepted, sends its name; the
\* network thread takes the command from the queue later.
SendPlayerName(c) ==
  /\ process[c] = "on"
  /\ told[c] # << >> /\ told[c][1] = "ACCEPTED"
  /\ name[c] = "unsent"
  /\ name' = [name EXCEPT ![c] = "buffered"]
  /\ UNCHANGED <<process, requestedConnectionQueue, requestsMade, clientMode,
                 told, serverVars, linkVars>>

SendBuffered(c) ==
  /\ process[c] = "on"
  /\ name[c] = "buffered"
  /\ name' = [name EXCEPT ![c] = "sent"]
  /\ up' = IF clientMode[c] = "INACTIVE"
           THEN up ELSE [up EXCEPT ![c] = @ \cup {"NAME"}]
  /\ UNCHANGED <<process, requestedConnectionQueue, requestsMade, clientMode,
                 told, serverVars, wire, down>>

-----------------------------------------------------------------------------
(* Deadlines.                                                              *)

OnlyUnverified == {"UNVERIFIED_SENDER"}  \* mutant: a request in hand has no deadline
OnlyServers == {"UNVERIFIED_SENDER", "HANDLING_CONNECTION_REQUEST"} \* mutant: nor one made
Incomplete == {"UNVERIFIED_SENDER", "HANDLING_CONNECTION_REQUEST",
               "REQUESTED_CONNECTION"}

AtAnyTime(c) == TRUE \* mutant: a deadline shorter than the client's
SlotIsOld(c) == ~Asking(c) /\ "REQUEST_2" \notin wire[c]

\* An incomplete connection is dropped without a word to the program.
SlotTimeout(c) ==
  /\ serverMode[c] \in Incomplete
  /\ SlotIsOld(c)
  /\ serverMode' = [serverMode EXCEPT ![c] = "INACTIVE"]
  /\ UNCHANGED <<heard, banList, clientVars, linkVars>>

\* What the server sent is not acknowledged in time.
ServerNoAck(c) ==
  /\ serverMode[c] = "CONNECTED"
  /\ SlotIsOld(c)
  /\ serverMode' = [serverMode EXCEPT ![c] = "INACTIVE"]
  /\ Hear(c, "LOST")
  /\ UNCHANGED <<banList, clientVars, linkVars>>

AttemptTimeout(c) ==
  /\ process[c] = "on"
  /\ clientMode[c] \in Incomplete
  /\ clientMode' = [clientMode EXCEPT ![c] = "INACTIVE"]
  /\ Tell(c, "ATTEMPT_FAILED")
  /\ UNCHANGED <<process, requestedConnectionQueue, requestsMade, name,
                 serverVars, linkVars>>

ClientNoAck(c) ==
  /\ process[c] = "on"
  /\ clientMode[c] = "CONNECTED"
  /\ clientMode' = [clientMode EXCEPT ![c] = "INACTIVE"]
  /\ Tell(c, "LOST")
  /\ UNCHANGED <<process, requestedConnectionQueue, requestsMade, name,
                 serverVars, linkVars>>

-----------------------------------------------------------------------------
(* The surroundings.                                                       *)

Vanish(c) ==
  /\ process[c] = "on"
  /\ process' = [process EXCEPT ![c] = "gone"]
  /\ UNCHANGED <<requestedConnectionQueue, requestsMade, clientMode, name, told,
                 serverVars, linkVars>>

Lose(c) ==
  /\ \E m \in wire[c] : Consume(c, m)
  /\ UNCHANGED <<clientVars, serverVars, up, down>>

Step(c) ==
  \/ Connect(c) \/ SendRequest(c) \/ GiveUp(c)
  \/ HandleReply1(c) \/ HandleReply2(c) \/ HandleRefusal(c)
  \/ HandleRequest1(c) \/ HandleNewRequest2(c) \/ HandleRequest2Again(c)
  \/ ReceiveUnverified(c) \/ ReceiveNewIncoming(c) \/ ReceiveMessage(c)
  \/ ReceiveAccepted(c)
  \/ SendPlayerName(c) \/ SendBuffered(c)
  \/ SlotTimeout(c) \/ ServerNoAck(c) \/ AttemptTimeout(c) \/ ClientNoAck(c)
  \/ Vanish(c) \/ Lose(c)

HandshakeNext == \E c \in Clients : Step(c)

\* The threads run, and deadlines pass.  A connection whose other end is no
\* more is not acknowledged; of any other nothing is assumed.
HandshakeFairness ==
  \A c \in Clients :
    /\ WF_handshakeVars(SendRequest(c) \/ GiveUp(c))
    /\ WF_handshakeVars(Lose(c))
    /\ WF_handshakeVars(SlotTimeout(c))
    /\ WF_handshakeVars(AttemptTimeout(c))
    /\ WF_handshakeVars(serverMode[c] = "INACTIVE" /\ ClientNoAck(c))
    /\ WF_handshakeVars(process[c] = "gone" /\ ServerNoAck(c))

HandshakeSpec ==
  HandshakeInit /\ [][HandshakeNext]_handshakeVars /\ HandshakeFairness

-----------------------------------------------------------------------------
\* Nobody who plays by the protocol is banned: a slot that knows nothing of
\* its client never gets a message that follows a connection request, which
\* is what would happen if a REQUEST_2 sent again opened a second slot behind
\* the first.  (RakPeer.cpp, RunUpdateCycle: "sending nonsense data".)
NobodyBanned == banList = {}

\* What the two programs are told is what Net takes for granted: the server
\* hears of a client once, and before the client's name.
Promised == INSTANCE Sessions

ImplementsSessions == Promised!SessionsSpec

\* Whoever asks is told of a failure or is made known to the server's
\* program; nobody waits for ever.  (The deadlines of RunUpdateCycle.)
Failed(c) == told[c] # << >> /\ told[c][Len(told[c])] # "ACCEPTED"

EveryAttemptEnds ==
  \A c \in Clients :
    Asking(c) ~> Failed(c) \/ heard[c] # << >> \/ process[c] = "gone"

\* A handshake does not hold a slot of the server for ever.
SlotsComeFree ==
  \A c \in Clients :
    c \in ActiveSlots ~> serverMode[c] \in {"INACTIVE", "CONNECTED"}
=============================================================================
