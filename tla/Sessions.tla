------------------------------ MODULE Sessions ------------------------------
(***************************************************************************)
(* What RakNet tells the two programs about a connection, and in which     *)
(* order: the promise that module Net builds on.  A client is told that it *)
(* was accepted, or why not.  The server is told of a client once, after   *)
(* the client was accepted and before any message of the client; nothing   *)
(* of the client comes after the loss of the connection; and at no time    *)
(* are there more clients than the server allows.  Either side may lose    *)
(* the connection without the other noticing, and a client may be accepted *)
(* of which the server is never told.                                      *)
(***************************************************************************)
EXTENDS Naturals, Sequences, FiniteSets

CONSTANTS
  Clients,
  MAX_PLAYERS

VARIABLES
  told, \* told[c]: the packets about the connection that c has received
  heard \* heard[c]: the packets of c that the server has received

sessionVars == <<told, heard>>

SessionsInit ==
  /\ told = [c \in Clients |-> << >>]
  /\ heard = [c \in Clients |-> << >>]

Present == {c \in Clients : heard[c] # << >> /\ heard[c][Len(heard[c])] # "LOST"}

Tell(c, m) ==
  /\ told' = [told EXCEPT ![c] = Append(@, m)]
  /\ UNCHANGED heard

Hear(c, m) ==
  /\ heard' = [heard EXCEPT ![c] = Append(@, m)]
  /\ UNCHANGED told

Accept(c) == told[c] = << >> /\ Tell(c, "ACCEPTED")

Refuse(c) ==
  /\ told[c] = << >>
  /\ \E why \in {"ATTEMPT_FAILED", "NO_FREE"} : Tell(c, why)

ClientLoses(c) == told[c] = <<"ACCEPTED">> /\ Tell(c, "LOST")

Announce(c) ==
  /\ heard[c] = << >>
  /\ told[c] # << >> /\ told[c][1] = "ACCEPTED"
  /\ Cardinality(Present) < MAX_PLAYERS
  /\ Hear(c, "NEW")

Message(c) == heard[c] = <<"NEW">> /\ Hear(c, "NAME")

ServerLoses(c) == c \in Present /\ Hear(c, "LOST")

SessionsNext ==
  \E c \in Clients : \/ Accept(c) \/ Refuse(c) \/ ClientLoses(c)
                     \/ Announce(c) \/ Message(c) \/ ServerLoses(c)

SessionsSpec == SessionsInit /\ [][SessionsNext]_sessionVars
=============================================================================
