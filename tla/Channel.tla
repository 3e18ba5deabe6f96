------------------------------ MODULE Channel -------------------------------
(***************************************************************************)
(* What one direction of a RakNet connection promises the program that     *)
(* uses it: while the connection is open every message that was sent       *)
(* arrives, once; those sent RELIABLE_ORDERED arrive in the order in which *)
(* they were sent, those sent RELIABLE at any time.  When the connection   *)
(* breaks, some of what was on its way may still arrive.  There are no     *)
(* datagrams, numbers or acknowledgements here; Reliability implements it, *)
(* and module Net takes it for granted for the messages of the game, which *)
(* are all RELIABLE_ORDERED.                                               *)
(***************************************************************************)
EXTENDS Naturals, Sequences

VARIABLES
  mail,     \* mail[i]: whether the i-th message sent is an ordered one
  arrived,  \* the messages the receiving program has taken
  open      \* whether the connection still stands

channelVars == <<mail, arrived, open>>

ChannelInit ==
  /\ mail = << >>
  /\ arrived = {}
  /\ open = TRUE

Post ==
  /\ open
  /\ \E ordered \in BOOLEAN : mail' = Append(mail, ordered)
  /\ UNCHANGED <<arrived, open>>

Arrive(i) ==
  /\ i \notin arrived
  /\ mail[i] => \A j \in 1..(i - 1) : mail[j] => j \in arrived
  /\ arrived' = arrived \cup {i}
  /\ UNCHANGED <<mail, open>>

Break ==
  /\ open
  /\ open' = FALSE
  /\ UNCHANGED <<mail, arrived>>

ChannelNext == Post \/ Break \/ \E i \in DOMAIN mail : Arrive(i)

ChannelSpec == ChannelInit /\ [][ChannelNext]_channelVars
=============================================================================
