----------------------------- MODULE TurnOrder ------------------------------
(***************************************************************************)
(* Blackjack with a record of the turns that are over: whose 'stand' the   *)
(* server has acted on since the last showdown, in that order.  It says    *)
(* what the server's index alone cannot: whose answers moved it.  The      *)
(* record takes no part in the game; without it these are the behaviours   *)
(* of Blackjack.                                                           *)
(***************************************************************************)
EXTENDS TableRefinement

VARIABLE stood \* history: the clients that have stood in this game, in order

turnVars == <<vars, stood>>

\* The server acts on a 'stand' of client c, whoever's turn it is.
ActsOnStand(c) == Stand(c) /\ UNCHANGED <<clientVars, restarts, consent>>

Settles == Showdown /\ consent' = {} /\ UNCHANGED <<clientVars, restarts>>

TurnInit == Init /\ stood = << >>

TurnNext ==
  \/ \E c \in Clients : ActsOnStand(c) /\ stood' = Append(stood, c)
  \/ Settles /\ stood' = << >>
  \/ /\ Next
     /\ ~Settles /\ \A c \in Clients : ~ActsOnStand(c)
     /\ UNCHANGED stood

TurnSpec == TurnInit /\ [][TurnNext]_turnVars

-----------------------------------------------------------------------------
\* In every game each player, newcomers included, stands once, in the order of
\* the seats: those who have stood are the first of the table, whoever has a
\* request, a prompt or an answer under way is the next, and the dealer draws
\* when all have.  The server looks neither at who sends a 'stand' nor at
\* whether the sender has stood before, and counts to a size of the vector
\* that grows meanwhile (SetHitStandRecieved, main.cpp:427-456).
TurnsGoRound ==
  /\ Len(stood) <= Len(players)
  /\ \A i \in DOMAIN stood : stood[i] = players[i].client
  /\ \A c \in Clients :
       MovePending(c) => /\ Len(stood) < Len(players)
                         /\ players[Len(stood) + 1].client = c
  /\ serverPc = "dealer" => Len(stood) = Len(players)
=============================================================================
