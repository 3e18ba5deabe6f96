-------------------------- MODULE TableRefinement ---------------------------
(***************************************************************************)
(* Blackjack implements RoundTable.  The mapping reads a seat's status off *)
(* currentPlayer, GameInProgress and the place of the server's thread; the *)
(* bet, which GameLoop takes when the turn begins, is still the player's   *)
(* money until the showdown.                                               *)
(***************************************************************************)
EXTENDS Blackjack

SeatStatus(i) ==
  IF ~GameInProgress THEN "idle"
  ELSE IF i - 1 > currentPlayer THEN "waiting"
  ELSE IF i - 1 = currentPlayer /\ serverPc = "loop" THEN "playing"
  ELSE "done"

SeatOf(i) ==
  [status |-> SeatStatus(i),
   hand   |-> players[i].hand,
   money  |-> players[i].score + IF GameInProgress THEN players[i].currentBet ELSE 0]

PhaseOf == IF ~GameInProgress THEN "lobby"
           ELSE IF serverPc = "dealer" THEN "dealer" ELSE "play"

SeatList == [i \in 1..Len(players) |-> SeatOf(i)]

Table == INSTANCE RoundTable WITH
           entryMoney <- startingScore,
           stake <- betScore,
           phase <- PhaseOf,
           table <- SeatList,
           house <- dealer

\* Every step of the server that changes a hand, a turn or a score is a step
\* of the table, and nothing else is: a client's answer that came late, twice
\* or from a player who is not to move would not be one.
ImplementsTable == Table!TableSpec
=============================================================================
