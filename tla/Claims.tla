------------------------------- MODULE Claims -------------------------------
(***************************************************************************)
(* What comments and prompts in the source say of the program, as          *)
(* properties of the model.  The code does otherwise; a run produces the   *)
(* behaviour that shows it.                                                *)
(***************************************************************************)
EXTENDS Blackjack

\* main.cpp:758 "ask if another game should be played": every player still
\* connected is asked, by "end", when a showdown is over.  (CheckWins.)
EveryoneAskedAgain ==
  [][serverPc = "dealer" /\ serverPc' = "ignore" =>
       \A c \in Seated : conn[c] = "on" =>
         toClient'[c][Len(toClient'[c])] = Plain("END")]_vars
=============================================================================
