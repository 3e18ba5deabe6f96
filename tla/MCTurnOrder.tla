---------------------------- MODULE MCTurnOrder -----------------------------
(* Values for model checking TurnOrder.                                    *)
EXTENDS TurnOrder, MCBlackjack
=============================================================================
