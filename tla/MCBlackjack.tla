---------------------------- MODULE MCBlackjack -----------------------------
(* Values for model checking Blackjack.                                    *)
EXTENDS TableRefinement, Claims, TLC

CONSTANTS a, b, c

\* Every user types a name of their own.
OwnName == [x \in Clients |-> x]

Interchangeable == Permutations(Clients)
=============================================================================
