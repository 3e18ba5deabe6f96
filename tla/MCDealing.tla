----------------------------- MODULE MCDealing ------------------------------
(* A small deck for model checking Dealing: two aces, a ten, a nine.       *)
EXTENDS Dealing

TwoAces == [c \in Positions |-> CASE c <= 1 -> 11 [] c = 2 -> 10 [] OTHER -> 9]
=============================================================================
