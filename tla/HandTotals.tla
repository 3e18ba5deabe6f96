----------------------------- MODULE HandTotals -----------------------------
(***************************************************************************)
(* A blackjack hand as the rest of the server sees it: how many cards were *)
(* added since the last ClearHand, and the two sums Hand::GetValue adds up *)
(* (every ace as 1, every ace as 11).  The suit and the name of a card are *)
(* only printed and are left out; a card is its value, 2..11, an ace being *)
(* 11 (Card::SetValue).  Module Hand keeps the cards themselves, as the    *)
(* array in Hand.h does, and is checked to implement these totals.         *)
(***************************************************************************)
EXTENDS Integers

CardValues == 2..11

HandType == [count: Nat, low: Nat, high: Nat]

Cleared == [count |-> 0, low |-> 0, high |-> 0]

AceLow(v) == IF v = 11 THEN 1 ELSE v

AddCard(h, v) == [count |-> h.count + 1,
                  low   |-> h.low + AceLow(v),
                  high  |-> h.high + v]

GetValueBelow21(h) == IF h.high >= 21 THEN h.low ELSE h.high \* mutant: >= for >

\* The aces all count 11 or all count 1: GetValue never mixes the two.
GetValue(h) == IF h.high > 21 THEN h.low ELSE h.high

CheckBust(h) == GetValue(h) > 21
=============================================================================
