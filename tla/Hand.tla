-------------------------------- MODULE Hand --------------------------------
(***************************************************************************)
(* The class Hand: an array of cards of fixed size and the number of those *)
(* in use.  ClearHand resets the number alone, so cards of earlier games   *)
(* stay in the array behind it; GetValue adds up the cards in use.         *)
(***************************************************************************)
EXTENDS HandTotals, FiniteSetsExt

CONSTANTS
  Capacity, \* Hand.h: Card cards[52]
  Ranks,    \* the card values added
  MaxCards  \* bound: cards added to one hand, so that the array suffices

VARIABLES
  cards,     \* the array, indexed from 0
  cardCount,
  held       \* history: held[v], how many cards of value v since ClearHand

handVars == <<cards, cardCount, held>>

HandTypeOK ==
  /\ cards \in [0..(Capacity - 1) -> CardValues]
  /\ cardCount \in 0..Capacity
  /\ held \in [CardValues -> Nat]

\* Every element starts as Card(), the ace of diamonds.
HandInit ==
  /\ cards = [i \in 0..(Capacity - 1) |-> 11]
  /\ cardCount = 0
  /\ held = [v \in CardValues |-> 0]

KeepCount == UNCHANGED cardCount  \* mutant: the reset is forgotten
ResetToMinusOne == cardCount' = -1 \* mutant: reset as Deck's currentCard is
ResetCount == cardCount' = 0

ClearHand ==
  /\ ResetCount
  /\ UNCHANGED cards
  /\ held' = [v \in CardValues |-> 0]

Add(v) ==
  /\ cardCount < MaxCards
  /\ cardCount' = cardCount + 1
  /\ cards' = [cards EXCEPT ![cardCount' - 1] = v]
  /\ held' = [held EXCEPT ![v] = @ + 1]

\* GetValue's loop: what has been added up of a after n rounds.
LoopSum(a, n) ==
  LET sum[i \in Nat] == IF i = 0 THEN 0 ELSE sum[i - 1] + a[i - 1]
  IN  sum[n]

OneTooMany ==  \* mutant: i <= cardCount
  IF cardCount < Capacity THEN cardCount + 1 ELSE cardCount
InUse == cardCount

Totals == [count |-> cardCount,
           low   |-> LoopSum([i \in DOMAIN cards |-> AceLow(cards[i])], InUse),
           high  |-> LoopSum(cards, InUse)]

HandValue == GetValue(Totals)

-----------------------------------------------------------------------------
(* What a hand is worth by the rules: each ace counts 1 or 11.             *)

Worth == [v \in 0..11 |-> IF v \in CardValues THEN held[v] * AceLow(v) ELSE 0]
Hard == LoopSum(Worth, 12)
Aces == held[11]
Counts == {Hard + 10 * k : k \in 0..Aces}
Best == IF Hard > 21 THEN Hard ELSE Max({n \in Counts : n <= 21})

\* The hand busts exactly when the rules say so, whatever cards of earlier
\* games the array still holds.  (GetValue and CheckBust.)
BustByTheRules == CheckBust(Totals) <=> Best > 21

\* GetValue never gives more than the rules do, and gives just that unless
\* there are two aces of which the rules would count one as 11.
ValueByTheRules ==
  /\ HandValue <= Best
  /\ Aces <= 1 => HandValue = Best
  /\ HandValue # Best => Aces >= 2 /\ HandValue = Hard

\* Adding a card to the array adds it to the totals the server's model keeps,
\* and nothing but ClearHand empties them.
ImplementsTotals ==
  [][\/ Totals' = Cleared
     \/ \E v \in Ranks : Totals' = AddCard(Totals, v)]_handVars
=============================================================================
