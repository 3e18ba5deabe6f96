------------------------------ MODULE Dealing -------------------------------
(***************************************************************************)
(* Hands dealt from the deck.  One hand is watched; what the deck gives to *)
(* the dealer and to the other players only leaves the deck.  No hand is   *)
(* cleared when the deck is shuffled, so a card lying on the table may be  *)
(* dealt again in the same game.                                           *)
(***************************************************************************)
EXTENDS Deck, HandTotals

CONSTANTS
  Face,     \* the value of each card of the deck
  Capacity, \* Hand.h: Card cards[52]
  MaxCards, \* bound: cards drawn to the watched hand
  MaxShuffles \* bound: times the deck runs out in one game

VARIABLES
  inHand,    \* the hand's own array of cards
  cardCount,
  held,      \* history: the values in the hand, as module Hand keeps them
  drawn,     \* history: drawn[c], how often c was drawn to this hand
  reshuffles \* history: times the deck ran out since this hand was cleared

dealingVars == <<deckVars, inHand, cardCount, held, drawn, reshuffles>>

ASSUME DealingAssumption ==
  /\ Face \in [Positions -> CardValues]
  /\ Capacity \in Nat \ {0}
  /\ MaxCards \in 0..Capacity

hand == INSTANCE Hand WITH cards <- inHand,
                           Ranks <- {Face[c] : c \in Positions}

DealingInit ==
  /\ DeckInit
  /\ hand!HandInit
  /\ drawn = [c \in Positions |-> 0]
  /\ reshuffles = 0

Shuffling ==
  /\ Swap
  /\ UNCHANGED <<inHand, cardCount, held, drawn, reshuffles>>

\* NextCard is called for this hand or for another.
CallNextCard ==
  /\ NextCard
  /\ RunsOut => reshuffles < MaxShuffles
  /\ reshuffles' = IF RunsOut THEN reshuffles + 1 ELSE reshuffles
  /\ UNCHANGED <<inHand, cardCount, held, drawn>>

\* DrawPlayer: the card returned goes to the watched hand ...
DrawPlayer ==
  /\ Return
  /\ LET c == cards[currentCard]
     IN  /\ hand!Add(Face[c])
         /\ drawn' = [drawn EXCEPT ![c] = @ + 1]
  /\ UNCHANGED reshuffles

\* ... or to another one.
DrawOther ==
  /\ Return
  /\ UNCHANGED <<inHand, cardCount, held, drawn, reshuffles>>

\* StartGame clears the hands and leaves the deck as it is.
NewGame ==
  /\ count = 0
  /\ ~inCall
  /\ hand!ClearHand
  /\ drawn' = [c \in Positions |-> 0]
  /\ reshuffles' = 0
  /\ UNCHANGED deckVars

DealingNext == Shuffling \/ CallNextCard \/ DrawPlayer \/ DrawOther \/ NewGame

DealingSpec == DealingInit /\ [][DealingNext]_dealingVars

-----------------------------------------------------------------------------
HandTypeOK == hand!HandTypeOK
BustByTheRules == hand!BustByTheRules
ValueByTheRules == hand!ValueByTheRules
ImplementsTotals == hand!ImplementsTotals

\* A hand holds a card a second time only if the deck ran out while the hand
\* was being drawn, and never more often than that: all that the shuffle in
\* the middle of a game can put back into a hand.  (Deck::NextCard, DrawPlayer.)
TwiceOnlyAfterShuffle == \A c \in Positions : drawn[c] <= 1 + reshuffles
=============================================================================
