-------------------------------- MODULE Deck --------------------------------
(***************************************************************************)
(* The class Deck: an array of distinct cards, shuffled by random swaps    *)
(* when it is made and again when it runs out.  The server keeps one deck  *)
(* in use for ever (activeDeck is always 0): a deck runs out in the middle *)
(* of a game, and cards on the table are shuffled back in.                 *)
(*                                                                         *)
(* rand() may give any two positions.  Shuffle is one step for each swap;  *)
(* inCall says that the shuffle happens inside NextCard, which returns a   *)
(* card when it is over.                                                   *)
(***************************************************************************)
EXTENDS Integers

CONSTANTS
  DeckSize, \* 52
  Swaps     \* 150

ASSUME DeckAssumption ==
  /\ DeckSize \in Nat \ {0}
  /\ Swaps \in Nat

VARIABLES
  cards,       \* cards[i]: the card, a number given by GenerateSuit
  currentCard, \* index of the card dealt last
  count,       \* swaps left in the current Shuffle
  inCall,
  dealt        \* history: cards dealt since the last shuffle

deckVars == <<cards, currentCard, count, inCall, dealt>>

Positions == 0..(DeckSize - 1)

DeckTypeOK ==
  /\ cards \in [Positions -> Positions]
  /\ currentCard \in -1..(DeckSize - 1)
  /\ count \in 0..Swaps
  /\ inCall \in BOOLEAN
  /\ dealt \subseteq Positions

\* The four calls of GenerateSuit fill the array with different cards; the
\* constructor then begins to shuffle.
DeckInit ==
  /\ cards = [i \in Positions |-> i]
  /\ currentCard = -1
  /\ count = Swaps
  /\ inCall = FALSE
  /\ dealt = {}

NoTemp(i, j) == [cards EXCEPT ![i] = cards[j]]  \* mutant: temp is not written back
Swapped(i, j) == [cards EXCEPT ![i] = cards[j], ![j] = cards[i]]

Swap ==
  /\ count > 0
  /\ \E i, j \in Positions : cards' = Swapped(i, j)
  /\ count' = count - 1
  /\ UNCHANGED <<currentCard, inCall, dealt>>

RunsOutEarly == currentCard + 1 >= DeckSize - 1 \* mutant: the last card is never dealt
RunsOutLate  == currentCard + 1 > DeckSize      \* mutant: one past the end is dealt
RunsOut == currentCard + 1 > DeckSize - 1

SameIndex == IF currentCard < 0 THEN 0 ELSE currentCard \* mutant: not incremented
NextIndex == currentCard + 1

\* NextCard up to the return.
NextCard ==
  /\ count = 0
  /\ ~inCall
  /\ inCall' = TRUE
  /\ IF RunsOut
     THEN /\ currentCard' = 0
          /\ count' = Swaps
          /\ dealt' = {}
     ELSE /\ currentCard' = NextIndex
          /\ UNCHANGED <<count, dealt>>
  /\ UNCHANGED cards

Return ==
  /\ count = 0
  /\ inCall
  /\ inCall' = FALSE
  /\ dealt' = dealt \cup {cards[currentCard]}
  /\ UNCHANGED <<cards, currentCard, count>>

DeckNext == Swap \/ NextCard \/ Return

DeckSpec == DeckInit /\ [][DeckNext]_deckVars

-----------------------------------------------------------------------------
\* Shuffling loses no card and makes no second one.  (Shuffle's swaps.)
AllDifferent == \A i, j \in Positions : cards[i] = cards[j] => i = j

\* Between two shuffles no card is dealt twice: the card NextCard is about to
\* return has not been dealt.  (currentCard, and Shuffle only on running out.)
DealsNoCardTwice == inCall /\ count = 0 => cards[currentCard] \notin dealt

\* A deck is shuffled only when every card of it has been dealt.
DealsEveryCard ==
  [][~inCall /\ inCall' /\ count' > 0 => dealt = Positions]_deckVars
=============================================================================
