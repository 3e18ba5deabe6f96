--------------------------- MODULE DealingTheorems ---------------------------
(***************************************************************************)
(* What dealing promises for a deck and hands of any size.  The deck       *)
(* itself comes first: shuffled by any number of swaps it keeps its cards, *)
(* and deals each of them once between two shuffles.  Then what a hand is  *)
(* worth: the sums of the loop in Hand::GetValue, by induction on its      *)
(* rounds, against the rules.                                              *)
(***************************************************************************)
EXTENDS Dealing, WellFoundedInduction, TLAPS

\* The cards dealt since the last shuffle are those up to currentCard; the
\* one NextCard has moved to and not yet returned is not among them.
IsDealt(i) == i < currentCard \/ (i = currentCard /\ ~inCall)

DeckInv ==
  /\ DeckTypeOK
  /\ AllDifferent
  /\ \A i \in Positions : cards[i] \in dealt <=> IsDealt(i)
  /\ count > 0 => currentCard = (IF inCall THEN 0 ELSE -1)
  /\ inCall => currentCard >= 0

LEMMA InitDeckInv == DeckInit => DeckInv
<1> SUFFICES ASSUME DeckInit PROVE DeckInv
  OBVIOUS
<1>1. DeckTypeOK
  <2>1. cards \in [Positions -> Positions] /\ dealt \subseteq Positions
    BY DEF DeckInit
  <2>2. currentCard \in -1..(DeckSize - 1) /\ count \in 0..Swaps
    BY DeckAssumption DEF DeckInit
  <2>3. inCall \in BOOLEAN
    BY DEF DeckInit
  <2>4. QED
    BY <2>1, <2>2, <2>3 DEF DeckTypeOK
<1>2. AllDifferent
  BY DEF DeckInit, AllDifferent
<1>3. \A i \in Positions : cards[i] \in dealt <=> IsDealt(i)
  BY DeckAssumption DEF DeckInit, IsDealt, Positions
<1>4. QED
  BY <1>1, <1>2, <1>3 DEF DeckInit, DeckInv

LEMMA SwapKeepsDeckInv == DeckInv /\ Swap => DeckInv'
<1> SUFFICES ASSUME DeckInv, Swap PROVE DeckInv'
  OBVIOUS
<1> USE DeckAssumption DEF DeckInv, DeckTypeOK, Positions
<1>1. PICK i, j \in Positions : cards' = Swapped(i, j)
  BY DEF Swap
<1>2. cards' \in [Positions -> Positions]
  BY <1>1 DEF Swapped
<1>3. AllDifferent'
  BY <1>1 DEF AllDifferent, Swapped
<1>4. \A k \in Positions : ~IsDealt(k) /\ cards[k] \notin dealt
  <2>1. currentCard = (IF inCall THEN 0 ELSE -1)
    BY DEF Swap
  <2>2. \A k \in Positions : ~IsDealt(k)
    BY <2>1 DEF IsDealt
  <2>3. QED
    BY <2>2
<1>5. \A k \in Positions : ~IsDealt(k)' /\ cards'[k] \notin dealt'
  <2>1. \A k \in Positions : cards'[k] \notin dealt
    BY <1>1, <1>4 DEF Swapped
  <2>2. UNCHANGED <<currentCard, inCall, dealt>>
    BY DEF Swap
  <2>3. QED
    BY <1>4, <2>1, <2>2 DEF IsDealt
<1>6. DeckTypeOK'
  <2>1. count' \in 0..Swaps
    BY DEF Swap
  <2>2. UNCHANGED <<currentCard, inCall, dealt>>
    BY DEF Swap
  <2>3. QED
    BY <1>2, <2>1, <2>2
<1>7. QED
  BY <1>3, <1>5, <1>6 DEF Swap

LEMMA NextCardKeepsDeckInv == DeckInv /\ NextCard => DeckInv'
<1> SUFFICES ASSUME DeckInv, NextCard PROVE DeckInv'
  OBVIOUS
<1> USE DeckAssumption DEF DeckInv, DeckTypeOK, Positions
<1>1. AllDifferent'
  BY DEF NextCard, AllDifferent
<1>2. DeckTypeOK'
  <2>1. currentCard' \in -1..(DeckSize - 1) /\ count' \in 0..Swaps
    <3>1. count' \in 0..Swaps
      BY DEF NextCard
    <3>2. currentCard' \in -1..(DeckSize - 1)
      BY DEF NextCard, RunsOut, NextIndex
    <3>3. QED
      BY <3>1, <3>2
  <2>2. inCall' \in BOOLEAN
    BY DEF NextCard
  <2>3. cards' \in [Positions -> Positions] /\ dealt' \subseteq Positions
    BY DEF NextCard
  <2>4. QED
    BY <2>1, <2>2, <2>3
<1>3. \A i \in Positions : (cards[i] \in dealt)' <=> IsDealt(i)'
  <2>1. CASE RunsOut
    BY <2>1 DEF NextCard, IsDealt
  <2>2. CASE ~RunsOut
    BY <2>2 DEF NextCard, IsDealt, NextIndex
  <2>3. QED
    BY <2>1, <2>2
<1>4. inCall' /\ currentCard' >= 0 /\ (count' > 0 => currentCard' = 0)
  <2>1. CASE RunsOut
    BY <2>1 DEF NextCard
  <2>2. CASE ~RunsOut
    BY <2>2 DEF NextCard, NextIndex
  <2>3. QED
    BY <2>1, <2>2
<1>5. QED
  BY <1>1, <1>2, <1>3, <1>4

LEMMA ReturnKeepsDeckInv == DeckInv /\ Return => DeckInv'
<1> SUFFICES ASSUME DeckInv, Return PROVE DeckInv'
  OBVIOUS
<1> USE DeckAssumption DEF DeckInv, DeckTypeOK, Positions
<1>1. currentCard \in Positions
  BY DEF Return
<1>2. DeckTypeOK'
  <2>1. inCall' \in BOOLEAN
    BY DEF Return
  <2>2. dealt' \subseteq Positions
    BY <1>1 DEF Return
  <2>3. UNCHANGED <<cards, currentCard, count>>
    BY DEF Return
  <2>4. QED
    BY <2>1, <2>2, <2>3
<1>3. \A i \in Positions : (cards[i] \in dealt)' <=> IsDealt(i)'
  BY <1>1 DEF Return, IsDealt, AllDifferent
<1>4. QED
  BY <1>2, <1>3 DEF Return, AllDifferent

\* DeckInv holds in every state of a deck.
THEOREM DeckInvariant == DeckSpec => []DeckInv
<1>1. DeckInv /\ [DeckNext]_deckVars => DeckInv'
  <2> SUFFICES ASSUME DeckInv, [DeckNext]_deckVars PROVE DeckInv'
    OBVIOUS
  <2>1. CASE UNCHANGED deckVars
    BY <2>1 DEF deckVars, DeckInv, DeckTypeOK, AllDifferent, IsDealt
  <2>2. QED
    BY <2>1, SwapKeepsDeckInv, NextCardKeepsDeckInv, ReturnKeepsDeckInv
       DEF DeckNext
<1>2. QED
  BY <1>1, InitDeckInv, PTL DEF DeckSpec

\* Shuffling neither loses nor doubles a card.  (Deck::Shuffle.)
THEOREM ShuffleKeepsCards == DeckSpec => []AllDifferent
  BY DeckInvariant, PTL DEF DeckInv

\* Between two shuffles no card is dealt twice.  (Deck::NextCard.)
THEOREM NoCardTwice == DeckSpec => []DealsNoCardTwice
<1>1. DeckInv => DealsNoCardTwice
  BY DeckAssumption
     DEF DeckInv, DeckTypeOK, DealsNoCardTwice, AllDifferent, IsDealt, Positions
<1>2. QED
  BY <1>1, DeckInvariant, PTL

-----------------------------------------------------------------------------
\* Dealing does with the deck what module Deck says, whatever hand the cards
\* go to, so all that is proved of Deck holds of it.
THEOREM DealsFromDeck == DealingSpec => DeckSpec
<1>1. DealingInit => DeckInit
  BY DEF DealingInit
<1>2. [DealingNext]_dealingVars => [DeckNext]_deckVars
  BY DEF DealingNext, Shuffling, CallNextCard, DrawPlayer, DrawOther, NewGame,
         DeckNext, dealingVars
<1>3. QED
  BY <1>1, <1>2, PTL DEF DealingSpec, DeckSpec

\* A card dealt since the last shuffle may have come to the hand once more
\* than the deck was shuffled; any other card may not.
DrawnInv ==
  /\ drawn \in [Positions -> Nat]
  /\ reshuffles \in Nat
  /\ \A c \in Positions :
       drawn[c] <= (IF c \in dealt THEN reshuffles + 1 ELSE reshuffles)

LEMMA DrawPlayerKeepsDrawnInv == DrawnInv /\ DeckInv /\ DrawPlayer => DrawnInv'
<1> SUFFICES ASSUME DrawnInv, DeckInv, DrawPlayer PROVE DrawnInv'
  OBVIOUS
<1> DEFINE d == cards[currentCard]
<1>1. /\ drawn' = [drawn EXCEPT ![d] = @ + 1]
      /\ dealt' = dealt \cup {d}
      /\ reshuffles' = reshuffles
  BY DEF DrawPlayer, Return
<1>2. d \in Positions /\ d \notin dealt
  <2>1. currentCard \in Positions
    BY DeckAssumption DEF DeckInv, DeckTypeOK, DrawPlayer, Return, Positions
  <2>2. QED
    BY <2>1 DEF DeckInv, DeckTypeOK, DrawPlayer, Return, IsDealt
<1> HIDE DEF d
<1>3. drawn' \in [Positions -> Nat]
  BY <1>1, <1>2 DEF DrawnInv
<1>4. ASSUME NEW c \in Positions
      PROVE  drawn'[c] <= (IF c \in dealt' THEN reshuffles' + 1 ELSE reshuffles')
  BY <1>1, <1>2 DEF DrawnInv
<1>5. QED
  BY <1>1, <1>3, <1>4 DEF DrawnInv

LEMMA StepKeepsDrawnInv ==
  DrawnInv /\ DeckInv /\ [DealingNext]_dealingVars => DrawnInv'
<1> SUFFICES ASSUME DrawnInv, DeckInv, [DealingNext]_dealingVars PROVE DrawnInv'
  OBVIOUS
<1>1. CASE Shuffling
  BY <1>1 DEF Shuffling, Swap, DrawnInv
<1>2. CASE CallNextCard
  BY <1>2 DEF CallNextCard, NextCard, DrawnInv
<1>3. CASE DrawOther
  BY <1>3 DEF DrawOther, Return, DrawnInv
<1>4. CASE NewGame
  BY <1>4 DEF NewGame, deckVars, DrawnInv
<1>5. CASE UNCHANGED dealingVars
  BY <1>5 DEF dealingVars, deckVars, DrawnInv
<1>6. QED
  BY <1>1, <1>2, <1>3, <1>4, <1>5, DrawPlayerKeepsDrawnInv DEF DealingNext

\* A hand holds no card more often than the deck ran out while it was drawn,
\* and once.  (Deck::NextCard, DrawPlayer, StartGame.)
THEOREM HandsHoldCardsOnce == DealingSpec => []TwiceOnlyAfterShuffle
<1>1. DealingInit => DrawnInv
  BY DEF DealingInit, DrawnInv
<1>2. DrawnInv => TwiceOnlyAfterShuffle
  BY DEF DrawnInv, TwiceOnlyAfterShuffle
<1>3. QED
  BY <1>1, <1>2, StepKeepsDrawnInv, DealsFromDeck, DeckInvariant, PTL
     DEF DealingSpec

\* Every variable of the deck keeps its type while hands are dealt from it.
\* (Deck.h, Deck::Shuffle, Deck::NextCard.)
THEOREM DeckTypeCorrect == DealingSpec => []DeckTypeOK
<1>1. DeckInv => DeckTypeOK
  BY DEF DeckInv
<1>2. QED
  BY <1>1, DealsFromDeck, DeckInvariant, PTL

\* Module Hand has its own copy of the card values.
LEMMA SameValues == hand!CardValues = CardValues
  BY DEF CardValues, hand!CardValues

LEMMA FacesAreValues == \A c \in Positions : Face[c] \in CardValues
  BY DealingAssumption

\* The array has room for the next card, and the card goes into the place
\* after those in use.
LEMMA AddKeepsHandType ==
  ASSUME NEW v \in CardValues, HandTypeOK, hand!Add(v)
  PROVE  HandTypeOK'
<1> USE DealingAssumption
<1>1. cardCount \in 0..Capacity /\ held \in [CardValues -> Nat]
      /\ inHand \in [0..(Capacity - 1) -> CardValues]
  BY SameValues DEF HandTypeOK, hand!HandTypeOK
<1>2. cardCount < MaxCards /\ cardCount' = cardCount + 1
  BY DEF hand!Add
<1>3. cardCount' \in 0..Capacity
  BY <1>1, <1>2
<1>4. inHand' \in [0..(Capacity - 1) -> CardValues]
  <2>1. inHand' = [inHand EXCEPT ![cardCount' - 1] = v]
    BY DEF hand!Add
  <2>2. QED
    BY <1>1, <2>1
<1>5. held' \in [CardValues -> Nat]
  <2>1. held' = [held EXCEPT ![v] = @ + 1]
    BY DEF hand!Add
  <2>2. QED
    BY <1>1, <2>1
<1>6. QED
  BY <1>3, <1>4, <1>5, SameValues DEF HandTypeOK, hand!HandTypeOK

LEMMA StepKeepsHandType ==
  HandTypeOK /\ DeckInv /\ [DealingNext]_dealingVars => HandTypeOK'
<1> SUFFICES ASSUME HandTypeOK, DeckInv, [DealingNext]_dealingVars
             PROVE  HandTypeOK'
  OBVIOUS
<1>1. CASE UNCHANGED <<inHand, cardCount, held>>
  BY <1>1 DEF HandTypeOK, hand!HandTypeOK
<1>2. CASE DrawPlayer
  <2>1. currentCard \in Positions
    BY <1>2, DeckAssumption DEF DeckInv, DeckTypeOK, DrawPlayer, Return, Positions
  <2>2. Face[cards[currentCard]] \in CardValues
    BY <2>1, FacesAreValues DEF DeckInv, DeckTypeOK
  <2>3. hand!Add(Face[cards[currentCard]])
    BY <1>2 DEF DrawPlayer
  <2>4. QED
    BY <2>2, <2>3, AddKeepsHandType
<1>3. CASE NewGame
  <2>1. cardCount' = 0 /\ inHand' = inHand /\ held' = [v \in CardValues |-> 0]
    BY <1>3, SameValues DEF NewGame, hand!ClearHand, hand!ResetCount
  <2>2. QED
    BY <2>1, SameValues, DealingAssumption DEF HandTypeOK, hand!HandTypeOK
<1>4. QED
  BY <1>1, <1>2, <1>3
     DEF DealingNext, dealingVars, Shuffling, CallNextCard, DrawOther

\* No card is written past the end of a hand's array as long as MaxCards keeps
\* a hand within it.  (Hand::AddCard, Hand::ClearHand.)
THEOREM HandTypeCorrect == DealingSpec => []HandTypeOK
<1>1. DealingInit => HandTypeOK
  BY SameValues, DealingAssumption
     DEF DealingInit, hand!HandInit, HandTypeOK, hand!HandTypeOK, CardValues
<1>2. QED
  BY <1>1, StepKeepsHandType, DealsFromDeck, DeckInvariant, PTL DEF DealingSpec

-----------------------------------------------------------------------------
(* Sums over an array, for any number of rounds of the loop.               *)

Below == {p \in Nat \X Nat : p[1] < p[2]}

\* A property of numbers that fails somewhere fails somewhere first.
LEMMA FirstFailure ==
  ASSUME NEW T \in SUBSET Nat, T # {}
  PROVE  \E x \in T : \A y \in Nat : y < x => y \notin T
<1>1. IsWellFoundedOn(Below, Nat)
  BY NatLessThanWellFounded, Zenon DEF OpToRel, Below
<1>2. PICK x \in T : \A y \in T : ~(<<y, x>> \in Below)
  BY <1>1, WFMin
<1>3. QED
  BY <1>2 DEF Below

\* The first n + 1 values of the sum of a.
Rounds(a, n, s) ==
  s = [i \in 0..n |-> IF i = 0 THEN 0 ELSE s[i - 1] + a[i - 1]]

LEMMA RoundsValues ==
  ASSUME NEW a, NEW n \in Nat, NEW s, Rounds(a, n, s)
  PROVE  s[0] = 0 /\ \A i \in 1..n : s[i] = s[i - 1] + a[i - 1]
<1>1. ASSUME NEW i \in 0..n PROVE s[i] = IF i = 0 THEN 0 ELSE s[i - 1] + a[i - 1]
  BY DEF Rounds
<1>2. 0 \in 0..n /\ \A i \in 1..n : i \in 0..n /\ i # 0
  OBVIOUS
<1>3. QED
  BY <1>1, <1>2

LEMMA RoundsExist == ASSUME NEW a, NEW n \in Nat PROVE \E s : Rounds(a, n, s)
<1> DEFINE T == {k \in Nat : ~ \E s : Rounds(a, k, s)}
<1>1. SUFFICES ASSUME T # {} PROVE FALSE
  OBVIOUS
<1>2. PICK k \in T : \A y \in Nat : y < k => y \notin T
  BY <1>1, FirstFailure
<1>3. k # 0
  <2>1. Rounds(a, 0, [i \in 0..0 |-> 0])
    BY DEF Rounds
  <2>2. QED
    BY <1>2, <2>1
<1>4. k \in Nat /\ k - 1 \in Nat /\ k - 1 < k
  BY <1>3
<1>5. PICK s : Rounds(a, k - 1, s)
  BY <1>2, <1>4
<1>6. s[0] = 0 /\ \A i \in 1..(k - 1) : s[i] = s[i - 1] + a[i - 1]
  BY <1>4, <1>5, RoundsValues
<1> HIDE DEF T
<1> DEFINE t == [i \in 0..k |-> IF i = k THEN s[k - 1] + a[k - 1] ELSE s[i]]
<1>7. ASSUME NEW i \in 0..k PROVE t[i] = IF i = 0 THEN 0 ELSE t[i - 1] + a[i - 1]
  <2>1. CASE i = 0
    BY <1>3, <1>6, <2>1
  <2>2. CASE i = k
    BY <1>3, <1>4, <2>2
  <2>3. CASE i \in 1..(k - 1)
    <3>1. t[i] = s[i] /\ t[i - 1] = s[i - 1]
      BY <1>4, <2>3
    <3>2. QED
      BY <1>6, <2>3, <3>1
  <2>4. QED
    BY <1>4, <2>1, <2>2, <2>3
<1>8. DOMAIN t = 0..k /\ t = [i \in 0..k |-> t[i]]
  OBVIOUS
<1> HIDE DEF t
<1>9. Rounds(a, k, t)
  BY <1>7, <1>8 DEF Rounds
<1>10. QED
  BY <1>2, <1>9 DEF T

\* However many rounds are taken down, they agree.
LEMMA RoundsAgree ==
  ASSUME NEW a, NEW m \in Nat, NEW n \in Nat, NEW s, NEW t, Rounds(a, m, s), Rounds(a, n, t),
         NEW i \in Nat, i <= m, i <= n
  PROVE  s[i] = t[i]
<1> DEFINE T == {k \in Nat : k <= m /\ k <= n /\ s[k] # t[k]}
<1>1. SUFFICES ASSUME T # {} PROVE FALSE
  OBVIOUS
<1>2. PICK k \in T : \A y \in Nat : y < k => y \notin T
  BY <1>1, FirstFailure
<1>3. /\ s[0] = 0 /\ \A j \in 1..m : s[j] = s[j - 1] + a[j - 1]
      /\ t[0] = 0 /\ \A j \in 1..n : t[j] = t[j - 1] + a[j - 1]
  BY RoundsValues
<1>4. k \in Nat /\ k <= m /\ k <= n /\ s[k] # t[k]
  BY <1>2
<1>5. k # 0
  BY <1>3, <1>4
<1>6. k - 1 \in Nat /\ k - 1 < k /\ k \in 1..m /\ k \in 1..n
  BY <1>4, <1>5
<1>7. s[k - 1] = t[k - 1]
  BY <1>2, <1>4, <1>6
<1>8. QED
  BY <1>3, <1>4, <1>6, <1>7

\* Hence the sum over all rounds exists, ...
LEMMA SumExists ==
  ASSUME NEW a
  PROVE  \E f : f = [i \in Nat |-> IF i = 0 THEN 0 ELSE f[i - 1] + a[i - 1]]
<1> DEFINE s(n) == CHOOSE s : Rounds(a, n, s)
           f == [n \in Nat |-> s(n)[n]]
<1>1. ASSUME NEW n \in Nat PROVE Rounds(a, n, s(n))
  BY RoundsExist
<1> HIDE DEF s
<1>2. ASSUME NEW n \in Nat PROVE f[n] = IF n = 0 THEN 0 ELSE f[n - 1] + a[n - 1]
  <2>1. s(n)[0] = 0 /\ \A i \in 1..n : s(n)[i] = s(n)[i - 1] + a[i - 1]
    BY <1>1, RoundsValues
  <2>2. CASE n = 0
    BY <2>1, <2>2
  <2>3. CASE n # 0
    <3>1. n - 1 \in Nat /\ n \in 1..n /\ n - 1 <= n - 1 /\ n - 1 <= n
      BY <2>3
    <3>2. Rounds(a, n - 1, s(n - 1)) /\ Rounds(a, n, s(n))
      BY <1>1, <3>1
    <3>3. s(n)[n - 1] = s(n - 1)[n - 1]
      BY <3>1, <3>2, RoundsAgree
    <3>4. f[n] = s(n)[n] /\ f[n - 1] = s(n - 1)[n - 1]
      BY <3>1
    <3>5. s(n)[n] = s(n)[n - 1] + a[n - 1]
      BY <2>1, <3>1
    <3>6. QED
      BY <2>3, <3>3, <3>4, <3>5
  <2>4. QED
    BY <2>2, <2>3
<1>3. f = [n \in Nat |-> f[n]]
  OBVIOUS
<1> HIDE DEF f
<1>4. f = [n \in Nat |-> IF n = 0 THEN 0 ELSE f[n - 1] + a[n - 1]]
  BY <1>2, <1>3
<1>5. QED
  BY <1>4

\* ... and a round adds one element to it.
LEMMA LoopSumStep ==
  ASSUME NEW a
  PROVE  /\ hand!LoopSum(a, 0) = 0
         /\ \A n \in Nat : hand!LoopSum(a, n + 1) = hand!LoopSum(a, n) + a[n]
<1> DEFINE f == CHOOSE g : g = [i \in Nat |-> IF i = 0 THEN 0 ELSE g[i - 1] + a[i - 1]]
<1>1. f = [i \in Nat |-> IF i = 0 THEN 0 ELSE f[i - 1] + a[i - 1]]
  BY SumExists
<1>2. \A n : hand!LoopSum(a, n) = f[n]
  BY DEF hand!LoopSum
<1> HIDE DEF f
<1>3. \A i \in Nat : f[i] = IF i = 0 THEN 0 ELSE f[i - 1] + a[i - 1]
  BY <1>1
<1>4. f[0] = 0
  BY <1>3
<1>5. ASSUME NEW n \in Nat PROVE f[n + 1] = f[n] + a[n]
  <2>1. n + 1 \in Nat /\ n + 1 # 0 /\ n + 1 - 1 = n
    OBVIOUS
  <2>2. QED
    BY <1>3, <2>1
<1>6. QED
  BY <1>2, <1>4, <1>5

\* Arrays that agree as far as the loop goes have one sum.
LEMMA LoopSumAgree ==
  ASSUME NEW a, NEW b, NEW n \in Nat, \A i \in 0..(n - 1) : a[i] = b[i]
  PROVE  hand!LoopSum(a, n) = hand!LoopSum(b, n)
<1> DEFINE T == {k \in Nat : k <= n /\ hand!LoopSum(a, k) # hand!LoopSum(b, k)}
<1>1. SUFFICES ASSUME T # {} PROVE FALSE
  OBVIOUS
<1>2. PICK k \in T : \A y \in Nat : y < k => y \notin T
  BY <1>1, FirstFailure
<1>3. k \in Nat /\ k <= n /\ hand!LoopSum(a, k) # hand!LoopSum(b, k)
  BY <1>2
<1>4. k # 0
  BY <1>3, LoopSumStep
<1>5. PICK j \in Nat : k = j + 1
  <2>1. k - 1 \in Nat /\ k = (k - 1) + 1
    BY <1>3, <1>4
  <2>2. QED
    BY <2>1
<1>6. j < k /\ j <= n /\ j \in 0..(n - 1)
  BY <1>3, <1>5
<1>7. hand!LoopSum(a, j) = hand!LoopSum(b, j)
  BY <1>2, <1>5, <1>6
<1>8. /\ hand!LoopSum(a, k) = hand!LoopSum(a, j) + a[j]
      /\ hand!LoopSum(b, k) = hand!LoopSum(b, j) + b[j]
  BY <1>5, LoopSumStep
<1>9. QED
  BY <1>3, <1>6, <1>7, <1>8

LEMMA LoopSumNat ==
  ASSUME NEW a, NEW n \in Nat, \A i \in 0..(n - 1) : a[i] \in Nat
  PROVE  hand!LoopSum(a, n) \in Nat
<1> DEFINE T == {k \in Nat : k <= n /\ hand!LoopSum(a, k) \notin Nat}
<1>1. SUFFICES ASSUME T # {} PROVE FALSE
  OBVIOUS
<1>2. PICK k \in T : \A y \in Nat : y < k => y \notin T
  BY <1>1, FirstFailure
<1>3. k \in Nat /\ k <= n /\ hand!LoopSum(a, k) \notin Nat
  BY <1>2
<1>4. k # 0
  BY <1>3, LoopSumStep
<1>5. PICK j \in Nat : k = j + 1
  <2>1. k - 1 \in Nat /\ k = (k - 1) + 1
    BY <1>3, <1>4
  <2>2. QED
    BY <2>1
<1>6. j < k /\ j <= n /\ j \in 0..(n - 1)
  BY <1>3, <1>5
<1>7. hand!LoopSum(a, j) \in Nat
  BY <1>2, <1>5, <1>6
<1>8. hand!LoopSum(a, k) = hand!LoopSum(a, j) + a[j]
  BY <1>5, LoopSumStep
<1>9. QED
  BY <1>3, <1>6, <1>7, <1>8

LEMMA LoopSumNothing ==
  ASSUME NEW a, NEW n \in Nat, \A i \in 0..(n - 1) : a[i] = 0
  PROVE  hand!LoopSum(a, n) = 0
<1> DEFINE T == {k \in Nat : k <= n /\ hand!LoopSum(a, k) # 0}
<1>1. SUFFICES ASSUME T # {} PROVE FALSE
  OBVIOUS
<1>2. PICK k \in T : \A y \in Nat : y < k => y \notin T
  BY <1>1, FirstFailure
<1>3. k \in Nat /\ k <= n /\ hand!LoopSum(a, k) # 0
  BY <1>2
<1>4. k # 0
  BY <1>3, LoopSumStep
<1>5. PICK j \in Nat : k = j + 1
  <2>1. k - 1 \in Nat /\ k = (k - 1) + 1
    BY <1>3, <1>4
  <2>2. QED
    BY <2>1
<1>6. hand!LoopSum(a, j) = 0 /\ j \in 0..(n - 1)
  BY <1>2, <1>3, <1>5
<1>7. hand!LoopSum(a, k) = hand!LoopSum(a, j) + a[j]
  BY <1>5, LoopSumStep
<1>8. QED
  BY <1>3, <1>6, <1>7

\* What one element has more, the sum has more.
LEMMA LoopSumOneMore ==
  ASSUME NEW a, NEW b, NEW n \in Nat, NEW p \in 0..(n - 1), NEW d \in Nat,
         \A i \in 0..(n - 1) : a[i] \in Nat,
         \A i \in 0..(n - 1) : i # p => b[i] = a[i],
         b[p] = a[p] + d
  PROVE  hand!LoopSum(b, n) = hand!LoopSum(a, n) + d
<1> DEFINE T == {k \in Nat : p < k /\ k <= n /\ hand!LoopSum(b, k) # hand!LoopSum(a, k) + d}
<1>1. SUFFICES ASSUME T # {} PROVE FALSE
  OBVIOUS
<1>2. PICK k \in T : \A y \in Nat : y < k => y \notin T
  BY <1>1, FirstFailure
<1>3. k \in Nat /\ p < k /\ k <= n /\ hand!LoopSum(b, k) # hand!LoopSum(a, k) + d
  BY <1>2
<1>4. PICK j \in Nat : k = j + 1
  <2>1. k - 1 \in Nat /\ k = (k - 1) + 1
    BY <1>3
  <2>2. QED
    BY <2>1
<1>5. j < k /\ j <= n /\ j \in 0..(n - 1) /\ p <= j /\ p \in Nat
  BY <1>3, <1>4
<1>6. /\ hand!LoopSum(a, k) = hand!LoopSum(a, j) + a[j]
      /\ hand!LoopSum(b, k) = hand!LoopSum(b, j) + b[j]
  BY <1>4, LoopSumStep
<1>7. hand!LoopSum(a, j) \in Nat /\ a[j] \in Nat
  <2>1. \A i \in 0..(j - 1) : i \in 0..(n - 1)
    BY <1>5
  <2>2. QED
    BY <1>5, <2>1, LoopSumNat
<1>8. CASE j = p
  <2>1. \A i \in 0..(j - 1) : i \in 0..(n - 1) /\ i # p
    BY <1>5, <1>8
  <2>2. hand!LoopSum(b, j) = hand!LoopSum(a, j)
    BY <2>1, LoopSumAgree
  <2>3. QED
    BY <1>3, <1>6, <1>7, <1>8, <2>2
<1>9. CASE j # p
  <2>1. b[j] = a[j]
    BY <1>5, <1>9
  <2>2. p < j
    BY <1>5, <1>9
  <2>3. hand!LoopSum(b, j) = hand!LoopSum(a, j) + d
    BY <1>2, <1>4, <1>5, <2>2
  <2>4. QED
    BY <1>3, <1>6, <1>7, <2>1, <2>3
<1>10. QED
  BY <1>8, <1>9

-----------------------------------------------------------------------------
(* What the loop of GetValue adds up, and what a hand is worth.            *)

HandTyping ==
  /\ cardCount \in 0..Capacity /\ held \in [CardValues -> Nat]
  /\ inHand \in [0..(Capacity - 1) -> CardValues]

\* The card DrawPlayer adds has one of the values.
LEMMA DrawnIsACard ==
  ASSUME DeckInv, DrawPlayer
  PROVE  Face[cards[currentCard]] \in CardValues /\ hand!Add(Face[cards[currentCard]])
<1>1. currentCard \in Positions
  BY DeckAssumption DEF DeckInv, DeckTypeOK, DrawPlayer, Return, Positions
<1>2. Face[cards[currentCard]] \in CardValues
  BY <1>1, FacesAreValues DEF DeckInv, DeckTypeOK
<1>3. QED
  BY <1>2 DEF DrawPlayer

LEMMA HandIsTyped == HandTypeOK => HandTyping
  BY SameValues DEF HandTypeOK, hand!HandTypeOK, HandTyping

\* Adding a card adds it to both sums: what the array holds behind the cards in
\* use does not matter, and the new card is the next one in use.
LEMMA AddTotals ==
  ASSUME NEW v \in CardValues, HandTypeOK, hand!Add(v)
  PROVE  hand!Totals' = hand!AddCard(hand!Totals, v)
<1>1. HandTyping
  BY HandIsTyped
<1>2. cardCount < MaxCards /\ cardCount' = cardCount + 1
  BY DEF hand!Add
<1>3. cardCount \in Nat /\ cardCount \in 0..(Capacity - 1)
  BY <1>1, <1>2, DealingAssumption DEF HandTyping
<1>4. inHand' = [inHand EXCEPT ![cardCount] = v]
  BY <1>2, <1>3 DEF hand!Add
<1>5. /\ DOMAIN inHand' = DOMAIN inHand /\ DOMAIN inHand = 0..(Capacity - 1)
      /\ inHand'[cardCount] = v
      /\ \A i \in 0..(cardCount - 1) : i \in DOMAIN inHand /\ inHand'[i] = inHand[i]
  BY <1>1, <1>3, <1>4, DealingAssumption DEF HandTyping
<1> DEFINE w == [i \in DOMAIN inHand |-> hand!AceLow(inHand[i])]
           z == [i \in DOMAIN inHand' |-> hand!AceLow(inHand'[i])]
<1>6. /\ z[cardCount] = hand!AceLow(v)
      /\ \A i \in 0..(cardCount - 1) : z[i] = w[i]
  BY <1>3, <1>5
<1>7. /\ hand!Totals  = [count |-> cardCount, low |-> hand!LoopSum(w, cardCount),
                         high |-> hand!LoopSum(inHand, cardCount)]
      /\ hand!Totals' = [count |-> cardCount', low |-> hand!LoopSum(z, cardCount'),
                         high |-> hand!LoopSum(inHand', cardCount')]
  BY DEF hand!Totals, hand!InUse
<1> HIDE DEF w, z
<1>8. hand!LoopSum(z, cardCount') = hand!LoopSum(w, cardCount) + hand!AceLow(v)
  <2>1. hand!LoopSum(z, cardCount) = hand!LoopSum(w, cardCount)
    BY <1>3, <1>6, LoopSumAgree
  <2>2. hand!LoopSum(z, cardCount + 1) = hand!LoopSum(z, cardCount) + z[cardCount]
    BY <1>3, LoopSumStep
  <2>3. QED
    BY <1>2, <1>6, <2>1, <2>2
<1>9. hand!LoopSum(inHand', cardCount') = hand!LoopSum(inHand, cardCount) + v
  <2>1. hand!LoopSum(inHand', cardCount) = hand!LoopSum(inHand, cardCount)
    BY <1>3, <1>5, LoopSumAgree
  <2>2. hand!LoopSum(inHand', cardCount + 1) = hand!LoopSum(inHand', cardCount) + inHand'[cardCount]
    BY <1>3, LoopSumStep
  <2>3. QED
    BY <1>2, <1>5, <2>1, <2>2
<1>10. QED
  BY <1>2, <1>7, <1>8, <1>9 DEF hand!AddCard

\* ClearHand leaves the cards in the array and takes them out of use.
LEMMA ClearTotals ==
  ASSUME hand!ClearHand
  PROVE  hand!Totals' = hand!Cleared
<1>1. cardCount' = 0
  BY DEF hand!ClearHand, hand!ResetCount
<1>2. \A a : hand!LoopSum(a, 0) = 0
  BY LoopSumStep
<1>3. QED
  BY <1>1, <1>2 DEF hand!Totals, hand!InUse, hand!Cleared

\* A hand's hard total grows by the value of a card that is added ...
LEMMA AddHard ==
  ASSUME NEW v \in CardValues, HandTypeOK, hand!Add(v)
  PROVE  /\ hand!Hard \in Nat /\ hand!Hard' = hand!Hard + hand!AceLow(v)
         /\ hand!Aces \in Nat
         /\ hand!Aces' = IF v = 11 THEN hand!Aces + 1 ELSE hand!Aces
<1>1. held \in [CardValues -> Nat] /\ held' = [held EXCEPT ![v] = @ + 1]
  BY HandIsTyped DEF HandTyping, hand!Add
<1>2. v \in 2..11 /\ hand!AceLow(v) \in Nat /\ v \in 0..(12 - 1) /\ 11 \in CardValues
  BY DEF CardValues, hand!AceLow
<1>3. hand!Aces \in Nat /\ hand!Aces' = IF v = 11 THEN hand!Aces + 1 ELSE hand!Aces
  BY <1>1, <1>2 DEF hand!Aces
<1>4. \A i \in CardValues : held[i] * hand!AceLow(i) \in Nat
  BY <1>1 DEF CardValues, hand!AceLow
<1>5. held'[v] = held[v] + 1 /\ \A i \in CardValues \ {v} : held'[i] = held[i]
  BY <1>1
<1>6. held'[v] * hand!AceLow(v) = held[v] * hand!AceLow(v) + hand!AceLow(v)
  BY <1>1, <1>2, <1>5
<1> DEFINE w == hand!Worth
           z == hand!Worth'
<1>7. \A i \in 0..(12 - 1) : /\ w[i] = IF i \in CardValues THEN held[i] * hand!AceLow(i) ELSE 0
                             /\ z[i] = IF i \in CardValues THEN held'[i] * hand!AceLow(i) ELSE 0
  BY SameValues DEF hand!Worth
<1>8. hand!Hard = hand!LoopSum(w, 12) /\ hand!Hard' = hand!LoopSum(z, 12)
  BY DEF hand!Hard
<1> HIDE DEF w, z
<1>9. \A i \in 0..(12 - 1) : w[i] \in Nat
  BY <1>4, <1>7
<1>10. \A i \in 0..(12 - 1) : i # v => z[i] = w[i]
  BY <1>5, <1>7
<1>11. z[v] = w[v] + hand!AceLow(v)
  BY <1>2, <1>6, <1>7
<1>12. hand!LoopSum(z, 12) = hand!LoopSum(w, 12) + hand!AceLow(v)
  <2>1. PICK d \in Nat : d = hand!AceLow(v)
    BY <1>2
  <2>2. 12 \in Nat /\ v \in 0..(12 - 1) /\ z[v] = w[v] + d
    BY <1>2, <1>11, <2>1
  <2>3. PICK n \in Nat : n = 12
    OBVIOUS
  <2>4. n \in Nat /\ v \in 0..(n - 1)
    BY <1>2, <2>3
  <2>5. /\ \A i \in 0..(n - 1) : w[i] \in Nat
        /\ \A i \in 0..(n - 1) : i # v => z[i] = w[i]
    BY <1>9, <1>10, <2>3
  <2>6. hand!LoopSum(z, n) = hand!LoopSum(w, n) + d
    BY <2>1, <2>2, <2>4, <2>5, LoopSumOneMore
  <2>7. QED
    BY <2>1, <2>3, <2>6
<1>13. hand!LoopSum(w, 12) \in Nat
  BY <1>9, LoopSumNat
<1>14. QED
  BY <1>3, <1>8, <1>12, <1>13

\* The two sums of GetValue are the hand with every ace as 1 and as 11.
SumsInv ==
  /\ hand!Hard \in Nat /\ hand!Aces \in Nat /\ hand!Aces <= hand!Hard
  /\ hand!Totals.low = hand!Hard
  /\ hand!Totals.high = hand!Hard + 10 * hand!Aces

LEMMA AddKeepsSums ==
  ASSUME NEW v \in CardValues, HandTypeOK, SumsInv, hand!Add(v)
  PROVE  SumsInv'
<1>1. /\ hand!Totals'.low = hand!Totals.low + hand!AceLow(v)
      /\ hand!Totals'.high = hand!Totals.high + v
  BY AddTotals DEF hand!AddCard
<1>2. hand!AceLow(v) = (IF v = 11 THEN 1 ELSE v) /\ v \in 2..11
  BY DEF hand!AceLow, CardValues
<1>3. /\ hand!Hard' = hand!Hard + hand!AceLow(v)
      /\ hand!Aces' = IF v = 11 THEN hand!Aces + 1 ELSE hand!Aces
  BY AddHard
<1>4. QED
  BY <1>1, <1>2, <1>3 DEF SumsInv

LEMMA ClearKeepsSums ==
  ASSUME hand!ClearHand
  PROVE  SumsInv'
<1>1. hand!Totals'.low = 0 /\ hand!Totals'.high = 0
  BY ClearTotals DEF hand!Cleared
<1>2. held' = [v \in CardValues |-> 0]
  BY SameValues DEF hand!ClearHand
<1>3. hand!Hard' = 0 /\ hand!Aces' = 0
  <2>1. \A i \in 0..(12 - 1) : hand!Worth'[i] = 0
    BY <1>2, SameValues DEF hand!Worth, hand!AceLow, CardValues
  <2>2. hand!LoopSum(hand!Worth', 12) = 0
    BY <2>1, LoopSumNothing
  <2>3. QED
    BY <1>2, <2>2 DEF hand!Hard, hand!Aces, CardValues
<1>4. QED
  BY <1>1, <1>3 DEF SumsInv

LEMMA StepKeepsSums ==
  HandTypeOK /\ SumsInv /\ DeckInv /\ [DealingNext]_dealingVars => SumsInv'
<1> SUFFICES ASSUME HandTypeOK, SumsInv, DeckInv, [DealingNext]_dealingVars
             PROVE  SumsInv'
  OBVIOUS
<1>1. CASE UNCHANGED <<inHand, cardCount, held>>
  BY <1>1 DEF SumsInv, hand!Hard, hand!Worth, hand!Aces, hand!Totals, hand!InUse
<1>2. CASE DrawPlayer
  BY <1>2, DrawnIsACard, AddKeepsSums
<1>3. CASE NewGame
  BY <1>3, ClearKeepsSums DEF NewGame
<1>4. QED
  BY <1>1, <1>2, <1>3
     DEF DealingNext, dealingVars, Shuffling, CallNextCard, DrawOther

\* The rules count at most one ace as 11, for two of them are 22.
LEMMA BestCount ==
  ASSUME SumsInv
  PROVE  hand!Best = IF hand!Aces >= 1 /\ hand!Hard <= 11 THEN hand!Hard + 10 ELSE hand!Hard
<1> DEFINE S == {n \in hand!Counts : n <= 21}
<1>1. PICK h \in Nat, a \in Nat : h = hand!Hard /\ a = hand!Aces /\ a <= h
  BY DEF SumsInv
<1>2. ASSUME NEW m \in S, \A y \in S : y <= m PROVE hand!Max(S) = m
  <2>1. \A y \in S : y \in Int
    BY <1>1 DEF hand!Counts
  <2>2. hand!Max(S) \in S /\ \A y \in S : hand!Max(S) >= y
    BY <1>2, <2>1 DEF hand!Max
  <2>3. QED
    BY <1>2, <2>1, <2>2
<1>3. \A y : y \in S <=> \E k \in 0..a : y = h + 10 * k /\ y <= 21
  BY <1>1 DEF hand!Counts
<1>4. \A k \in 0..a : h + 10 * k <= 21 => k <= 1
  BY <1>1
<1> HIDE DEF S
<1>5. CASE h > 21
  BY <1>1, <1>5 DEF hand!Best
<1>6. CASE h <= 21 /\ a >= 1 /\ h <= 11
  <2>1. h + 10 \in S
    <3>1. 1 \in 0..a /\ h + 10 = h + 10 * 1 /\ h + 10 <= 21
      BY <1>1, <1>6
    <3>2. QED
      BY <1>3, <3>1
  <2>2. \A y \in S : y <= h + 10
    BY <1>1, <1>3, <1>4
  <2>3. hand!Max(S) = h + 10
    BY <1>2, <2>1, <2>2
  <2>4. QED
    BY <1>1, <1>6, <2>3 DEF hand!Best, S
<1>7. CASE h <= 21 /\ ~(a >= 1 /\ h <= 11)
  <2>1. h \in S
    <3>1. 0 \in 0..a /\ h = h + 10 * 0 /\ h <= 21
      BY <1>1, <1>7
    <3>2. QED
      BY <1>3, <3>1
  <2>2. \A y \in S : y <= h
    <3>1. \A k \in 0..a : h + 10 * k <= 21 => k = 0
      BY <1>1, <1>4, <1>7
    <3>2. QED
      BY <1>1, <1>3, <3>1
  <2>3. hand!Max(S) = h
    BY <1>2, <2>1, <2>2
  <2>4. QED
    BY <1>1, <1>7, <2>3 DEF hand!Best, S
<1>8. QED
  BY <1>1, <1>5, <1>6, <1>7

LEMMA SumsGiveRules == SumsInv => hand!BustByTheRules /\ hand!ValueByTheRules
<1> SUFFICES ASSUME SumsInv PROVE hand!BustByTheRules /\ hand!ValueByTheRules
  OBVIOUS
<1>1. PICK h \in Nat, a \in Nat : h = hand!Hard /\ a = hand!Aces /\ a <= h
  BY DEF SumsInv
<1>2. hand!GetValue(hand!Totals) = IF h + 10 * a > 21 THEN h ELSE h + 10 * a
  BY <1>1 DEF SumsInv, hand!GetValue
<1>3. hand!Best = IF a >= 1 /\ h <= 11 THEN h + 10 ELSE h
  BY <1>1, BestCount
<1>4. hand!BustByTheRules
  BY <1>1, <1>2, <1>3 DEF hand!BustByTheRules, hand!CheckBust
<1>5. hand!ValueByTheRules
  BY <1>1, <1>2, <1>3 DEF hand!ValueByTheRules, hand!HandValue
<1>6. QED
  BY <1>4, <1>5

LEMMA HandInvariants == DealingSpec => [](HandTypeOK /\ SumsInv /\ DeckInv)
<1>1. DealingInit => SumsInv
  <2> SUFFICES ASSUME DealingInit PROVE SumsInv
    OBVIOUS
  <2>1. cardCount = 0 /\ held = [v \in CardValues |-> 0]
    BY SameValues DEF DealingInit, hand!HandInit
  <2>2. hand!Totals.low = 0 /\ hand!Totals.high = 0
    BY <2>1, LoopSumStep DEF hand!Totals, hand!InUse
  <2>3. \A i \in 0..(12 - 1) : hand!Worth[i] = 0
    BY <2>1, SameValues DEF hand!Worth, hand!AceLow, CardValues
  <2>4. hand!LoopSum(hand!Worth, 12) = 0
    BY <2>3, LoopSumNothing
  <2>5. QED
    BY <2>1, <2>2, <2>4 DEF SumsInv, hand!Hard, hand!Aces, CardValues
<1>2. QED
  BY <1>1, StepKeepsSums, HandTypeCorrect, DealsFromDeck, DeckInvariant, PTL
     DEF DealingSpec

\* A hand busts exactly when the rules say so, whatever cards of earlier games
\* lie in the array behind those in use.  (Hand::GetValue, Hand::ClearHand.)
THEOREM BustsByTheRules == DealingSpec => []BustByTheRules
<1>1. SumsInv => BustByTheRules
  BY SumsGiveRules DEF BustByTheRules
<1>2. QED
  BY <1>1, HandInvariants, PTL

\* Hand::GetValue never gives more than the rules do, and less only if one of
\* several aces should count 11.
THEOREM ValuesByTheRules == DealingSpec => []ValueByTheRules
<1>1. SumsInv => ValueByTheRules
  BY SumsGiveRules DEF ValueByTheRules
<1>2. QED
  BY <1>1, HandInvariants, PTL

\* What the server's model keeps of a hand is what the array of Hand.h gives:
\* a card added there is added to the two sums, and only ClearHand empties them.
THEOREM HandsAreTotals == DealingSpec => ImplementsTotals
<1>1. HandTypeOK /\ SumsInv /\ DeckInv /\ [DealingNext]_dealingVars
      => [\/ hand!Totals' = hand!Cleared
          \/ \E v \in {Face[c] : c \in Positions} :
               hand!Totals' = hand!AddCard(hand!Totals, v)]_hand!handVars
  <2> SUFFICES ASSUME HandTypeOK, SumsInv, DeckInv, [DealingNext]_dealingVars,
                      ~UNCHANGED hand!handVars
               PROVE  \/ hand!Totals' = hand!Cleared
                      \/ \E v \in {Face[c] : c \in Positions} :
                           hand!Totals' = hand!AddCard(hand!Totals, v)
    OBVIOUS
  <2>1. CASE DrawPlayer
    <3>1. cards[currentCard] \in Positions
      BY <2>1, DeckAssumption DEF DeckInv, DeckTypeOK, DrawPlayer, Return, Positions
    <3>2. hand!Totals' = hand!AddCard(hand!Totals, Face[cards[currentCard]])
      BY <2>1, DrawnIsACard, AddTotals
    <3>3. QED
      BY <3>1, <3>2
  <2>2. CASE NewGame
    BY <2>2, ClearTotals DEF NewGame
  <2>3. QED
    BY <2>1, <2>2
       DEF DealingNext, dealingVars, Shuffling, CallNextCard, DrawOther, hand!handVars
<1>2. QED
  BY <1>1, HandInvariants, PTL DEF DealingSpec, ImplementsTotals, hand!ImplementsTotals

-----------------------------------------------------------------------------
(* Running out.                                                            *)

\* Every card is somewhere in the array.
AllThere == \A c \in Positions : \E i \in Positions : cards[i] = c

LEMMA SwapKeepsAllThere == DeckInv /\ AllThere /\ Swap => AllThere'
<1> SUFFICES ASSUME DeckInv, AllThere, Swap, NEW c \in Positions
             PROVE  \E k \in Positions : cards'[k] = c
  BY DEF AllThere
<1>1. PICK i, j \in Positions : cards' = Swapped(i, j)
  BY DEF Swap
<1>2. PICK k \in Positions : cards[k] = c
  BY DEF AllThere
<1>3. cards \in [Positions -> Positions]
  BY DEF DeckInv, DeckTypeOK
<1>4. \/ k = i /\ cards'[j] = c
      \/ k = j /\ cards'[i] = c
      \/ k # i /\ k # j /\ cards'[k] = c
  BY <1>1, <1>2, <1>3 DEF Swapped
<1>5. QED
  BY <1>1, <1>2, <1>4

\* The deck is shuffled in the middle of a game only when every card of it has
\* been dealt.  (Deck::NextCard.)
THEOREM DealsAllBeforeShuffle == DealingSpec => DealsEveryCard
<1>1. DeckInit => AllThere
  BY DEF DeckInit, AllThere
<1>2. DeckInv /\ AllThere /\ [DeckNext]_deckVars => AllThere'
  <2> SUFFICES ASSUME DeckInv, AllThere, [DeckNext]_deckVars PROVE AllThere'
    OBVIOUS
  <2>1. CASE cards' = cards
    BY <2>1 DEF AllThere
  <2>2. QED
    BY <2>1, SwapKeepsAllThere DEF DeckNext, NextCard, Return, deckVars
<1>3. DeckInv /\ AllThere /\ [DeckNext]_deckVars
      => [~inCall /\ inCall' /\ count' > 0 => dealt = Positions]_deckVars
  <2> SUFFICES ASSUME DeckInv, AllThere, [DeckNext]_deckVars, ~inCall, inCall', count' > 0
               PROVE  dealt = Positions
    OBVIOUS
  <2> USE DeckAssumption
  <2>1. NextCard
    BY DEF DeckNext, Swap, Return, deckVars
  <2>2. RunsOut
    BY <2>1 DEF NextCard
  <2>3. \A i \in Positions : IsDealt(i)
    BY <2>2 DEF RunsOut, IsDealt, Positions, DeckInv, DeckTypeOK
  <2>4. Positions \subseteq dealt
    BY <2>3 DEF AllThere, DeckInv
  <2>5. QED
    BY <2>4 DEF DeckInv, DeckTypeOK
<1>4. QED
  BY <1>1, <1>2, <1>3, DealsFromDeck, DeckInvariant, PTL DEF DeckSpec, DealsEveryCard
=============================================================================
