\* A deck of four cards, shuffled by two swaps, and a hand of up to five.
SPECIFICATION DealingSpec
CONSTANTS
  DeckSize = 4
  Swaps = 2
  Face <- TwoAces
  Capacity = 5
  MaxCards = 5
  MaxShuffles = 1
INVARIANTS
  DeckTypeOK
  AllDifferent
  DealsNoCardTwice
  HandTypeOK
  BustByTheRules
  ValueByTheRules
  TwiceOnlyAfterShuffle
PROPERTIES
  DealsEveryCard
  ImplementsTotals
