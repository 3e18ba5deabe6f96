----------------------------- MODULE RoundTable -----------------------------
(***************************************************************************)
(* What the server promises its players: a table where games follow one    *)
(* another, every seat plays in order, only the seat whose turn it is can  *)
(* take a card, the turn never skips a seat nor comes back, the dealer     *)
(* plays last, and money changes hands only when all have played.  There   *)
(* are no messages, no clients and no counters here; Blackjack implements  *)
(* it (module TableRefinement).                                            *)
(***************************************************************************)
EXTENDS HandTotals, Sequences

CONSTANTS
  Ranks,     \* card values dealt
  entryMoney,\* money a player sits down with
  stake      \* what a player stakes in each game

VARIABLES
  phase,     \* "lobby", "play", "dealer"
  table,     \* the seats, in the order of play
  house      \* the dealer's hand

tableVars == <<phase, table, house>>

Seat == [status: {"idle", "waiting", "playing", "done"},
         hand: HandType, money: Int]

TableTypeOK ==
  /\ phase \in {"lobby", "play", "dealer"}
  /\ table \in Seq(Seat)
  /\ house \in HandType

TableInit ==
  /\ phase = "lobby"
  /\ table = << >>
  /\ house = Cleared

\* A newcomer sits at the end of the table and, while the seats play, waits
\* for a turn: without cards, for they have been dealt.
Join ==
  /\ phase # "dealer"
  /\ table' = Append(table, [status |-> IF phase = "play" THEN "waiting" ELSE "idle",
                             hand |-> Cleared, money |-> entryMoney])
  /\ UNCHANGED <<phase, house>>

TwoCards(x, y) == AddCard(AddCard(Cleared, x), y)

Deal ==
  /\ phase = "lobby"
  /\ Len(table) >= 2
  /\ phase' = "play"
  /\ \E x, y \in Ranks : house' = TwoCards(x, y)
  /\ \E cards \in [1..Len(table) -> Ranks \X Ranks] :
       table' = [i \in 1..Len(table) |->
                  [table[i] EXCEPT !.status = IF i = 1 THEN "playing" ELSE "waiting",
                                   !.hand = TwoCards(cards[i][1], cards[i][2])]]

TakeCard(i) ==
  /\ phase = "play"
  /\ table[i].status = "playing"
  /\ \E card \in Ranks : table' = [table EXCEPT ![i].hand = AddCard(@, card)]
  /\ UNCHANGED <<phase, house>>

PassTurn(i) ==
  /\ phase = "play"
  /\ table[i].status = "playing"
  /\ table' = [k \in 1..Len(table) |->
                [table[k] EXCEPT !.status = IF k = i THEN "done"
                                            ELSE IF k = i + 1 THEN "playing"
                                            ELSE @]]
  /\ phase' = IF i = Len(table) THEN "dealer" ELSE "play"
  /\ UNCHANGED house

HouseDraws ==
  /\ phase = "dealer"
  /\ GetValue(house) < 16
  /\ \E card \in Ranks : house' = AddCard(house, card)
  /\ UNCHANGED <<phase, table>>

\* What a game is worth to a hand; the house wins ties.
Gain(h) ==
  IF CheckBust(h) THEN -stake
  ELSE IF GetValue(h) = 21 THEN (stake * 5) \div 2 - stake
  ELSE IF CheckBust(house) \/ GetValue(h) > GetValue(house) THEN stake
  ELSE -stake

Settle ==
  /\ phase = "dealer"
  /\ GetValue(house) >= 16
  /\ phase' = "lobby"
  /\ table' = [i \in 1..Len(table) |->
                [table[i] EXCEPT !.status = "idle", !.money = @ + Gain(table[i].hand)]]
  /\ UNCHANGED house

TableNext ==
  \/ Join \/ Deal \/ HouseDraws \/ Settle
  \/ \E i \in 1..Len(table) : TakeCard(i) \/ PassTurn(i)

TableSpec == TableInit /\ [][TableNext]_tableVars

=============================================================================
